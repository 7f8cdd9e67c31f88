---------------------------- MODULE DblogProofs ----------------------------
(***************************************************************************)
(* The batches of dblog() are right, whatever the table, its history, the  *)
(* chunk sizes and the interleaving.                                       *)
(***************************************************************************)
EXTENDS Dblog, HistoryProofs, FiniteSetTheorems

\* What a step of the source does to everything read from it so far: nothing.
LEMMA PastIsFixed ==
  ASSUME SourceTypeOK, SourceNext
  PROVE  /\ SourceTypeOK'
         /\ base' = base
         /\ Len(log) <= Len(log')
         /\ captured <= captured'
         /\ \A k, p : p \in 0..Len(log) =>
              Image(base', log', k, p) = Image(base, log, k, p)
         /\ \A k, lo, hi : lo \in Nat \ {0} /\ hi \in 0..Len(log) =>
              EventsOf(log', k, lo, hi) = EventsOf(log, k, lo, hi)
<1>1. ASSUME NEW t \in Txns, Commit(t)
      PROVE  /\ SourceTypeOK'
             /\ Len(log) <= Len(log')
             /\ \A k, p : p \in 0..Len(log) =>
                  Image(base', log', k, p) = Image(base, log, k, p)
             /\ \A k, lo, hi : lo \in Nat \ {0} /\ hi \in 0..Len(log) =>
                  EventsOf(log', k, lo, hi) = EventsOf(log, k, lo, hi)
  <2>1. t \in Transaction /\ log \in Seq(Transaction)
    BY TxnsAssumption DEF SourceTypeOK
  <2>2. /\ log' = Append(log, t) /\ base' = base
        /\ captured' = captured /\ floor' = floor
    BY <1>1 DEF Commit
  <2>3. log' \in Seq(Transaction) /\ Len(log') = Len(log) + 1 /\ Len(log) \in Nat
    BY <2>1, <2>2
  <2>4. SourceTypeOK'
    BY <1>1, <2>2, <2>3, MaxLogAssumption DEF SourceTypeOK, Commit
  <2>5. ASSUME NEW k, NEW p \in 0..Len(log)
        PROVE  Image(base', log', k, p) = Image(base, log, k, p)
    BY <2>1, <2>2, ImageOfPrefix
  <2>6. ASSUME NEW k, NEW lo \in Nat \ {0}, NEW hi \in 0..Len(log)
        PROVE  EventsOf(log', k, lo, hi) = EventsOf(log, k, lo, hi)
    BY <2>1, <2>2, EventsOfPrefix
  <2>. QED
    BY <2>3, <2>4, <2>5, <2>6
<1>2. CASE Capture
  BY <1>2 DEF Capture, SourceTypeOK
<1>3. ASSUME NEW f \in 1..MaxLog, Cleanup(f)
      PROVE  SourceTypeOK' /\ UNCHANGED <<base, log, captured>>
  BY <1>3, MaxLogAssumption DEF Cleanup, SourceTypeOK
<1>4. Len(log) \in Nat /\ captured \in Nat
  BY DEF SourceTypeOK
<1>5. CASE \E t \in Txns : Commit(t)
  BY <1>1, <1>4, <1>5 DEF Commit
<1>6. CASE \E f \in 1..MaxLog : Cleanup(f)
  BY <1>3, <1>4, <1>6
<1>. QED
  BY <1>2, <1>4, <1>5, <1>6 DEF SourceNext, Capture
-----------------------------------------------------------------------------
(* Types.                                                                  *)

\* A row a scan visits exists, and so has an LSN for its version.
LEMMA LiveRow ==
  ASSUME SourceTypeOK, NEW k \in Live
  PROVE  Row(k) \in 0..MaxLog
<1>1. Len(log) \in Nat /\ Len(log) <= MaxLog /\ MaxLog \in Nat
  BY MaxLogAssumption DEF SourceTypeOK
<1>2. Row(k) \in Version /\ Row(k) <= Len(log)
  BY <1>1, ImageIsVersion DEF Row
<1>. QED
  BY <1>1, <1>2 DEF Live, Version

\* A version for each of some keys is a set of rows read off the table.
LEMMA RowsIntro ==
  ASSUME NEW S \in SUBSET Key, NEW f \in [S -> 0..MaxLog]
  PROVE  f \in Rows
BY DEF Rows

\* And rows read off the table are a version for each of some keys.
LEMMA RowsElim ==
  ASSUME NEW f \in Rows
  PROVE  f \in [DOMAIN f -> 0..MaxLog] /\ DOMAIN f \in SUBSET Key
BY DEF Rows

Locals == [size : Nat, page : Rows, cursor : Key \cup {-1},
           low : Nat, mark : Nat, high : Nat]

\* A call that has read nothing has well-typed locals.
LEMMA NothingYet == NoRows \in Rows /\ NoCall \in Locals
<1>1. NoRows \in [{} -> 0..MaxLog]
  BY DEF NoRows
<1>2. NoRows \in Rows
  BY <1>1, RowsIntro
<1>. QED
  BY <1>2 DEF NoCall, Locals

\* The variables start out well typed.
LEMMA TypeInit == Init => TypeOK
<1>. SUFFICES ASSUME Init PROVE TypeOK
  OBVIOUS
<1>1. OtherTable \in Transaction
  BY DEF OtherTable, Transaction
<1>2. SourceTypeOK
  BY <1>1, MaxLogAssumption DEF Init, SourceInit, SourceTypeOK
<1>3. NoCall \in Locals /\ NoFrame \in [from : Nat, to : Nat, rows : Rows]
  BY NothingYet DEF NoFrame
<1>. QED
  BY <1>2, <1>3 DEF Init, LocalsInit, TypeOK, Locals, PCs

\* A batch is a range of the log and rows read off the table.
LEMMA TypeOfBatch ==
  ASSUME TypeOK, NEW to \in Nat, run \in RunState, Batch(to)
  PROVE  /\ frame' \in [from : Nat, to : Nat, rows : Rows]
         /\ run' \in RunState
<1>1. call.page \in Rows /\ run.last_lsn \in Nat
  BY DEF TypeOK, RunState
<1>2. Surviving(call.page, run.last_lsn, to) \in
        [DOMAIN call.page \ WindowKeys(run.last_lsn, to) -> 0..MaxLog]
  BY <1>1, RowsElim DEF Surviving
<1>3. Surviving(call.page, run.last_lsn, to) \in Rows
  BY <1>1, <1>2, RowsElim, RowsIntro
<1>4. run' \in RunState
  <2> DEFINE short == IF run.last_lsn <= to THEN to + 1 \notin Adjacent ELSE run.short
  <2>1. short \in BOOLEAN
    BY DEF RunState
  <2>2. run' = [run EXCEPT !.last_lsn = to + 1, !.short = short]
    BY DEF Batch
  <2>. HIDE DEF short
  <2>3. to + 1 \in Nat
    OBVIOUS
  <2>. QED
    BY <2>1, <2>2, <2>3 DEF RunState
<1>. QED
  BY <1>1, <1>3, <1>4 DEF Batch

\* The state, the call's locals and the frame keep their types.
LEMMA TypeStep == TypeOK /\ [Next]_vars => TypeOK'
<1>. SUFFICES ASSUME TypeOK, [Next]_vars PROVE TypeOK'
  OBVIOUS
<1>. USE DEF TypeOK, PCs, sourceVars
<1>0. call \in Locals /\ captured \in Nat /\ floor \in Nat /\ Len(log) \in Nat
  BY DEF Locals, SourceTypeOK
<1>1. CASE SourceNext /\ UNCHANGED callVars
  BY <1>1, PastIsFixed DEF callVars
<1>2. CASE \E n \in ChunkSizes : Begin(n)
  BY <1>2, NothingYet, ChunkSizesAssumption DEF Begin, NoCall, Locals, SourceTypeOK
<1>3. CASE SeedFloor
  BY <1>0, <1>3 DEF SeedFloor, RunState, SourceTypeOK
<1>4. CASE SeedOpening
  BY <1>0, <1>4 DEF SeedOpening, RunState, SourceTypeOK
<1>5. CASE CheckRetention
  BY <1>5 DEF CheckRetention, SourceTypeOK
<1>6. CASE RetentionExpired
  BY <1>6, NothingYet DEF RetentionExpired, Locals, SourceTypeOK
<1>7. CASE LowWatermark
  BY <1>0, <1>7 DEF LowWatermark, SourceTypeOK
<1>8. ASSUME NEW k \in Key, ScanRow(k)
      PROVE  TypeOK'
  <2> DEFINE S    == DOMAIN call.page \cup {k}
             page == [j \in S |-> IF j = k THEN Row(k) ELSE call.page[j]]
  <2>1. Row(k) \in 0..MaxLog
    BY <1>8, LiveRow DEF ScanRow, Ahead
  <2>2. call.page \in [DOMAIN call.page -> 0..MaxLog] /\ DOMAIN call.page \in SUBSET Key
    BY RowsElim
  <2>3. page \in [S -> 0..MaxLog] /\ S \in SUBSET Key
    BY <2>1, <2>2
  <2>4. page \in Rows
    BY <2>3, RowsIntro
  <2>5. call' = [call EXCEPT !.cursor = k, !.page = page]
    BY <1>8 DEF ScanRow
  <2>. HIDE DEF page
  <2>6. call' \in Locals
    BY <1>0, <2>4, <2>5 DEF Locals
  <2>. QED
    BY <1>8, <2>6 DEF ScanRow, Locals, SourceTypeOK
<1>9. CASE ScanEnd
  <2>1. call.cursor # -1 => Lead[call.cursor] \in Nat
    BY LeadAssumption
  <2> DEFINE next == IF call.cursor = -1 THEN run.chunk_key ELSE Lead[call.cursor] + 1
             done == Cardinality(DOMAIN call.page) < call.size
  <2>2. run \in RunState /\ next \in Nat /\ done \in BOOLEAN
    BY <1>0, <1>9, <2>1 DEF ScanEnd, RunState
  <2>3. Advanced = [run EXCEPT !.chunk_key = next, !.dump_done = done]
    BY DEF Advanced
  <2>. HIDE DEF next, done
  <2>4. Advanced \in RunState
    BY <2>2, <2>3 DEF RunState
  <2>. QED
    BY <1>9, <2>4 DEF ScanEnd, SourceTypeOK
<1>10. CASE HighWatermark
  BY <1>0, <1>10 DEF HighWatermark, SourceTypeOK
<1>11. CASE AwaitWatermark
  BY <1>11 DEF AwaitWatermark, SourceTypeOK
<1>12. CASE ReadMax
  BY <1>0, <1>12 DEF ReadMax, SourceTypeOK
<1>13. CASE NoWindow
  <2>1. run \in RunState /\ run.last_lsn - 1 \in Nat
    BY <1>0, <1>13 DEF NoWindow, RunState
  <2>2. Batch(run.last_lsn - 1)
    BY <1>13 DEF NoWindow
  <2>. QED
    BY <1>13, <2>1, <2>2, TypeOfBatch DEF NoWindow, Batch, SourceTypeOK
<1>14. CASE ReadWindow
  <2>1. run \in RunState /\ call.high \in Nat /\ Batch(call.high)
    BY <1>14 DEF ReadWindow
  <2>. QED
    BY <1>14, <2>1, TypeOfBatch DEF ReadWindow, Batch, SourceTypeOK
<1>15. CASE (ScanRefused \/ WindowRefused \/ CallFails)
  BY <1>15, NothingYet
     DEF ScanRefused, WindowRefused, CallFails, Raise, Locals, SourceTypeOK
<1>16. CASE Return
  BY <1>16, NothingYet DEF Return, NoFrame, Locals, SourceTypeOK
<1>17. CASE UNCHANGED vars
  BY <1>17 DEF vars, callVars, SourceTypeOK
<1>. QED
  BY <1>1, <1>2, <1>3, <1>4, <1>5, <1>6, <1>7, <1>8, <1>9, <1>10, <1>11, <1>12,
     <1>13, <1>14, <1>15, <1>16, <1>17 DEF Next, CallStep, Proceeds, Refused

\* Every variable keeps its type: the run states a caller is given back are
\* run states, and what a page or a frame holds are versions of rows.
THEOREM TypeCorrect == Spec => []TypeOK
BY TypeInit, TypeStep, PTL DEF Spec
-----------------------------------------------------------------------------
(* Dump rows.                                                              *)

\* The call dumps, rather than tails the log alone.
Dumping == state = None \/ ~state.dump_done

\* How far the log had got by the end of the page read, as it is known at pc.
ScannedUntil == IF pc \in {"scan", "high"} THEN Len(log) ELSE call.mark

\* Every position a run state holds is at most one past the log's end.
PositionInv ==
  /\ state # None => state.last_lsn \in 1..(Len(log) + 1)
  /\ run # None => run.last_lsn \in 1..(Len(log) + 1)

\* Before the page read no row has been read, and only a dump gets to one.
OpeningInv ==
  /\ pc \in {"floor", "opening", "retain", "low"} =>
       DOMAIN call.page = {} /\ call.cursor = -1 /\ call.mark = 0
  /\ pc \in {"floor", "opening"} => state = None
  /\ pc = "low" => Dumping
  /\ pc = "retain" => run = state

\* A row read is the row as it was at some moment of the page read, and the
\* window to come opens no later than the page read did.
PageInv ==
  pc \in {"scan", "high", "await", "max", "events"} =>
    /\ ~Dumping => DOMAIN call.page = {} /\ call.mark = 0 /\ pc \in {"max", "events"}
    /\ Dumping =>
         /\ call.low <= ScannedUntil /\ ScannedUntil <= Len(log)
         /\ run.last_lsn <= call.low + 1
         /\ \A k \in DOMAIN call.page :
              \E p \in call.low..ScannedUntil : call.page[k] = Image(base, log, k, p)

\* Once the wait is over the log that can be read covers the page read.
WindowInv ==
  /\ pc \in {"max", "events"} /\ Dumping => call.mark <= captured
  /\ pc = "events" =>
       /\ run.last_lsn <= call.high /\ call.high <= captured
       /\ Dumping => call.mark <= call.high

\* The window ends at the page's high watermark or after it; the frame's dump
\* rows are current at its end and were at the low watermark.
FrameInv ==
  /\ pc # "returned" => DOMAIN frame.rows = {}
  /\ pc = "returned" =>
       /\ frame.from \in Nat \ {0} /\ frame.to \in 0..Len(log)
       /\ call.mark <= frame.to
       /\ \A k \in DOMAIN frame.rows :
            /\ call.low \in 0..Len(log)
            /\ frame.rows[k] = Image(base, log, k, frame.to)
            /\ frame.rows[k] = Image(base, log, k, call.low)

DumpInv ==
  TypeOK /\ PositionInv /\ OpeningInv /\ PageInv /\ WindowInv /\ FrameInv

\* A row with no event in a window that spans the page read was the same from
\* before the page read to the window's end.
LEMMA QuietRow ==
  ASSUME NEW k, NEW from \in Nat \ {0}, NEW to \in Nat, NEW low \in Nat,
         NEW p \in Nat, from <= low + 1, low <= p, p <= to,
         EventsOf(log, k, from, to) = {}
  PROVE  /\ Image(base, log, k, p) = Image(base, log, k, to)
         /\ Image(base, log, k, low) = Image(base, log, k, to)
<1>1. EventsOf(log, k, p + 1, to) = {} /\ EventsOf(log, k, low + 1, to) = {}
  BY DEF EventsOf
<1>2. Image(base, log, k, to) = Image(base, log, k, p)
  BY <1>1, ImageUnchanged
<1>3. low <= to
  OBVIOUS
<1>4. Image(base, log, k, to) = Image(base, log, k, low)
  BY <1>1, <1>3, ImageUnchanged
<1>. QED
  BY <1>2, <1>4

\* A batch whose window spans the page read.
LEMMA DumpOfBatch ==
  ASSUME DumpInv, pc \in {"max", "events"}, NEW to \in 0..Len(log), Batch(to),
         run.last_lsn <= to + 1, Dumping => call.mark <= to,
         UNCHANGED <<sourceVars, state, call>>
  PROVE  FrameInv' /\ PositionInv'
<1> DEFINE from == run.last_lsn
           rows == Surviving(call.page, from, to)
<1>1. /\ run \in RunState /\ from \in Nat \ {0} /\ Len(log) \in Nat
      /\ call.low \in Nat /\ call.mark \in Nat
  <2>1. run \in RunState /\ run # None
    BY NoneAssumption DEF DumpInv, TypeOK
  <2>. QED
    BY <2>1 DEF DumpInv, TypeOK, SourceTypeOK, PositionInv, RunState
<1>2. /\ pc' = "returned" /\ run' = [run EXCEPT !.last_lsn = to + 1,
                 !.short = IF run.last_lsn <= to THEN to + 1 \notin Adjacent ELSE @]
      /\ frame' = [from |-> from, to |-> to, rows |-> rows]
      /\ UNCHANGED <<base, log, captured, floor, state, call>>
  BY DEF Batch, sourceVars
<1>3. ASSUME NEW k \in DOMAIN rows
      PROVE  /\ call.low \in 0..Len(log)
             /\ rows[k] = Image(base, log, k, to)
             /\ rows[k] = Image(base, log, k, call.low)
  <2>1. /\ k \in DOMAIN call.page /\ k \notin WindowKeys(from, to)
        /\ rows[k] = call.page[k]
    BY DEF Surviving
  <2>2. k \in Key
    BY <2>1, RowsElim DEF DumpInv, TypeOK
  <2>3. EventsOf(log, k, from, to) = {}
    BY <2>1, <2>2 DEF WindowKeys
  <2>4. Dumping /\ call.mark <= to
    BY <2>1 DEF DumpInv, PageInv
  <2>5. from <= call.low + 1 /\ call.low <= call.mark /\ call.mark <= Len(log)
    BY <2>4 DEF DumpInv, PageInv, ScannedUntil
  <2>6. PICK p \in call.low..call.mark : call.page[k] = Image(base, log, k, p)
    BY <2>1, <2>4 DEF DumpInv, PageInv, ScannedUntil
  <2>7. p \in Nat /\ call.low <= p /\ p <= to /\ to \in Nat
    BY <1>1, <2>4, <2>6
  <2>8. /\ Image(base, log, k, p) = Image(base, log, k, to)
        /\ Image(base, log, k, call.low) = Image(base, log, k, to)
    <3>. HIDE DEF from
    <3>. QED
      BY <1>1, <2>3, <2>5, <2>7, QuietRow
  <2>. QED
    BY <1>1, <2>1, <2>5, <2>6, <2>8
<1>. HIDE DEF from, rows
<1>4. FrameInv'
  <2>1. call.mark <= to
    BY <1>1 DEF DumpInv, PageInv
  <2>. QED
    BY <1>1, <1>2, <1>3, <2>1 DEF FrameInv
<1>5. PositionInv'
  BY <1>1, <1>2 DEF DumpInv, PositionInv, RunState
<1>. QED
  BY <1>4, <1>5

\* What the log was when a row was read, it still is after a commit.
LEMMA DumpOfSource ==
  ASSUME DumpInv, SourceNext, UNCHANGED callVars
  PROVE  DumpInv'
<1>1. UNCHANGED <<state, pc, run, call, frame>>
  BY DEF callVars
<1>2. /\ Len(log) \in Nat /\ Len(log') \in Nat /\ Len(log) <= Len(log')
      /\ captured \in Nat /\ captured' \in Nat /\ captured <= captured'
  BY PastIsFixed DEF DumpInv, TypeOK, SourceTypeOK
<1>3. \A k, p : p \in 0..Len(log) => Image(base', log', k, p) = Image(base, log, k, p)
  BY PastIsFixed DEF DumpInv, TypeOK
<1>4. TypeOK'
  BY TypeStep DEF DumpInv, Next
<1>5. call \in Locals /\ (pc \notin {"rest", "floor"} => run \in RunState)
  BY DEF DumpInv, TypeOK, Locals
<1>6. PositionInv' /\ OpeningInv'
  BY <1>1, <1>2, NoneAssumption
     DEF DumpInv, TypeOK, RunState, PositionInv, OpeningInv, Dumping
<1>7. PageInv'
  <2>. SUFFICES ASSUME pc \in {"scan", "high", "await", "max", "events"}, Dumping
                PROVE  /\ call.low <= ScannedUntil' /\ ScannedUntil' <= Len(log')
                       /\ run.last_lsn <= call.low + 1
                       /\ \A k \in DOMAIN call.page :
                            \E p \in call.low..ScannedUntil' :
                              call.page[k] = Image(base', log', k, p)
    BY <1>1 DEF DumpInv, PageInv, Dumping
  <2>1. /\ call.low <= ScannedUntil /\ ScannedUntil <= Len(log)
        /\ run.last_lsn <= call.low + 1
        /\ \A k \in DOMAIN call.page :
             \E p \in call.low..ScannedUntil : call.page[k] = Image(base, log, k, p)
    BY DEF DumpInv, PageInv
  <2>2. /\ ScannedUntil \in Nat /\ ScannedUntil' \in Nat /\ call.low \in Nat
        /\ ScannedUntil <= ScannedUntil' /\ ScannedUntil' <= Len(log')
    BY <1>1, <1>2, <1>5, <2>1 DEF ScannedUntil, Locals
  <2>3. ASSUME NEW k \in DOMAIN call.page
        PROVE  \E p \in call.low..ScannedUntil' : call.page[k] = Image(base', log', k, p)
    <3>1. PICK p \in call.low..ScannedUntil : call.page[k] = Image(base, log, k, p)
      BY <2>1
    <3>2. p \in 0..Len(log) /\ p \in call.low..ScannedUntil'
      BY <1>2, <2>1, <2>2
    <3>. QED
      BY <1>3, <3>1, <3>2
  <2>. QED
    BY <1>2, <2>1, <2>2, <2>3
<1>8. WindowInv'
  BY <1>1, <1>2, <1>5 DEF DumpInv, WindowInv, Dumping, Locals
<1>9. FrameInv'
  <2>1. frame.to \in Nat /\ call.low \in Nat
    BY <1>5 DEF DumpInv, TypeOK, Locals
  <2>. QED
    BY <1>1, <1>2, <1>3, <2>1 DEF DumpInv, FrameInv
<1>. QED
  BY <1>4, <1>6, <1>7, <1>8, <1>9 DEF DumpInv

\* Before the first call there is no dump to be wrong about.
LEMMA DumpInit == Init => DumpInv
<1>. SUFFICES ASSUME Init PROVE DumpInv
  OBVIOUS
<1>1. TypeOK
  BY TypeInit
<1>. QED
  BY <1>1 DEF Init, LocalsInit, DumpInv, PositionInv, OpeningInv, PageInv,
     WindowInv, FrameInv, NoCall, NoFrame, NoRows

\* A call that raises, or is over, leaves nothing behind.
LEMMA DumpOfRest ==
  ASSUME DumpInv, TypeOK', pc' = "rest", run' = None, call' = NoCall,
         UNCHANGED sourceVars, state' \in {state, run, None},
         frame' = NoFrame \/ (frame' = frame /\ pc # "returned")
  PROVE  DumpInv'
<1>1. PositionInv'
  BY DEF DumpInv, PositionInv, sourceVars
<1>2. FrameInv'
  BY DEF DumpInv, FrameInv, NoFrame, NoRows
<1>. QED
  BY <1>1, <1>2 DEF DumpInv, OpeningInv, PageInv, WindowInv

\* No step of the source, of a call or of its caller makes a dump row outlive
\* the image the log has of it.
LEMMA DumpStep == DumpInv /\ [Next]_vars => DumpInv'
<1>. SUFFICES ASSUME DumpInv, [Next]_vars PROVE DumpInv'
  OBVIOUS
<1>. USE DEF sourceVars
<1>1. TypeOK'
  BY TypeStep DEF DumpInv
<1>2. /\ call \in Locals /\ Len(log) \in Nat
      /\ captured \in 1..Len(log) /\ floor \in 1..(Len(log) + 1)
      /\ state \in RunState \cup {None} /\ None \notin RunState
      /\ (pc \notin {"rest", "floor"} => run \in RunState /\ run # None)
  BY NoneAssumption DEF DumpInv, TypeOK, SourceTypeOK, Locals
<1>3. CASE SourceNext /\ UNCHANGED callVars
  BY <1>3, DumpOfSource
<1>4. CASE \E n \in ChunkSizes : Begin(n)
  BY <1>1, <1>4 DEF Begin, DumpInv, PositionInv, OpeningInv, PageInv, WindowInv,
     FrameInv, NoCall, NoRows, Dumping
<1>5. CASE SeedFloor
  <2>1. PositionInv'
    BY <1>2, <1>5 DEF SeedFloor, DumpInv, PositionInv
  <2>. QED
    BY <1>1, <1>5, <2>1 DEF SeedFloor, DumpInv, OpeningInv, PageInv, WindowInv,
       FrameInv, Dumping
<1>6. CASE SeedOpening
  <2>1. PositionInv'
    BY <1>2, <1>6 DEF SeedOpening, DumpInv, PositionInv, RunState
  <2>. QED
    BY <1>1, <1>6, <2>1 DEF SeedOpening, DumpInv, OpeningInv, PageInv, WindowInv,
       FrameInv, Dumping
<1>7. CASE CheckRetention
  BY <1>1, <1>2, <1>7 DEF CheckRetention, DumpInv, PositionInv, OpeningInv,
     PageInv, WindowInv, FrameInv, Dumping
<1>8. CASE RetentionExpired
  BY <1>1, <1>8, DumpOfRest DEF RetentionExpired
<1>9. CASE LowWatermark
  <2>1. PageInv'
    BY <1>2, <1>9 DEF LowWatermark, DumpInv, PositionInv, OpeningInv, PageInv,
       ScannedUntil, Dumping, Locals
  <2>. QED
    BY <1>1, <1>9, <2>1 DEF LowWatermark, DumpInv, PositionInv, OpeningInv,
       WindowInv, FrameInv
<1>10. ASSUME NEW k \in Key, ScanRow(k)
       PROVE  DumpInv'
  <2>1. /\ pc = "scan" /\ call.page \in [DOMAIN call.page -> 0..MaxLog]
        /\ UNCHANGED <<base, log, captured, floor, state, pc, run, frame>>
        /\ call'.page = [j \in DOMAIN call.page \cup {k} |->
                           IF j = k THEN Row(k) ELSE call.page[j]]
        /\ call'.low = call.low /\ call'.mark = call.mark
    BY <1>2, <1>10, RowsElim DEF ScanRow, Locals
  <2>2. /\ call.low \in 0..Len(log) /\ run.last_lsn <= call.low + 1
        /\ \A j \in DOMAIN call.page :
             \E p \in call.low..Len(log) : call.page[j] = Image(base, log, j, p)
        /\ Dumping
    BY <1>2, <2>1 DEF DumpInv, PageInv, ScannedUntil, Locals
  <2>3. ASSUME NEW j \in DOMAIN call'.page
        PROVE  \E p \in call.low..Len(log) : call'.page[j] = Image(base, log, j, p)
    <3>1. CASE j = k
      <4>1. Len(log) \in call.low..Len(log)
        BY <1>2, <2>2
      <4>. QED
        BY <2>1, <3>1, <4>1 DEF Row
    <3>2. CASE j # k
      BY <2>1, <2>2, <3>2
    <3>. QED
      BY <3>1, <3>2
  <2>4. PageInv'
    <3>1. ScannedUntil' = Len(log') /\ Len(log') = Len(log) /\ Dumping'
      BY <2>1, <2>2 DEF ScannedUntil, Dumping
    <3>2. /\ call'.low <= Len(log) /\ Len(log) <= Len(log)
          /\ run'.last_lsn <= call'.low + 1
      BY <1>2, <2>1, <2>2
    <3>3. \A j \in DOMAIN call'.page :
            \E p \in call'.low..Len(log) : call'.page[j] = Image(base', log', j, p)
      BY <2>1, <2>3
    <3>. QED
      BY <3>1, <3>2, <3>3 DEF PageInv
  <2>. QED
    BY <1>1, <2>1, <2>4 DEF DumpInv, PositionInv, OpeningInv, WindowInv, FrameInv
<1>11. CASE ScanEnd
  <2>1. run' = Advanced /\ run'.last_lsn = run.last_lsn
    BY <1>2, <1>11 DEF ScanEnd, Advanced, RunState
  <2>2. PositionInv'
    BY <1>2, <1>11, <2>1 DEF ScanEnd, DumpInv, PositionInv
  <2>3. PageInv'
    BY <1>11, <2>1 DEF ScanEnd, DumpInv, PageInv, ScannedUntil, Dumping
  <2>. QED
    BY <1>1, <1>11, <2>2, <2>3 DEF ScanEnd, DumpInv, OpeningInv, WindowInv, FrameInv
<1>12. CASE HighWatermark
  <2>1. PageInv'
    BY <1>2, <1>12 DEF HighWatermark, DumpInv, PageInv, ScannedUntil, Dumping, Locals
  <2>. QED
    BY <1>1, <1>12, <2>1 DEF HighWatermark, DumpInv, PositionInv, OpeningInv,
       WindowInv, FrameInv
<1>13. CASE AwaitWatermark
  BY <1>1, <1>13 DEF AwaitWatermark, DumpInv, PositionInv, OpeningInv, PageInv,
     WindowInv, FrameInv, ScannedUntil, Dumping
<1>14. CASE ReadMax
  <2>1. PageInv'
    BY <1>2, <1>14 DEF ReadMax, DumpInv, PageInv, ScannedUntil, Dumping, Locals
  <2>2. WindowInv'
    BY <1>2, <1>14 DEF ReadMax, DumpInv, WindowInv, Dumping, Locals
  <2>. QED
    BY <1>1, <1>14, <2>1, <2>2 DEF ReadMax, DumpInv, PositionInv, OpeningInv, FrameInv
<1>15. CASE NoWindow
  <2> DEFINE to == run.last_lsn - 1
  <2>1. /\ Batch(to) /\ pc = "max" /\ captured < run.last_lsn
        /\ UNCHANGED <<sourceVars, state, call>>
    BY <1>2, <1>15 DEF NoWindow, RunState
  <2>2. to \in 0..Len(log) /\ run.last_lsn <= to + 1
    BY <1>2, <2>1 DEF DumpInv, PositionInv, RunState
  <2>3. Dumping => call.mark <= to
    <3>1. Dumping => call.mark <= captured
      BY <2>1 DEF DumpInv, WindowInv
    <3>2. call.mark \in Nat /\ captured \in Nat /\ run.last_lsn \in Nat
      BY <1>2, <2>1 DEF Locals, RunState
    <3>. QED
      BY <2>1, <3>1, <3>2
  <2>. HIDE DEF to
  <2>4. FrameInv' /\ PositionInv'
    BY <2>1, <2>2, <2>3, DumpOfBatch
  <2>. QED
    BY <1>1, <2>1, <2>4 DEF Batch, DumpInv, OpeningInv, PageInv, WindowInv
<1>16. CASE ReadWindow
  <2>1. /\ Batch(call.high) /\ pc = "events"
        /\ UNCHANGED <<sourceVars, state, call>>
    BY <1>16 DEF ReadWindow
  <2>2. call.high \in 0..Len(log) /\ run.last_lsn <= call.high + 1
    BY <1>2, <2>1 DEF DumpInv, WindowInv, RunState, Locals
  <2>3. Dumping => call.mark <= call.high
    BY <2>1 DEF DumpInv, WindowInv
  <2>4. FrameInv' /\ PositionInv'
    BY <2>1, <2>2, <2>3, DumpOfBatch
  <2>. QED
    BY <1>1, <2>1, <2>4 DEF Batch, DumpInv, OpeningInv, PageInv, WindowInv
<1>17. CASE ScanRefused \/ WindowRefused \/ CallFails
  BY <1>1, <1>17, DumpOfRest DEF ScanRefused, WindowRefused, CallFails, Raise
<1>18. CASE Return
  <2>1. /\ pc' = "rest" /\ run' = None /\ call' = NoCall /\ frame' = NoFrame
        /\ UNCHANGED sourceVars /\ state' \in {state, run, None}
    BY <1>18 DEF Return
  <2>. QED
    BY <1>1, <2>1, DumpOfRest
<1>19. CASE UNCHANGED vars
  BY <1>1, <1>19 DEF vars, callVars, DumpInv, PositionInv, OpeningInv, PageInv,
     WindowInv, FrameInv, ScannedUntil, Dumping
<1>. QED
  BY <1>3, <1>4, <1>5, <1>6, <1>7, <1>8, <1>9, <1>10, <1>11, <1>12, <1>13, <1>14,
     <1>15, <1>16, <1>17, <1>18, <1>19 DEF Next, CallStep, Proceeds, Refused

\* No dump row that outlives the merge is older than the end of its window.
THEOREM NoStaleRowIsEmitted == Spec => []NoStaleDumpRow
<1>1. Spec => []DumpInv
  BY DumpInit, DumpStep, PTL DEF Spec
<1>2. DumpInv => NoStaleDumpRow
  BY DEF DumpInv, FrameInv, NoStaleDumpRow
<1>. QED
  BY <1>1, <1>2, PTL

\* Nor was it different at the low watermark it is dated with.
THEOREM RowsAreDated == Spec => []DumpRowsDated
<1>1. Spec => []DumpInv
  BY DumpInit, DumpStep, PTL DEF Spec
<1>2. DumpInv => DumpRowsDated
  BY DEF DumpInv, FrameInv, DumpRowsDated
<1>. QED
  BY <1>1, <1>2, PTL
-----------------------------------------------------------------------------
(* The rows of the walked key range that are not in the page.              *)

\* Lead is the whole primary key.
SingleColumnKey == \A j, k \in Key : Lead[j] = Lead[k] => j = k

\* Row k lies in the part of the table that the call has walked so far.
Visited(k) ==
  IF pc = "scan" THEN Start <= Lead[k] /\ k <= call.cursor
  ELSE Covered(run, k) /\ ~Covered(state, k) /\ ~Tied(k)

\* A row that was visited and is not in the page did not exist at some moment
\* of the page read.
WalkInv ==
  /\ pc \in {"opening", "low", "scan"} => run.chunk_key = Start /\ ~run.dump_done
  /\ pc \in {"scan", "high", "await", "max", "events"} /\ Dumping =>
       \A k \in Key \ DOMAIN call.page :
         Visited(k) =>
           \E p \in call.low..ScannedUntil : Image(base, log, k, p) = Absent
  /\ PageCompleteUpToTies

\* Before the first call no row has been walked past.
LEMMA WalkInit == Init => WalkInv
BY DEF Init, LocalsInit, WalkInv, PageCompleteUpToTies

\* What the source does behind the scan leaves a row walked past accounted for:
\* it was absent when the scan went by, or it is on the page.
LEMMA WalkOfSource ==
  ASSUME DumpInv, WalkInv, SourceNext, UNCHANGED callVars
  PROVE  WalkInv'
<1>1. UNCHANGED <<state, pc, run, call, frame>>
  BY DEF callVars
<1>2. /\ Len(log) \in Nat /\ Len(log') \in Nat /\ Len(log) <= Len(log')
  BY PastIsFixed DEF DumpInv, TypeOK, SourceTypeOK
<1>3. /\ \A k, p : p \in 0..Len(log) => Image(base', log', k, p) = Image(base, log, k, p)
      /\ \A k, lo, hi : lo \in Nat \ {0} /\ hi \in 0..Len(log) =>
           EventsOf(log', k, lo, hi) = EventsOf(log, k, lo, hi)
  BY PastIsFixed DEF DumpInv, TypeOK
<1>4. call \in Locals
  BY DEF DumpInv, TypeOK, Locals
<1>5. ASSUME pc \in {"scan", "high", "await", "max", "events"}, Dumping,
             NEW k \in Key \ DOMAIN call.page, Visited(k)
      PROVE  \E p \in call.low..ScannedUntil' : Image(base', log', k, p) = Absent
  <2>1. PICK p \in call.low..ScannedUntil : Image(base, log, k, p) = Absent
    BY <1>5 DEF WalkInv
  <2>2. ScannedUntil \in Nat /\ ScannedUntil' \in Nat /\ call.low \in Nat
    BY <1>1, <1>2, <1>4 DEF ScannedUntil, Locals
  <2>3. ScannedUntil <= ScannedUntil' /\ ScannedUntil <= Len(log)
    BY <1>1, <1>2, <1>4, <1>5 DEF ScannedUntil, DumpInv, PageInv, Locals
  <2>4. p \in 0..Len(log) /\ p \in call.low..ScannedUntil'
    BY <1>2, <2>2, <2>3
  <2>. QED
    BY <1>3, <2>1, <2>4
<1>6. PageCompleteUpToTies'
  <2>. SUFFICES ASSUME pc = "returned", NEW k \in Key,
                       Covered(run, k), ~Covered(state, k), ~Tied(k)
                PROVE  Accounted(k)'
    BY <1>1 DEF PageCompleteUpToTies, Covered, Tied
  <2>1. Accounted(k)
    BY DEF WalkInv, PageCompleteUpToTies
  <2>2. frame.from \in Nat \ {0} /\ frame.to \in 0..Len(log)
    BY DEF DumpInv, FrameInv
  <2>. QED
    BY <1>1, <1>3, <2>1, <2>2 DEF Accounted, WindowKeys
<1>. QED
  BY <1>1, <1>5, <1>6 DEF WalkInv, Visited, Tied, Start, Covered, Dumping

\* The batch of a window that spans the page read.
LEMMA WalkOfBatch ==
  ASSUME DumpInv, WalkInv, pc \in {"max", "events"}, NEW to \in 0..Len(log),
         Batch(to), run.last_lsn <= to + 1, Dumping => call.mark <= to,
         UNCHANGED <<sourceVars, state, call>>
  PROVE  WalkInv'
<1> DEFINE from == run.last_lsn
<1>1. /\ run \in RunState /\ from \in Nat \ {0} /\ Len(log) \in Nat
      /\ call.low \in Nat /\ call.mark \in Nat
  <2>1. run \in RunState /\ run # None
    BY NoneAssumption DEF DumpInv, TypeOK
  <2>. QED
    BY <2>1 DEF DumpInv, TypeOK, SourceTypeOK, PositionInv, RunState
<1>2. /\ pc' = "returned" /\ run' = [run EXCEPT !.last_lsn = to + 1,
                 !.short = IF run.last_lsn <= to THEN to + 1 \notin Adjacent ELSE @]
      /\ frame' = [from |-> from, to |-> to, rows |-> Surviving(call.page, from, to)]
      /\ UNCHANGED <<base, log, captured, floor, state, call>>
  BY DEF Batch, sourceVars
<1>3. ASSUME NEW k \in Key, Covered(run, k), ~Covered(state, k), ~Tied(k),
             k \notin DOMAIN Surviving(call.page, from, to),
             k \notin WindowKeys(from, to)
      PROVE  Image(base, log, k, to) = Absent
  <2>1. Dumping
    BY <1>3 DEF Covered, Dumping
  <2>2. k \notin DOMAIN call.page
    BY <1>3 DEF Surviving
  <2>3. EventsOf(log, k, from, to) = {}
    BY <1>3 DEF WindowKeys
  <2>4. PICK p \in call.low..call.mark : Image(base, log, k, p) = Absent
    BY <1>3, <2>1, <2>2 DEF WalkInv, Visited, ScannedUntil
  <2>5. /\ from <= call.low + 1 /\ call.mark <= to
        /\ p \in Nat /\ call.low <= p /\ p <= to /\ to \in Nat
    BY <1>1, <2>1, <2>4 DEF DumpInv, PageInv
  <2>. HIDE DEF from
  <2>. QED
    BY <1>1, <2>3, <2>4, <2>5, QuietRow
<1>4. /\ run' # None /\ run # None /\ state' = state
      /\ run'.chunk_key = run.chunk_key /\ run'.dump_done = run.dump_done
  <2>1. run' \in RunState
    BY <1>1, TypeOfBatch DEF DumpInv
  <2>. QED
    BY <1>1, <1>2, <2>1, NoneAssumption DEF RunState
<1>5. /\ frame'.from = from /\ frame'.to = to
      /\ frame'.rows = Surviving(call.page, from, to)
      /\ WindowKeys(frame.from, frame.to)' = WindowKeys(from, to)
  BY <1>2 DEF WindowKeys
<1>6. PageCompleteUpToTies'
  <2>. SUFFICES ASSUME NEW k \in Key, (Covered(run, k) /\ ~Covered(state, k) /\ ~Tied(k))'
                PROVE  Accounted(k)'
    BY DEF PageCompleteUpToTies
  <2>1. Covered(run, k) /\ ~Covered(state, k) /\ ~Tied(k)
    BY <1>2, <1>4 DEF Covered, Tied
  <2>. QED
    BY <1>2, <1>3, <1>5, <2>1 DEF Accounted
<1>. QED
  BY <1>2, <1>6 DEF WalkInv

\* No step of a call leaves a row of its key range unaccounted for.
LEMMA WalkStep == DumpInv /\ WalkInv /\ [Next]_vars => WalkInv'
<1>. SUFFICES ASSUME DumpInv, WalkInv, [Next]_vars PROVE WalkInv'
  OBVIOUS
<1>. USE DEF sourceVars
<1>1. /\ call \in Locals /\ Len(log) \in Nat
      /\ captured \in 1..Len(log) /\ floor \in 1..(Len(log) + 1)
      /\ state \in RunState \cup {None} /\ None \notin RunState
      /\ (pc \notin {"rest", "floor"} => run \in RunState /\ run # None)
  BY NoneAssumption DEF DumpInv, TypeOK, SourceTypeOK, Locals
<1>2. \A k \in Key : k \in Nat /\ Lead[k] \in Nat
  BY KeyAssumption, LeadAssumption
<1>3. CASE SourceNext /\ UNCHANGED callVars
  BY <1>3, WalkOfSource
<1>4. CASE \E n \in ChunkSizes : Begin(n)
  BY <1>4 DEF Begin, WalkInv, PageCompleteUpToTies
<1>5. CASE SeedFloor
  <2>1. state = None
    BY <1>5 DEF SeedFloor, DumpInv, OpeningInv
  <2>. QED
    BY <1>5, <2>1 DEF SeedFloor, WalkInv, PageCompleteUpToTies, Start
<1>6. CASE SeedOpening
  BY <1>1, <1>6 DEF SeedOpening, WalkInv, PageCompleteUpToTies, Start, RunState
<1>7. CASE CheckRetention
  <2>1. run = state /\ state # None
    BY <1>1, <1>7 DEF CheckRetention, DumpInv, OpeningInv
  <2>2. /\ run' = run /\ state' = state /\ call' = call /\ frame' = frame
        /\ pc' \in {"low", "max"} /\ (pc' = "low" => ~run.dump_done)
        /\ (Dumping' => pc' = "low")
    BY <1>7, <2>1 DEF CheckRetention, Dumping
  <2>3. Start' = run'.chunk_key
    BY <2>1, <2>2 DEF Start
  <2>. QED
    BY <2>2, <2>3 DEF WalkInv, PageCompleteUpToTies
<1>8. CASE RetentionExpired
  BY <1>8 DEF RetentionExpired, WalkInv, PageCompleteUpToTies
<1>9. CASE LowWatermark
  <2>1. \A k \in Key : ~Visited(k)'
    BY <1>1, <1>2, <1>9 DEF LowWatermark, Visited, DumpInv, OpeningInv, Locals
  <2>. QED
    BY <1>9, <2>1 DEF LowWatermark, WalkInv, PageCompleteUpToTies, Start
<1>10. ASSUME NEW k \in Key, ScanRow(k)
       PROVE  WalkInv'
  <2>1. /\ pc = "scan" /\ UNCHANGED <<base, log, captured, floor, state, pc, run, frame>>
        /\ call'.cursor = k /\ call'.low = call.low
        /\ DOMAIN call'.page = DOMAIN call.page \cup {k}
        /\ \A j \in Ahead : k <= j
    BY <1>1, <1>10 DEF ScanRow, Locals
  <2>2. /\ run.chunk_key = Start /\ Dumping
        /\ call.low \in 0..Len(log) /\ call.cursor \in Key \cup {-1}
    BY <1>1, <2>1 DEF WalkInv, DumpInv, PageInv, ScannedUntil, Locals
  <2>3. ASSUME NEW j \in Key \ DOMAIN call'.page, Start <= Lead[j], j <= k
        PROVE  \E p \in call.low..Len(log) : Image(base, log, j, p) = Absent
    <3>1. j \notin DOMAIN call.page /\ j # k
      BY <2>1, <2>3
    <3>2. CASE j <= call.cursor
      BY <2>1, <2>2, <2>3, <3>1, <3>2 DEF WalkInv, Visited, ScannedUntil
    <3>3. CASE ~(j <= call.cursor)
      <4>1. j > call.cursor /\ ~(k <= j)
        BY <1>2, <2>2, <2>3, <3>1, <3>3
      <4>2. j \notin Ahead
        BY <2>1, <4>1
      <4>3. Row(j) = Absent
        BY <2>2, <2>3, <4>1, <4>2 DEF Ahead, Live
      <4>4. Len(log) \in call.low..Len(log)
        BY <1>1, <2>2
      <4>. QED
        BY <4>3, <4>4 DEF Row
    <3>. QED
      BY <3>2, <3>3
  <2>4. \A j \in Key \ DOMAIN call'.page :
          Visited(j)' =>
            \E p \in call'.low..ScannedUntil' : Image(base', log', j, p) = Absent
    <3>1. ScannedUntil' = Len(log) /\ Start' = Start
      BY <2>1 DEF ScannedUntil, Start
    <3>2. \A j \in Key : Visited(j)' => Start <= Lead[j] /\ j <= k
      BY <2>1, <3>1 DEF Visited
    <3>. QED
      BY <2>1, <2>3, <3>1, <3>2
  <2>5. PageCompleteUpToTies'
    BY <2>1 DEF PageCompleteUpToTies
  <2>. QED
    BY <2>1, <2>2, <2>4, <2>5 DEF WalkInv, Start
<1>11. CASE ScanEnd
  <2>1. /\ pc = "scan" /\ pc' = "high" /\ run' = Advanced
        /\ PageFull \/ Ahead = {}
        /\ UNCHANGED <<base, log, captured, floor, state, call, frame>>
    BY <1>11 DEF ScanEnd
  <2>2. /\ run.chunk_key = Start /\ ~run.dump_done /\ Dumping
        /\ call.low \in 0..Len(log) /\ call.cursor \in Key \cup {-1}
        /\ run \in RunState /\ call.size \in Nat
    BY <1>1, <2>1 DEF WalkInv, DumpInv, PageInv, ScannedUntil, Locals
  <2>3. /\ run'.chunk_key = IF call.cursor = -1 THEN Start ELSE Lead[call.cursor] + 1
        /\ run'.dump_done <=> Cardinality(DOMAIN call.page) < call.size
    BY <2>1, <2>2 DEF Advanced, RunState
  <2>4. ASSUME NEW k \in Key \ DOMAIN call.page,
               Covered(run, k)', ~Covered(state, k), ~Tied(k)'
        PROVE  \E p \in call.low..Len(log) : Image(base, log, k, p) = Absent
    <3>1. Start <= Lead[k]
      BY <1>1, <1>2, <2>4 DEF Covered, Start, RunState
    <3>2. CASE k <= call.cursor
      BY <2>1, <2>2, <3>1, <3>2 DEF WalkInv, Visited, ScannedUntil
    <3>3. CASE ~(k <= call.cursor)
      <4>1. k > call.cursor
        BY <1>2, <2>2, <3>3
      <4>2. run'.dump_done \/ ~(Lead[k] < run'.chunk_key)
        <5>1. CASE call.cursor = -1
          BY <1>1, <1>2, <2>3, <3>1, <5>1 DEF Start, RunState
        <5>2. CASE call.cursor # -1
          <6>1. call.cursor \in Key /\ Lead[call.cursor] \in Nat
            BY <1>2, <2>2, <5>2
          <6>2. Lead[call.cursor] <= Lead[k]
            BY <1>2, <4>1, <6>1, LeadAssumption
          <6>3. run'.dump_done \/ Lead[call.cursor] # Lead[k]
            BY <2>1, <2>3, <2>4, <4>1, <5>2, <6>1 DEF Tied
          <6>. QED
            BY <1>2, <2>3, <5>2, <6>1, <6>2, <6>3
        <5>. QED
          BY <5>1, <5>2
      <4>3. Cardinality(DOMAIN call.page) < call.size
        BY <2>3, <2>4, <4>2 DEF Covered
      <4>4. Ahead = {}
        BY <2>1, <2>2, <4>3 DEF PageFull
      <4>5. Row(k) = Absent
        BY <2>2, <3>1, <4>1, <4>4 DEF Ahead, Live
      <4>6. Len(log) \in call.low..Len(log)
        BY <1>1, <2>2
      <4>. QED
        BY <4>5, <4>6 DEF Row
    <3>. QED
      BY <3>2, <3>3
  <2>5. \A k \in Key \ DOMAIN call'.page :
          Visited(k)' =>
            \E p \in call'.low..ScannedUntil' : Image(base', log', k, p) = Absent
    <3>1. ScannedUntil' = Len(log) /\ \A k : Covered(state, k)' <=> Covered(state, k)
      BY <2>1 DEF ScannedUntil, Covered
    <3>2. \A k : Visited(k)' => Covered(run, k)' /\ ~Covered(state, k) /\ ~Tied(k)'
      BY <2>1, <3>1 DEF Visited
    <3>. QED
      BY <2>1, <2>4, <3>1, <3>2
  <2>6. PageCompleteUpToTies'
    BY <2>1 DEF PageCompleteUpToTies
  <2>. QED
    BY <2>1, <2>5, <2>6 DEF WalkInv
<1>12. CASE HighWatermark \/ AwaitWatermark \/ ReadMax
  <2>1. /\ pc \in {"high", "await", "max"} /\ pc' \in {"await", "max", "events"}
        /\ UNCHANGED <<base, log, state, run, frame>>
        /\ call'.page = call.page /\ call'.low = call.low /\ call'.cursor = call.cursor
        /\ call'.mark = IF pc = "high" THEN Len(log) ELSE call.mark
    BY <1>1, <1>12 DEF HighWatermark, AwaitWatermark, ReadMax, Locals
  <2>2. ScannedUntil' = ScannedUntil /\ (Dumping' <=> Dumping)
    BY <2>1 DEF ScannedUntil, Dumping
  <2>3. \A k : Visited(k)' <=> Visited(k)
    BY <2>1 DEF Visited, Covered, Tied
  <2>. QED
    BY <2>1, <2>2, <2>3 DEF WalkInv, PageCompleteUpToTies
<1>13. CASE NoWindow
  <2> DEFINE to == run.last_lsn - 1
  <2>1. /\ Batch(to) /\ pc = "max" /\ captured < run.last_lsn
        /\ UNCHANGED <<sourceVars, state, call>>
    BY <1>1, <1>13 DEF NoWindow, RunState
  <2>2. to \in 0..Len(log) /\ run.last_lsn <= to + 1
    BY <1>1, <2>1 DEF DumpInv, PositionInv, RunState
  <2>3. Dumping => call.mark <= to
    <3>1. Dumping => call.mark <= captured
      BY <2>1 DEF DumpInv, WindowInv
    <3>2. call.mark \in Nat /\ captured \in Nat /\ run.last_lsn \in Nat
      BY <1>1, <2>1 DEF Locals, RunState
    <3>. QED
      BY <2>1, <3>1, <3>2
  <2>. HIDE DEF to
  <2>. QED
    BY <2>1, <2>2, <2>3, WalkOfBatch
<1>14. CASE ReadWindow
  <2>1. /\ Batch(call.high) /\ pc = "events"
        /\ UNCHANGED <<sourceVars, state, call>>
    BY <1>14 DEF ReadWindow
  <2>2. call.high \in 0..Len(log) /\ run.last_lsn <= call.high + 1
    BY <1>1, <2>1 DEF DumpInv, WindowInv, RunState, Locals
  <2>3. Dumping => call.mark <= call.high
    BY <2>1 DEF DumpInv, WindowInv
  <2>. QED
    BY <2>1, <2>2, <2>3, WalkOfBatch
<1>15. CASE ScanRefused \/ WindowRefused \/ CallFails \/ Return
  BY <1>15
     DEF ScanRefused, WindowRefused, CallFails, Raise, Return, WalkInv,
         PageCompleteUpToTies
<1>16. CASE UNCHANGED vars
  BY <1>16 DEF vars, callVars, WalkInv, PageCompleteUpToTies, Accounted, Visited, Tied,
     Start, Covered, Dumping, ScannedUntil, WindowKeys
<1>. QED
  BY <1>3, <1>4, <1>5, <1>6, <1>7, <1>8, <1>9, <1>10, <1>11, <1>12, <1>13, <1>14,
     <1>15, <1>16 DEF Next, CallStep, Proceeds, Refused

\* With any key, what a call walks past is in its batch, but for rows behind
\* another of their leading key where the page ended.
THEOREM PagesAreCompleteUpToTies == Spec => []PageCompleteUpToTies
<1>1. DumpInv /\ WalkInv /\ [Next]_vars => (DumpInv /\ WalkInv)'
  BY DumpStep, WalkStep
<1>2. Init => DumpInv /\ WalkInv
  BY DumpInit, WalkInit
<1>3. WalkInv => PageCompleteUpToTies
  BY DEF WalkInv
<1>. QED
  BY <1>1, <1>2, <1>3, PTL DEF Spec

\* No row of a key of one column shares its leading key with another.
LEMMA NoTies ==
  ASSUME SingleColumnKey
  PROVE  PageCompleteUpToTies => PageComplete
<1>1. ASSUME NEW k \in Key, Tied(k) PROVE FALSE
  <2>1. call.cursor \in Key /\ call.cursor < k /\ Lead[call.cursor] = Lead[k]
    BY <1>1 DEF Tied
  <2>2. call.cursor = k /\ k \in Nat
    BY <2>1, KeyAssumption DEF SingleColumnKey
  <2>. QED
    BY <2>1, <2>2
<1>. QED
  BY <1>1 DEF PageComplete, PageCompleteUpToTies

\* Paging by a key of one column loses no row: what a call walks past is in its
\* batch.
THEOREM PagesAreComplete ==
  ASSUME SingleColumnKey
  PROVE  Spec => []PageComplete
BY PagesAreCompleteUpToTies, NoTies, PTL
-----------------------------------------------------------------------------
(* Every batch takes its run forward.                                      *)

\* A call has a page of at least one row to fill; the cursor is on a row of the
\* range or nothing has been read; and the call's copy of the state is never
\* behind the caller's.
ProgressInv ==
  /\ pc # "rest" => call.size \in Nat \ {0}
  /\ pc = "scan" =>
       /\ call.cursor = -1 => DOMAIN call.page = {}
       /\ call.cursor # -1 => Start <= Lead[call.cursor]
  /\ pc \notin {"rest", "floor"} /\ state # None => state.last_lsn <= run.last_lsn
  /\ pc \in {"high", "await", "max", "events", "returned"} => DumpOnward

\* No step leaves the call with less than it had, and the end of a page with
\* more.
LEMMA ProgressStep == DumpInv /\ WalkInv /\ ProgressInv /\ [Next]_vars => ProgressInv'
<1>. SUFFICES ASSUME DumpInv, WalkInv, ProgressInv, [Next]_vars PROVE ProgressInv'
  OBVIOUS
<1>1. /\ call \in Locals /\ captured \in Nat
      /\ state \in RunState \cup {None} /\ None \notin RunState
      /\ (pc \notin {"rest", "floor"} => run \in RunState /\ run # None)
  BY NoneAssumption DEF DumpInv, TypeOK, SourceTypeOK, Locals
<1>2. CASE SourceNext /\ UNCHANGED callVars
  BY <1>2 DEF callVars, ProgressInv, Start, DumpOnward
<1>3. CASE \E n \in ChunkSizes : Begin(n)
  BY <1>1, <1>3, ChunkSizesAssumption DEF Begin, ProgressInv, NoCall, RunState
<1>4. CASE SeedFloor
  BY <1>4 DEF SeedFloor, ProgressInv, DumpInv, OpeningInv
<1>5. CASE SeedOpening
  BY <1>1, <1>5 DEF SeedOpening, ProgressInv, DumpInv, OpeningInv
<1>6. CASE CheckRetention
  BY <1>1, <1>6 DEF CheckRetention, ProgressInv, DumpInv, OpeningInv, DumpOnward
<1>7. CASE LowWatermark
  BY <1>1, <1>7 DEF LowWatermark, ProgressInv, DumpInv, OpeningInv, Locals
<1>8. ASSUME NEW k \in Key, ScanRow(k)
      PROVE  ProgressInv'
  <2>1. /\ pc = "scan" /\ UNCHANGED <<state, pc, run>>
        /\ call'.cursor = k /\ call'.size = call.size /\ k \in Ahead
    BY <1>1, <1>8 DEF ScanRow, Locals
  <2>2. run.chunk_key = Start /\ Start' = Start
    BY <2>1 DEF WalkInv, Start
  <2>3. k # -1 /\ Start <= Lead[k]
    BY <2>1, <2>2, KeyAssumption DEF Ahead
  <2>. QED
    BY <2>1, <2>2, <2>3 DEF ProgressInv
<1>9. CASE ScanEnd
  <2>1. /\ pc = "scan" /\ pc' = "high" /\ run' = Advanced /\ UNCHANGED <<state, call>>
        /\ run.chunk_key = Start /\ Dumping /\ run \in RunState
    BY <1>1, <1>9 DEF ScanEnd, WalkInv, DumpInv, PageInv
  <2>2. /\ run'.last_lsn = run.last_lsn
        /\ run'.dump_done <=> Cardinality(DOMAIN call.page) < call.size
        /\ run'.chunk_key = IF call.cursor = -1 THEN Start ELSE Lead[call.cursor] + 1
    BY <2>1 DEF Advanced, RunState
  <2>3. run'.dump_done \/ Start < run'.chunk_key
    <3>1. CASE call.cursor = -1
      BY <2>1, <2>2, <3>1, FS_EmptySet DEF ProgressInv
    <3>2. CASE call.cursor # -1
      <4>1. call.cursor \in Key /\ Lead[call.cursor] \in Nat /\ Start \in Nat
        BY <1>1, <2>1, <3>2, LeadAssumption DEF Locals, RunState
      <4>. QED
        BY <2>1, <2>2, <3>2, <4>1 DEF ProgressInv
    <3>. QED
      BY <3>1, <3>2
  <2>4. DumpOnward'
    BY <2>1, <2>3 DEF DumpOnward, Dumping, Start
  <2>. QED
    BY <2>1, <2>2, <2>4 DEF ProgressInv
<1>10. CASE HighWatermark \/ AwaitWatermark \/ ReadMax
  BY <1>1, <1>10
     DEF HighWatermark, AwaitWatermark, ReadMax, ProgressInv, DumpOnward, Start, Locals
<1>11. CASE NoWindow \/ ReadWindow
  <2>1. PICK to \in Int : /\ Batch(to) /\ run.last_lsn <= to + 1
                          /\ pc \in {"max", "events"} /\ UNCHANGED <<state, call>>
    <3>1. CASE NoWindow
      BY <1>1, <3>1 DEF NoWindow, RunState
    <3>2. CASE ReadWindow
      <4>1. call.high \in Nat /\ run.last_lsn \in Nat /\ run.last_lsn <= call.high
        BY <1>1, <3>2 DEF ReadWindow, DumpInv, WindowInv, RunState, Locals
      <4>. QED
        BY <3>2, <4>1 DEF ReadWindow
    <3>. QED
      BY <1>11, <3>1, <3>2
  <2>2. run \in RunState /\ run' = [run EXCEPT !.last_lsn = to + 1,
                 !.short = IF run.last_lsn <= to THEN to + 1 \notin Adjacent ELSE @] /\ pc' = "returned"
    BY <1>1, <2>1 DEF Batch
  <2>3. /\ run'.last_lsn = to + 1 /\ run'.chunk_key = run.chunk_key
        /\ run'.dump_done = run.dump_done
    BY <2>2 DEF RunState
  <2>4. DumpOnward'
    BY <2>1, <2>3 DEF ProgressInv, DumpOnward, Start
  <2>5. state # None => state.last_lsn <= to + 1
    BY <1>1, <2>1, <2>2 DEF ProgressInv, RunState
  <2>. QED
    BY <2>1, <2>2, <2>3, <2>4, <2>5 DEF ProgressInv
<1>12. CASE ScanRefused \/ WindowRefused \/ CallFails \/ RetentionExpired \/ Return
  BY <1>12
     DEF ScanRefused, WindowRefused, CallFails, RetentionExpired, Raise, Return,
         ProgressInv
<1>13. CASE UNCHANGED vars
  BY <1>13 DEF vars, callVars, ProgressInv, Start, DumpOnward
<1>. QED
  BY <1>2, <1>3, <1>4, <1>5, <1>6, <1>7, <1>8, <1>9, <1>10, <1>11, <1>12, <1>13
     DEF Next, CallStep, Proceeds, Refused

\* Each call that returns has walked further, or knows that the dump is over,
\* and has not gone back in the log.
THEOREM EveryBatchAdvances == Spec => []BatchAdvances
<1>1. Init => DumpInv /\ WalkInv /\ ProgressInv
  BY DumpInit, WalkInit DEF Init, LocalsInit, ProgressInv
<1>2. DumpInv /\ WalkInv /\ ProgressInv /\ [Next]_vars => (DumpInv /\ WalkInv /\ ProgressInv)'
  BY DumpStep, WalkStep, ProgressStep
<1>3. ProgressInv => BatchAdvances
  BY DEF ProgressInv, BatchAdvances
<1>. QED
  BY <1>1, <1>2, <1>3, PTL DEF Spec
=============================================================================
