--------------------------- MODULE PipelineProofs ---------------------------
(***************************************************************************)
(* The loop around dblog() keeps a true copy of the table, whatever is     *)
(* lost, retried, handed over or cleaned up, and so implements Replica.    *)
(***************************************************************************)
EXTENDS Pipeline, DblogProofs
-----------------------------------------------------------------------------
(* Where the loop's positions are.                                         *)

\* Between two batches the loop is as Dblog leaves it; a written batch has no
\* counterpart there.
CallInv ==
  /\ pc # "written" => DumpInv
  /\ pc = "written" =>
       /\ SourceTypeOK
       /\ run \in RunState /\ run.last_lsn \in 1..(Len(log) + 1)
       /\ state \in RunState \cup {None}
       /\ frame \in [from : Nat, to : Nat, rows : Rows]
       /\ call \in Locals

\* What the loop has saved is what it calls with, unless that has expired.
SavedInv ==
  /\ state \in {saved, None}
  /\ state = None /\ saved # None => ~Retained(saved)
  /\ saved # None => saved.last_lsn \in 1..(at + 1)

\* Every position is one that the capture job has reached, and a call stays at
\* the one it was given until its batch is done.
ReachedInv ==
  /\ at <= captured /\ floor <= captured + 1
  /\ pc = "rest" => run = None
  /\ run # None => run.last_lsn - 1 <= captured
  /\ run # None /\ state # None /\ pc \notin {"returned", "written"} =>
       run.last_lsn = state.last_lsn
  /\ pc = "events" => at <= call.high /\ call.high <= captured
  /\ pc = "returned" =>
       /\ at <= frame.to /\ frame.to <= captured
       /\ run.last_lsn = frame.to + 1
       /\ state # None => frame.from = state.last_lsn
  /\ pc = "written" => run.last_lsn = at + 1

LoopInv == PipelineTypeOK /\ CallInv /\ SavedInv /\ ReachedInv

\* What the source leaves alone and what grows.
LEMMA SourceGrows ==
  ASSUME SourceTypeOK, SourceNext, floor <= captured + 1
  PROVE  /\ SourceTypeOK' /\ floor <= floor' /\ floor' <= captured' + 1
         /\ captured <= captured' /\ Len(log) <= Len(log')
         /\ captured \in Nat /\ captured' \in Nat /\ Len(log) \in Nat /\ Len(log') \in Nat
         /\ floor \in Nat /\ floor' \in Nat
<1>1. /\ SourceTypeOK' /\ Len(log) <= Len(log') /\ captured <= captured'
  BY PastIsFixed
<1>2. /\ captured \in Nat /\ captured' \in Nat /\ Len(log) \in Nat /\ Len(log') \in Nat
      /\ floor \in Nat /\ floor' \in Nat
  BY <1>1 DEF SourceTypeOK
<1>3. floor <= floor' /\ floor' <= captured' + 1
  <2>1. CASE \E f \in 1..MaxLog : Cleanup(f)
    BY <1>2, <2>1 DEF Cleanup
  <2>2. ASSUME NEW t \in Txns, Commit(t) PROVE floor <= floor' /\ floor' <= captured' + 1
    BY <1>2, <2>2 DEF Commit
  <2>3. CASE Capture
    BY <1>2, <2>3 DEF Capture
  <2>. QED
    BY <2>1, <2>2, <2>3 DEF SourceNext
<1>. QED
  BY <1>1, <1>2, <1>3

\* A loop at rest has no call to be wrong about.
LEMMA DumpAtRest ==
  ASSUME TypeOK', PositionInv', pc' = "rest", DOMAIN frame'.rows = {}
  PROVE  DumpInv'
BY DEF DumpInv, OpeningInv, PageInv, WindowInv, FrameInv

\* A step of Dblog does not write.
LEMMA NotWritten ==
  ASSUME DumpInv, [Next]_vars
  PROVE  DumpInv' /\ pc' # "written" /\ pc # "written"
<1>1. DumpInv'
  BY DumpStep
<1>. QED
  BY <1>1 DEF DumpInv, TypeOK, PCs

\* A call in progress is not at a written batch.
LEMMA CallIsNotWritten ==
  ASSUME CallStep \/ \E n \in ChunkSizes : Begin(n)
  PROVE  pc # "written"
BY DEF CallStep, Proceeds, Refused, Begin, SeedFloor, SeedOpening, CheckRetention,
   RetentionExpired, LowWatermark, ScanRow, ScanEnd, ScanRefused, HighWatermark,
   AwaitWatermark, ReadMax, NoWindow, ReadWindow, WindowRefused

\* A batch that is ready is applied to what the target was before it: a row
\* of it is the table's at the end of the window, or had no event since.
LEMMA AppliedRow ==
  ASSUME LoopInv, pc = "returned", NEW k \in Key
  PROVE  /\ frame.from \in Nat \ {0} /\ frame.to \in 0..Len(log)
         /\ \/ Applied(k) = Image(base, log, k, frame.to)
            \/ /\ Applied(k) = target[k] /\ k \notin DOMAIN frame.rows
               /\ k \notin WindowKeys(frame.from, frame.to)
               /\ EventsOf(log, k, frame.from, frame.to) = {}
<1>1. /\ frame.from \in Nat \ {0} /\ frame.to \in 0..Len(log)
      /\ \A j \in DOMAIN frame.rows : frame.rows[j] = Image(base, log, j, frame.to)
  BY DEF LoopInv, CallInv, DumpInv, FrameInv
<1>. QED
  BY <1>1 DEF Applied, WindowKeys

\* A row with no event since the target's position is the same at the batch's.
LEMMA SinceTheTarget ==
  ASSUME LoopInv, pc = "returned", state # None, NEW k \in Key,
         EventsOf(log, k, frame.from, frame.to) = {}
  PROVE  Image(base, log, k, frame.to) = Image(base, log, k, at)
<1>1. frame.from <= at + 1 /\ at <= frame.to
  BY NoneAssumption DEF LoopInv, SavedInv, ReachedInv, PipelineTypeOK, RunState
<1>2. frame.from \in Nat \ {0} /\ frame.to \in Nat /\ at \in Nat
  BY AppliedRow DEF LoopInv, PipelineTypeOK, CallInv, DumpInv, TypeOK, SourceTypeOK
<1>3. EventsOf(log, k, at + 1, frame.to) = {}
  BY <1>1, <1>2 DEF EventsOf
<1>. QED
  BY <1>1, <1>2, <1>3, ImageUnchanged
-----------------------------------------------------------------------------
(* Every step keeps them there.                                            *)

\* What the invariant says of the types.
LEMMA LoopTypes ==
  ASSUME LoopInv
  PROVE  /\ SourceTypeOK /\ None \notin RunState
         /\ captured \in Nat /\ floor \in Nat /\ floor >= 1 /\ at \in Nat /\ Len(log) \in Nat
         /\ captured <= Len(log)
         /\ saved \in RunState \cup {None} /\ state \in RunState \cup {None}
         /\ call \in Locals /\ frame \in [from : Nat, to : Nat, rows : Rows]
         /\ run # None => run \in RunState
         /\ pc \notin {"rest", "floor"} => run \in RunState
         /\ \A s \in RunState : s.last_lsn \in Nat
<1>1. pc # "written" => TypeOK
  BY DEF LoopInv, CallInv, DumpInv
<1>2. /\ SourceTypeOK /\ state \in RunState \cup {None}
      /\ call \in Locals /\ frame \in [from : Nat, to : Nat, rows : Rows]
      /\ run # None => run \in RunState
      /\ pc \notin {"rest", "floor"} => run \in RunState
  BY <1>1 DEF LoopInv, CallInv, TypeOK, Locals
<1>. QED
  BY <1>2, NoneAssumption DEF LoopInv, PipelineTypeOK, SourceTypeOK, RunState

\* The first call has no position to be wrong about.
LEMMA LoopInit == PipelineInit => LoopInv
<1>. SUFFICES ASSUME PipelineInit PROVE LoopInv
  OBVIOUS
<1>1. Init /\ DumpInv
  BY DumpInit DEF PipelineInit
<1>2. /\ saved = None /\ at = 0 /\ faults = 0 /\ target = Empty /\ running = FALSE
      /\ pc = "rest" /\ run = None /\ state = None /\ captured = 1 /\ floor \in {1, 2}
      /\ Len(log) = 1
  BY <1>1 DEF PipelineInit, Init, LocalsInit, SourceInit
<1>3. Empty \in [Key -> Version]
  BY DEF Empty, Version
<1>4. PipelineTypeOK
  <2>1. running \in BOOLEAN /\ (pc # "rest" => running)
    BY <1>2
  <2>. QED
    BY <1>2, <1>3, <2>1, PipelineAssumption DEF PipelineTypeOK
<1>. QED
  BY <1>1, <1>2, <1>4 DEF LoopInv, CallInv, SavedInv, ReachedInv

\* The source: positions that were reached stay reached.
LEMMA LoopOfSource ==
  ASSUME LoopInv, SourceNext, UNCHANGED <<callVars, loopVars, running>>
  PROVE  LoopInv'
<1>1. SourceTypeOK
  BY LoopTypes
<1>2. /\ SourceTypeOK' /\ floor <= floor' /\ floor' <= captured' + 1
      /\ captured <= captured' /\ Len(log) <= Len(log')
      /\ captured \in Nat /\ captured' \in Nat /\ Len(log) \in Nat /\ Len(log') \in Nat
      /\ floor \in Nat /\ floor' \in Nat
  BY <1>1, SourceGrows DEF LoopInv, ReachedInv
<1>3. UNCHANGED <<state, pc, run, call, frame, saved, target, at, faults, running>>
  BY DEF callVars, loopVars
<1>4. CallInv'
  <2>1. CASE pc # "written"
    <3>1. DumpInv'
      BY <2>1, DumpOfSource DEF LoopInv, CallInv, callVars
    <3>. QED
      BY <1>3, <2>1, <3>1 DEF CallInv
  <2>2. CASE pc = "written"
    BY <1>2, <1>3, <2>2 DEF LoopInv, CallInv
  <2>. QED
    BY <2>1, <2>2
<1>5. PipelineTypeOK'
  BY <1>2, <1>3 DEF LoopInv, PipelineTypeOK
<1>6. saved # None => saved.last_lsn \in Nat
  BY LoopTypes
<1>7. SavedInv'
  BY <1>2, <1>3, <1>6 DEF LoopInv, SavedInv, Retained
<1>8. ReachedInv'
  <2>1. at \in Nat /\ (run # None => run.last_lsn \in Nat)
    BY LoopTypes
  <2>2. at <= captured' /\ (run # None => run.last_lsn - 1 <= captured')
    <3>1. captured \in Nat /\ captured' \in Nat /\ captured <= captured'
      BY <1>2
    <3>2. at <= captured /\ (run # None => run.last_lsn - 1 <= captured)
      BY DEF LoopInv, ReachedInv
    <3>. QED
      BY <2>1, <3>1, <3>2
  <2>3. pc = "events" => call.high <= captured'
    BY <1>2, LoopTypes DEF LoopInv, ReachedInv, Locals
  <2>4. pc = "returned" => frame.to <= captured'
    BY <1>2, LoopTypes DEF LoopInv, ReachedInv
  <2>. QED
    BY <1>2, <1>3, <2>2, <2>3, <2>4 DEF LoopInv, ReachedInv
<1>. QED
  BY <1>4, <1>5, <1>7, <1>8 DEF LoopInv

\* A call begins at the saved position, or without one.
LEMMA LoopOfBegin ==
  ASSUME LoopInv, NEW n \in ChunkSizes, CallDblog(n)
  PROVE  LoopInv'
<1>1. /\ Begin(n) /\ UNCHANGED <<saved, at, faults>> /\ target' \in {Empty, target}
      /\ running /\ running' = running
  BY DEF CallDblog
<1>2. pc = "rest" /\ pc' \in {"floor", "retain"} /\ run' = state
      /\ UNCHANGED <<base, log, captured, floor, state, frame>>
  BY <1>1 DEF Begin, sourceVars
<1>3. DumpInv'
  BY <1>1, <1>2, NotWritten DEF LoopInv, CallInv, Next
<1>4. Empty \in [Key -> Version]
  BY DEF Empty, Version
<1>5. PipelineTypeOK'
  BY <1>1, <1>2, <1>4 DEF LoopInv, PipelineTypeOK
<1>6. run' # None => run'.last_lsn - 1 <= captured
  BY <1>2, LoopTypes DEF LoopInv, SavedInv, ReachedInv
<1>. QED
  BY <1>1, <1>2, <1>3, <1>5, <1>6 DEF LoopInv, CallInv, SavedInv, ReachedInv, Retained

\* A batch ends where the source was, and no earlier than the target.
LEMMA ReachedByBatch ==
  ASSUME LoopInv, NEW to \in Nat, Batch(to), UNCHANGED <<sourceVars, state, call, at>>,
         pc \in {"max", "events"}, at <= to, to <= captured
  PROVE  ReachedInv'
<1>1. run \in RunState /\ run # None
  BY LoopTypes
<1>2. /\ pc' = "returned" /\ run'.last_lsn = to + 1
      /\ frame'.from = run.last_lsn /\ frame'.to = to
  BY <1>1 DEF Batch, RunState
<1>3. state # None => frame'.from = state.last_lsn
  BY <1>1, <1>2 DEF LoopInv, ReachedInv
<1>. QED
  BY <1>2, <1>3, LoopTypes DEF LoopInv, ReachedInv, sourceVars

\* A step of the call.
LEMMA LoopOfCall ==
  ASSUME LoopInv, (Proceeds /\ UNCHANGED <<loopVars, running>>) \/ Raises
  PROVE  LoopInv'
<1>. CallStep
  BY DEF CallStep, Raises
<1>1. DumpInv
  BY CallIsNotWritten DEF LoopInv, CallInv
<1>2. DumpInv' /\ pc' # "written"
  BY <1>1, NotWritten DEF Next
<1>3. UNCHANGED <<saved, target, at, faults>>
  BY DEF loopVars, Raises
<1>0. /\ captured \in Nat /\ floor \in Nat /\ at \in Nat /\ None \notin RunState
      /\ run # None => run \in RunState /\ run.last_lsn \in Nat
      /\ pc \notin {"rest", "floor"} => run \in RunState
      /\ saved # None => saved \in RunState /\ saved.last_lsn \in Nat
      /\ call \in Locals
  BY LoopTypes
<1>4. UNCHANGED <<base, log, captured, floor>> /\ pc # "rest"
  BY DEF CallStep, Proceeds, Refused, SeedFloor, SeedOpening, CheckRetention,
     RetentionExpired, LowWatermark, ScanRow, ScanEnd, ScanRefused, HighWatermark,
     AwaitWatermark, ReadMax, NoWindow, ReadWindow, WindowRefused, sourceVars
<1>5. PipelineTypeOK'
  <2>1. running' \in BOOLEAN /\ (pc' # "rest" => running')
    BY <1>4 DEF Raises, Refused, ScanRefused, WindowRefused, Raise, LoopInv, PipelineTypeOK
  <2>. QED
    BY <1>3, <1>4, <2>1 DEF LoopInv, PipelineTypeOK
<1>6. SavedInv'
  <2>1. CASE RetentionExpired
    <3>1. state' = None /\ run = state /\ run # None /\ ~Retained(run)
      BY <1>0, <1>1, <2>1 DEF RetentionExpired, DumpInv, OpeningInv
    <3>2. saved # None => ~Retained(saved)
      BY <3>1 DEF LoopInv, SavedInv
    <3>. QED
      BY <1>3, <1>4, <3>1, <3>2 DEF LoopInv, SavedInv, Retained
  <2>2. CASE ~RetentionExpired
    <3>1. state' = state
      BY <2>2 DEF CallStep, Proceeds, Refused, SeedFloor, SeedOpening, CheckRetention,
         LowWatermark, ScanRow, ScanEnd, ScanRefused, Raise, HighWatermark, AwaitWatermark,
         ReadMax, NoWindow, ReadWindow, WindowRefused
    <3>. QED
      BY <1>3, <1>4, <3>1 DEF LoopInv, SavedInv, Retained
  <2>. QED
    BY <2>1, <2>2
<1>7. ReachedInv'
  <2>. USE DEF LoopInv, ReachedInv
  <2>1. CASE SeedFloor
    <3>1. state = None
      BY <1>1, <2>1 DEF SeedFloor, DumpInv, OpeningInv
    <3>. QED
      BY <1>0, <1>3, <1>4, <2>1, <3>1 DEF SeedFloor
  <2>2. CASE SeedOpening
    <3>1. state = None /\ run \in RunState
      BY <1>0, <1>1, <2>2 DEF SeedOpening, DumpInv, OpeningInv
    <3>2. run'.last_lsn \in {captured, run.last_lsn}
      BY <2>2, <3>1 DEF SeedOpening, RunState
    <3>. QED
      BY <1>0, <1>3, <1>4, <2>2, <3>1, <3>2 DEF SeedOpening
  <2>3. CASE CheckRetention \/ LowWatermark \/ HighWatermark \/ AwaitWatermark
             \/ \E k \in Key : ScanRow(k)
    BY <1>3, <1>4, <2>3
       DEF CheckRetention, LowWatermark, HighWatermark, AwaitWatermark, ScanRow
  <2>4. CASE RetentionExpired \/ ScanRefused \/ WindowRefused
    BY <1>3, <1>4, <2>4 DEF RetentionExpired, ScanRefused, WindowRefused, Raise
  <2>5. CASE ScanEnd
    <3>1. run \in RunState /\ run # None /\ run'.last_lsn = run.last_lsn
      BY <1>0, <2>5 DEF ScanEnd, Advanced, RunState
    <3>. QED
      BY <1>3, <1>4, <2>5, <3>1 DEF ScanEnd
  <2>6. CASE ReadMax
    <3>1. call'.high = captured
      BY <1>0, <2>6 DEF ReadMax, Locals
    <3>. QED
      BY <1>0, <1>3, <1>4, <2>6, <3>1 DEF ReadMax
  <2>7. CASE NoWindow
    <3>1. run \in RunState /\ run.last_lsn \in Nat /\ run.last_lsn > captured
          /\ run.last_lsn <= captured + 1
      BY <1>0, <2>7 DEF NoWindow
    <3>2. run.last_lsn - 1 = captured
      BY <1>0, <3>1
    <3>. QED
      BY <1>0, <1>3, <2>7, <3>2, ReachedByBatch DEF NoWindow
  <2>8. CASE ReadWindow
    <3>1. call.high \in Nat
      BY <1>0 DEF Locals
    <3>. QED
      BY <1>3, <2>8, <3>1, ReachedByBatch DEF ReadWindow
  <2>. QED
    BY <2>1, <2>2, <2>3, <2>4, <2>5, <2>6, <2>7, <2>8 DEF CallStep, Proceeds, Refused
<1>. QED
  BY <1>2, <1>5, <1>6, <1>7 DEF LoopInv, CallInv

\* The batch is written.
LEMMA LoopOfWrite ==
  ASSUME LoopInv, Write
  PROVE  LoopInv'
<1>1. /\ pc = "returned" /\ pc' = "written" /\ at' = frame.to
      /\ target' = [k \in Key |-> Applied(k)]
      /\ UNCHANGED <<base, log, captured, floor, state, run, call, frame, saved, faults, running>>
  BY DEF Write, sourceVars
<1>2. /\ run \in RunState /\ run # None /\ run.last_lsn = frame.to + 1
      /\ frame.to \in 0..Len(log) /\ at <= frame.to /\ frame.to <= captured
      /\ at \in Nat /\ captured \in Nat /\ Len(log) \in Nat
  BY <1>1, LoopTypes DEF LoopInv, CallInv, DumpInv, FrameInv, ReachedInv
<1>3. PipelineTypeOK'
  <2>1. ASSUME NEW k \in Key PROVE Applied(k) \in Version
    <3>1. target[k] \in Version
      BY DEF LoopInv, PipelineTypeOK
    <3>. QED
      BY <1>1, <1>2, <3>1, AppliedRow, ImageIsVersion
  <2>. QED
    BY <1>1, <1>2, <2>1 DEF LoopInv, PipelineTypeOK
<1>4. CallInv'
  BY <1>1, <1>2, LoopTypes DEF CallInv, SourceTypeOK
<1>5. SavedInv'
  <2>1. saved # None => saved.last_lsn \in 1..(at + 1)
    BY DEF LoopInv, SavedInv
  <2>2. saved # None => saved.last_lsn \in 1..(frame.to + 1)
    BY <1>2, <2>1
  <2>. QED
    BY <1>1, <2>2 DEF LoopInv, SavedInv, Retained
<1>6. ReachedInv'
  BY <1>1, <1>2 DEF LoopInv, ReachedInv
<1>. QED
  BY <1>3, <1>4, <1>5, <1>6 DEF LoopInv

\* A loop at rest with a position the source and the target have reached.
LEMMA LoopAtRest ==
  ASSUME LoopInv, pc' = "rest", run' = None, call' \in Locals,
         frame' \in [from : Nat, to : Nat, rows : Rows], DOMAIN frame'.rows = {},
         UNCHANGED <<sourceVars, target, at>>, faults' \in 0..MaxFaults,
         saved' \in RunState \cup {None}, state' = saved', running' \in BOOLEAN,
         saved' # None => saved'.last_lsn \in 1..(at + 1)
  PROVE  LoopInv'
<1>1. /\ SourceTypeOK /\ captured \in Nat /\ at \in Nat /\ Len(log) \in Nat
      /\ captured <= Len(log) /\ at <= captured /\ None \notin RunState
  BY LoopTypes DEF LoopInv, ReachedInv
<1>2. UNCHANGED <<base, log, captured, floor>>
  BY DEF sourceVars
<1>3. TypeOK'
  BY <1>1, <1>2 DEF TypeOK, SourceTypeOK, PCs, Locals
<1>4. PositionInv'
  <2>1. saved' # None => saved'.last_lsn \in 1..(Len(log) + 1)
    BY <1>1
  <2>. QED
    BY <1>2, <2>1 DEF PositionInv
<1>5. DumpInv'
  BY <1>3, <1>4, DumpAtRest
<1>6. PipelineTypeOK'
  BY <1>2 DEF LoopInv, PipelineTypeOK
<1>7. SavedInv'
  BY DEF SavedInv
<1>8. ReachedInv'
  BY <1>1, <1>2 DEF LoopInv, ReachedInv
<1>. QED
  BY <1>5, <1>6, <1>7, <1>8 DEF LoopInv, CallInv

\* The state is saved, once its batch is written.
LEMMA LoopOfSave ==
  ASSUME LoopInv, Save
  PROVE  LoopInv'
<1>1. /\ pc = "written" /\ pc' = "rest" /\ saved' = run /\ state' = run /\ run' = None
      /\ running' \in BOOLEAN /\ call' = NoCall /\ frame' = NoFrame /\ UNCHANGED <<sourceVars, target, at, faults>>
  BY DEF Save
<1>2. run \in RunState /\ run.last_lsn = at + 1 /\ at \in Nat
  BY <1>1, LoopTypes, NoneAssumption DEF LoopInv, CallInv, ReachedInv
<1>3. /\ NoCall \in Locals /\ NoFrame \in [from : Nat, to : Nat, rows : Rows]
      /\ DOMAIN NoFrame.rows = {}
  BY NothingYet DEF NoFrame, NoRows
<1>4. faults \in 0..MaxFaults
  BY DEF LoopInv, PipelineTypeOK
<1>. QED
  BY <1>1, <1>2, <1>3, <1>4, LoopAtRest

\* A process that is down has no call under way.
LEMMA LoadAtRest ==
  ASSUME LoopInv, Load
  PROVE  pc = "rest" /\ pc' = "rest"
BY DEF Load, LoopInv, PipelineTypeOK

\* A process that is started loads what was saved.
LEMMA LoopOfLoad ==
  ASSUME LoopInv, Load
  PROVE  LoopInv'
<1>1. /\ pc = "rest" /\ pc' = "rest" /\ state' = saved /\ saved' = saved /\ running' = TRUE
      /\ UNCHANGED <<sourceVars, run, call, frame, target, at, faults>>
  BY DEF Load, loopVars, LoopInv, PipelineTypeOK
<1>2. /\ call \in Locals /\ frame \in [from : Nat, to : Nat, rows : Rows]
      /\ DOMAIN frame.rows = {} /\ run = None
  BY <1>1, LoopTypes DEF LoopInv, CallInv, DumpInv, FrameInv, ReachedInv
<1>3. /\ saved \in RunState \cup {None} /\ (saved # None => saved.last_lsn \in 1..(at + 1))
      /\ faults \in 0..MaxFaults
  BY DEF LoopInv, PipelineTypeOK, SavedInv
<1>. QED
  BY <1>1, <1>2, <1>3, LoopAtRest

\* Whatever was in flight is lost, and what was saved will be loaded.
LEMMA LoopOfCrash ==
  ASSUME LoopInv, Crash
  PROVE  LoopInv'
<1>1. /\ pc' = "rest" /\ state' = saved /\ saved' = saved /\ run' = None
      /\ running' = FALSE /\ call' = NoCall /\ frame' = NoFrame /\ UNCHANGED <<sourceVars, target, at>>
  BY DEF Crash
<1>2. faults' \in 0..MaxFaults
  BY PipelineAssumption DEF Crash, LoopInv, PipelineTypeOK
<1>3. /\ NoCall \in Locals /\ NoFrame \in [from : Nat, to : Nat, rows : Rows]
      /\ DOMAIN NoFrame.rows = {}
  BY NothingYet DEF NoFrame, NoRows
<1>4. saved \in RunState \cup {None} /\ (saved # None => saved.last_lsn \in 1..(at + 1))
  BY DEF LoopInv, PipelineTypeOK, SavedInv
<1>. QED
  BY <1>1, <1>2, <1>3, <1>4, LoopAtRest

\* The state is replaced by one at a position the target has reached.
LEMMA LoopOfHandOver ==
  ASSUME LoopInv, NEW from \in 1..MaxLog, NEW walked \in BOOLEAN, StateAtLsn(from, walked)
  PROVE  LoopInv'
<1>0. MaxLog \in Nat
  BY MaxLogAssumption
<1>1. /\ pc = "rest" /\ pc' = pc /\ from <= at + 1 /\ saved' = state'
      /\ \E short \in BOOLEAN :
           state' = [last_lsn |-> from, short |-> short, chunk_key |-> 0, dump_done |-> walked]
      /\ UNCHANGED <<sourceVars, run, call, frame, target, at, running>>
  BY DEF StateAtLsn
<1>2. faults' \in 0..MaxFaults
  BY PipelineAssumption DEF StateAtLsn, LoopInv, PipelineTypeOK
<1>3. /\ call \in Locals /\ frame \in [from : Nat, to : Nat, rows : Rows] /\ at \in Nat
      /\ running \in BOOLEAN
  BY LoopTypes DEF LoopInv, PipelineTypeOK
<1>4. DOMAIN frame.rows = {} /\ run = None
  BY <1>1 DEF LoopInv, CallInv, DumpInv, FrameInv, ReachedInv
<1>5. saved' \in RunState /\ saved'.last_lsn \in 1..(at + 1)
  BY <1>0, <1>1, <1>3 DEF RunState
<1>. QED
  BY <1>1, <1>2, <1>3, <1>4, <1>5, LoopAtRest

\* No step takes the loop out of its invariant.
LEMMA LoopStep == LoopInv /\ [PipelineNext]_pipelineVars => LoopInv'
<1>. SUFFICES ASSUME LoopInv, [PipelineNext]_pipelineVars PROVE LoopInv'
  OBVIOUS
<1>1. CASE SourceNext /\ UNCHANGED <<callVars, loopVars, running>>
  BY <1>1, LoopOfSource
<1>2. CASE \E n \in ChunkSizes : CallDblog(n)
  BY <1>2, LoopOfBegin
<1>3. CASE (Proceeds /\ UNCHANGED <<loopVars, running>>) \/ Raises
  BY <1>3, LoopOfCall
<1>4. CASE Write
  BY <1>4, LoopOfWrite
<1>5. CASE Save
  BY <1>5, LoopOfSave
<1>6. CASE Crash
  BY <1>6, LoopOfCrash
<1>7. CASE \E from \in 1..MaxLog, walked \in BOOLEAN : StateAtLsn(from, walked)
  BY <1>7, LoopOfHandOver
<1>9. CASE Load
  BY <1>9, LoopOfLoad
<1>8. CASE UNCHANGED pipelineVars
  <2>1. UNCHANGED vars /\ UNCHANGED <<base, log, captured, floor, state, pc, run, call, frame>>
        /\ UNCHANGED <<saved, target, at, faults, running>>
    BY <1>8 DEF pipelineVars, vars, callVars, loopVars, sourceVars
  <2>2. pc # "written" => DumpInv'
    BY <2>1, NotWritten DEF LoopInv, CallInv
  <2>3. CallInv'
    BY <2>1, <2>2 DEF LoopInv, CallInv, SourceTypeOK
  <2>. QED
    BY <2>1, <2>3 DEF LoopInv, PipelineTypeOK, SavedInv, ReachedInv, Retained
<1>. QED
  BY <1>1, <1>2, <1>3, <1>4, <1>5, <1>6, <1>7, <1>8, <1>9 DEF PipelineNext, LoopNext

\* LoopInv holds of every run of the loop.
LEMMA LoopHolds == PipelineSpec => []LoopInv
BY LoopInit, LoopStep, PTL DEF PipelineSpec

\* What the loop has saved and written is of its type, and the target is never
\* as of an LSN the log does not have.
THEOREM LoopTypeCorrect == PipelineSpec => []PipelineTypeOK
<1>1. LoopInv => PipelineTypeOK
  BY DEF LoopInv
<1>. QED
  BY <1>1, LoopHolds, PTL

\* A resumed call reads the log from where the target ends or from before it,
\* whatever was lost, handed over or cleaned up.
THEOREM NothingIsSkipped == PipelineSpec => []NoGap
<1>1. LoopInv => NoGap
  <2>. SUFFICES ASSUME LoopInv, pc = "returned", state # None PROVE frame.from <= at + 1
    BY DEF NoGap
  <2>. QED
    BY LoopTypes DEF LoopInv, SavedInv, ReachedInv
<1>. QED
  BY <1>1, LoopHolds, PTL

\* Nothing takes the target back to an earlier state of the table.
THEOREM TargetNeverGoesBack == PipelineSpec => NeverBack
<1>1. LoopInv /\ [PipelineNext]_pipelineVars => [at' >= at]_at
  <2>. SUFFICES ASSUME LoopInv, [PipelineNext]_pipelineVars, at' # at PROVE at' >= at
    OBVIOUS
  <2>1. CASE Write
    BY <2>1 DEF Write, LoopInv, ReachedInv
  <2>2. CASE ~Write
    BY <2>2
       DEF pipelineVars, loopVars, PipelineNext, LoopNext, Load, CallDblog, Raises,
           Save, Crash, StateAtLsn
  <2>. QED
    BY <2>1, <2>2
<1>. QED
  BY <1>1, LoopHolds, PTL DEF PipelineSpec, NeverBack
-----------------------------------------------------------------------------
(* What is in the target.                                                  *)

\* A target that a dump from no state is being written to was empty before.
TargetInv ==
  /\ TargetExact
  /\ state = None /\ pc \notin {"rest", "written"} => target = Empty

\* What an old row was does not depend on what was committed since.
LEMMA ImagesStay ==
  ASSUME LoopInv, SourceNext \/ UNCHANGED sourceVars
  PROVE  \A k : Image(base', log', k, at) = Image(base, log, k, at)
<1>1. SourceTypeOK /\ at \in 0..Len(log)
  BY LoopTypes DEF LoopInv, PipelineTypeOK
<1>2. CASE SourceNext
  BY <1>1, <1>2, PastIsFixed
<1>3. CASE UNCHANGED sourceVars
  BY <1>3 DEF sourceVars
<1>. QED
  BY <1>2, <1>3

\* Only a write moves the target, and only a call from no state empties it.
LEMMA TargetKept ==
  ASSUME LoopInv, [PipelineNext]_pipelineVars, ~Write
  PROVE  /\ at' = at
         /\ SourceNext \/ UNCHANGED sourceVars
         /\ target' = target \/ target' = Empty
         /\ target' # target => state = None /\ pc = "rest"
BY DEF pipelineVars, vars, callVars, loopVars, PipelineNext, LoopNext, Load, Raises,
    CallDblog, Begin, Save, Crash, StateAtLsn, CallStep, Proceeds, Refused, SeedFloor,
    SeedOpening, CheckRetention, RetentionExpired, LowWatermark, ScanRow, ScanEnd,
    ScanRefused, HighWatermark, AwaitWatermark, ReadMax, NoWindow, ReadWindow,
    WindowRefused

\* A call in progress keeps its caller's state.
LEMMA StateKept ==
  ASSUME LoopInv, [PipelineNext]_pipelineVars, pc' \notin {"rest", "written"}
  PROVE  /\ state' = state
         /\ target' = target \/ (\E n \in ChunkSizes : CallDblog(n))
BY LoadAtRest
   DEF pipelineVars, vars, callVars, loopVars, PipelineNext, LoopNext, Raises,
       CallDblog, Begin, Save, Write, Crash, StateAtLsn, CallStep, Proceeds, Refused,
       SeedFloor, SeedOpening, CheckRetention, RetentionExpired, LowWatermark, ScanRow,
       ScanEnd, ScanRefused, Raise, HighWatermark, AwaitWatermark, ReadMax, NoWindow,
       ReadWindow, WindowRefused

\* Only a call's beginning leaves the rest between two batches.
LEMMA LeavesRest ==
  ASSUME [PipelineNext]_pipelineVars, pc' \notin {"rest", "written"},
         ~(\E n \in ChunkSizes : CallDblog(n))
  PROVE  pc \notin {"rest", "written"}
BY DEF pipelineVars, vars, callVars, loopVars, PipelineNext, LoopNext, Load, Raises,
    Save, Write, Crash, StateAtLsn, CallStep, Proceeds, Refused, SeedFloor, SeedOpening,
    CheckRetention, RetentionExpired, LowWatermark, ScanRow, ScanEnd, ScanRefused,
    Raise, HighWatermark, AwaitWatermark, ReadMax, NoWindow, ReadWindow, WindowRefused

\* No step puts an image into the target that is not the table's.
LEMMA TargetStep ==
  ASSUME NewTargetOnDump
  PROVE  LoopInv /\ TargetInv /\ [PipelineNext]_pipelineVars => TargetInv'
<1>. SUFFICES ASSUME LoopInv, TargetInv, [PipelineNext]_pipelineVars PROVE TargetInv'
  OBVIOUS
<1>1. TargetExact'
  <2>1. CASE Write
    <3>1. /\ pc = "returned" /\ at' = frame.to /\ target' = [k \in Key |-> Applied(k)]
          /\ UNCHANGED <<base, log>>
      BY <2>1 DEF Write, sourceVars
    <3>2. ASSUME NEW k \in Key
          PROVE  Applied(k) \in {Absent, Image(base, log, k, frame.to)}
      <4>1. target[k] \in {Absent, Image(base, log, k, at)}
        BY DEF TargetInv, TargetExact
      <4>2. CASE Applied(k) = Image(base, log, k, frame.to)
        BY <4>2
      <4>3. CASE Applied(k) = target[k] /\ EventsOf(log, k, frame.from, frame.to) = {}
        <5>1. CASE state = None
          BY <3>1, <4>3, <5>1 DEF TargetInv, Empty
        <5>2. CASE state # None
          BY <3>1, <4>1, <4>3, <5>2, SinceTheTarget
        <5>. QED
          BY <5>1, <5>2
      <4>. QED
        BY <3>1, <4>2, <4>3, AppliedRow
    <3>. QED
      BY <3>1, <3>2 DEF TargetExact
  <2>2. CASE ~Write
    <3>1. at' = at /\ (target' = target \/ target' = Empty)
      BY <2>2, TargetKept
    <3>2. \A k : Image(base', log', k, at) = Image(base, log, k, at)
      BY <2>2, TargetKept, ImagesStay
    <3>. QED
      BY <3>1, <3>2 DEF TargetInv, TargetExact, Empty
  <2>. QED
    BY <2>1, <2>2
<1>2. ASSUME state' = None, pc' \notin {"rest", "written"}
      PROVE  target' = Empty
  <2>1. state = None
    BY <1>2, StateKept
  <2>2. CASE \E n \in ChunkSizes : CallDblog(n)
    BY <2>1, <2>2 DEF CallDblog
  <2>3. CASE ~(\E n \in ChunkSizes : CallDblog(n))
    <3>1. target' = target /\ pc \notin {"rest", "written"}
      BY <1>2, <2>1, <2>3, StateKept, LeavesRest
    <3>. QED
      BY <2>1, <3>1 DEF TargetInv
  <2>. QED
    BY <2>2, <2>3
<1>. QED
  BY <1>1, <1>2 DEF TargetInv

\* The target holds no row that was gone and no image older or newer than the
\* last LSN written, however often a batch is retried or replayed.
THEOREM TargetIsExact ==
  ASSUME NewTargetOnDump
  PROVE  PipelineSpec => []TargetExact
<1>1. PipelineInit => TargetInv
  BY DEF PipelineInit, Init, LocalsInit, TargetInv, TargetExact, Empty
<1>2. LoopInv /\ TargetInv /\ [PipelineNext]_pipelineVars => TargetInv'
  BY TargetStep
<1>3. TargetInv => TargetExact
  BY DEF TargetInv
<1>. QED
  BY <1>1, <1>2, <1>3, LoopHolds, PTL DEF PipelineSpec

\* Every row that s says is walked, and that no page could have ended before
\* inside its leading key, is in the target as of its last LSN.
Carries(s) ==
  \A k \in Key : Covered(s, k) /\ ~Behind(k) => target[k] = Image(base, log, k, at)

\* The saved state is true of the target for as long as a call may start or go
\* on from it, and a state about to be saved is true of what was written.
WalkedInv ==
  /\ pc # "written" => WalkInv
  /\ saved # None /\ (Retained(saved) \/ (state # None /\ pc \notin {"rest", "retain"}))
       => Carries(saved)
  /\ pc = "written" => Carries(run)

\* The rows of a batch complete what a state carries.
LEMMA CarriedByWrite ==
  ASSUME LoopInv, TargetInv, WalkedInv, pc = "returned"
  PROVE  \A k \in Key : ~Behind(k) /\ (Covered(run, k) \/ Covered(state, k))
                         => Applied(k) = Image(base, log, k, frame.to)
<1>1. pc = "returned" /\ PageCompleteUpToTies
  BY DEF WalkedInv, WalkInv
<1>2. ASSUME NEW k \in Key, ~Behind(k), Covered(state, k)
      PROVE  Applied(k) = Image(base, log, k, frame.to)
  <2>1. state # None /\ state = saved
    BY <1>2 DEF Covered, LoopInv, SavedInv
  <2>2. target[k] = Image(base, log, k, at)
    BY <1>1, <1>2, <2>1 DEF WalkedInv, Carries
  <2>. QED
    BY <1>1, <2>1, <2>2, AppliedRow, SinceTheTarget
<1>3. ASSUME NEW k \in Key, ~Behind(k), Covered(run, k), ~Covered(state, k)
      PROVE  Applied(k) = Image(base, log, k, frame.to)
  <2>1. CASE k \in DOMAIN frame.rows \/ k \in WindowKeys(frame.from, frame.to)
    BY <1>1, <2>1, AppliedRow
  <2>2. CASE /\ Image(base, log, k, frame.to) = Absent
             /\ k \notin DOMAIN frame.rows /\ k \notin WindowKeys(frame.from, frame.to)
    <3>1. Applied(k) = target[k] /\ EventsOf(log, k, frame.from, frame.to) = {}
      BY <2>2 DEF Applied, WindowKeys
    <3>2. CASE state = None
      BY <1>1, <2>2, <3>1, <3>2 DEF TargetInv, Empty
    <3>3. CASE state # None
      <4>1. target[k] \in {Absent, Image(base, log, k, at)}
        BY DEF TargetInv, TargetExact
      <4>. QED
        BY <1>1, <2>2, <3>1, <3>3, <4>1, SinceTheTarget
    <3>. QED
      BY <3>2, <3>3
  <2>. QED
    BY <1>1, <1>3, <2>1, <2>2 DEF PageCompleteUpToTies, Tied, Behind, Accounted
<1>. QED
  BY <1>2, <1>3

\* What a state carries it still carries while nothing is written.
LEMMA CarriedOn ==
  ASSUME LoopInv, NEW s, Carries(s), SourceNext \/ UNCHANGED sourceVars,
         at' = at, target' = target
  PROVE  \A k \in Key :
           Covered(s, k) /\ ~Behind(k) => target'[k] = Image(base', log', k, at')
BY ImagesStay DEF Carries

\* A loop at rest has no batch that could leave a row out.
LEMMA WalkAtRest == ASSUME pc' = "rest" PROVE WalkInv'
BY DEF WalkInv, PageCompleteUpToTies

\* Where the call ends, if it does not end in a batch.
LEMMA WalkOfLoop ==
  ASSUME LoopInv, WalkedInv, [PipelineNext]_pipelineVars, pc' # "written"
  PROVE  WalkInv'
<1>1. CASE pc' = "rest"
  BY <1>1, WalkAtRest
<1>2. CASE pc' # "rest"
  <2>1. pc # "written" /\ [Next]_vars
    BY <1>2, LoadAtRest
       DEF pipelineVars, vars, callVars, loopVars, sourceVars, PipelineNext, LoopNext,
           Raises, Next, CallDblog, Save, Write, Crash, StateAtLsn, CallStep, Proceeds,
           Refused, SeedFloor, SeedOpening, CheckRetention, RetentionExpired,
           LowWatermark, ScanRow, ScanEnd, ScanRefused, Raise, HighWatermark,
           AwaitWatermark, ReadMax, NoWindow, ReadWindow, WindowRefused, Begin
  <2>. QED
    BY <2>1, WalkStep DEF LoopInv, CallInv, WalkedInv
<1>. QED
  BY <1>1, <1>2

\* A step of the source or none.
LEMMA SourceOrNot ==
  ASSUME LoopInv, [PipelineNext]_pipelineVars
  PROVE  SourceNext \/ UNCHANGED sourceVars
BY TargetKept DEF Write

\* A call that goes on from a state went on from it before, or has just found
\* that it is retained.
LEMMA GoesOn ==
  ASSUME LoopInv, [PipelineNext]_pipelineVars, ~Write, saved # None,
         state' # None, pc' \notin {"rest", "retain"}
  PROVE  /\ state # None
         /\ pc \notin {"rest", "retain"} \/ Retained(saved)
<1>1. CASE CheckRetention /\ UNCHANGED loopVars
  <2>1. pc = "retain" /\ run = state /\ state' = state /\ Retained(run)
    BY <1>1 DEF CheckRetention, LoopInv, CallInv, DumpInv, OpeningInv
  <2>. QED
    BY <2>1 DEF LoopInv, SavedInv
<1>2. CASE ~CheckRetention
  BY <1>2, LoadAtRest
     DEF pipelineVars, vars, callVars, loopVars, PipelineNext, LoopNext, Raises, CallDblog,
     Begin, Save, Crash, StateAtLsn, CallStep, Proceeds, Refused, SeedFloor, SeedOpening,
     RetentionExpired, LowWatermark, ScanRow, ScanEnd, ScanRefused, Raise, HighWatermark,
     AwaitWatermark, ReadMax, NoWindow, ReadWindow, WindowRefused
<1>3. CheckRetention => UNCHANGED loopVars
  BY DEF CheckRetention, pipelineVars, vars, callVars, loopVars, PipelineNext, LoopNext,
     Load, Raises, CallDblog, Begin, Write, Save, Crash, StateAtLsn
<1>. QED
  BY <1>1, <1>2, <1>3

\* What is saved changes with a save or a hand-over, and a written batch stays
\* as it is until then.
LEMMA SavedKept ==
  ASSUME [PipelineNext]_pipelineVars, ~Write, ~Save,
         ~(\E from \in 1..MaxLog, walked \in BOOLEAN : StateAtLsn(from, walked))
  PROVE  /\ saved' = saved
         /\ pc' = "written" => pc = "written" /\ run' = run
BY DEF pipelineVars, vars, callVars, loopVars, PipelineNext, LoopNext, Load, Raises,
    CallDblog, Begin, Crash, CallStep, Proceeds, Refused, SeedFloor, SeedOpening,
    CheckRetention, RetentionExpired, LowWatermark, ScanRow, ScanEnd, ScanRefused,
    Raise, HighWatermark, AwaitWatermark, ReadMax, NoWindow, ReadWindow, Batch,
    WindowRefused

\* Nor is the target emptied under it.
LEMMA NotEmptied ==
  ASSUME LoopInv, [PipelineNext]_pipelineVars, ~Write, pc = "written"
  PROVE  target' = target
BY TargetKept

\* No step leaves the saved state claiming a row that the target lacks.
LEMMA WalkedStep ==
  ASSUME LoopInv, TargetInv, WalkedInv, [PipelineNext]_pipelineVars
  PROVE  WalkedInv'
<1>0. floor \in Nat /\ floor' \in Nat /\ floor <= floor'
  <2>1. floor \in Nat /\ SourceTypeOK /\ floor <= captured + 1
    BY LoopTypes DEF LoopInv, ReachedInv
  <2>2. SourceNext \/ floor' = floor
    BY SourceOrNot DEF sourceVars
  <2>. QED
    BY <2>1, <2>2, SourceGrows
<1>1. pc' # "written" => WalkInv'
  BY WalkOfLoop
<1>2. CASE Write
  <2>1. /\ pc = "returned" /\ pc' = "written" /\ target' = [k \in Key |-> Applied(k)]
        /\ at' = frame.to /\ UNCHANGED <<base, log, floor, state, run, saved>>
    BY <1>2 DEF Write, sourceVars
  <2>2. Carries(run)'
    BY <1>2, <2>1, CarriedByWrite DEF Carries, Covered, Behind
  <2>3. state # None => saved = state /\ Carries(saved)'
    BY <1>2, <2>1, CarriedByWrite DEF Carries, Covered, Behind, LoopInv, SavedInv
  <2>4. saved # None /\ Retained(saved) => state # None
    <3>1. saved # None => saved.last_lsn \in Nat
      BY LoopTypes
    <3>. QED
      BY <1>0, <3>1 DEF LoopInv, SavedInv
  <2>. QED
    BY <2>1, <2>2, <2>3, <2>4 DEF WalkedInv, Retained
<1>3. CASE Save
  <2>1. /\ pc = "written" /\ pc' = "rest" /\ saved' = run
        /\ UNCHANGED <<base, log, target, at>>
    BY <1>3 DEF Save, sourceVars
  <2>2. Carries(saved)'
    BY <2>1 DEF WalkedInv, Carries, Covered, Behind
  <2>. QED
    BY <1>1, <2>1, <2>2 DEF WalkedInv
<1>4. ASSUME NEW from \in 1..MaxLog, NEW walked \in BOOLEAN, StateAtLsn(from, walked)
      PROVE  WalkedInv'
  <2>1. /\ pc' = "rest" /\ (walked => TargetWhole)
        /\ saved'.chunk_key = 0 /\ saved'.dump_done = walked
        /\ UNCHANGED <<base, log, target, at>>
    BY <1>4 DEF StateAtLsn, sourceVars
  <2>2. \A k \in Key : Covered(saved', k) => walked
    BY <2>1, LeadAssumption DEF Covered
  <2>3. Carries(saved)'
    BY <2>1, <2>2 DEF Carries, Covered, Behind, TargetWhole
  <2>. QED
    BY <1>1, <2>1, <2>3 DEF WalkedInv
<1>5. CASE ~Write /\ ~Save /\ ~(\E from \in 1..MaxLog, walked \in BOOLEAN : StateAtLsn(from, walked))
  <2>1. /\ at' = at /\ saved' = saved
        /\ pc' = "written" => pc = "written" /\ run' = run
        /\ SourceNext \/ UNCHANGED sourceVars
    BY <1>5, TargetKept, SavedKept
  <2>2. pc' = "written" => Carries(run)'
    BY <1>5, <2>1, NotEmptied, CarriedOn DEF WalkedInv, Carries, Covered, Behind
  <2>3. ASSUME saved' # None,
               \/ Retained(saved)'
               \/ state' # None /\ pc' \notin {"rest", "retain"}
        PROVE  Carries(saved)'
    <3>0. saved # None /\ saved.last_lsn \in Nat
      BY <2>1, <2>3, LoopTypes
    <3>1. \/ Retained(saved)
          \/ state # None /\ pc \notin {"rest", "retain"}
      BY <1>0, <1>5, <2>1, <2>3, <3>0, GoesOn DEF WalkedInv, Retained
    <3>2. target' = target
      <4>1. Retained(saved) => state # None
        BY <1>0, <3>0 DEF LoopInv, SavedInv
      <4>. QED
        BY <1>5, <3>1, <4>1, TargetKept
    <3>. QED
      BY <2>1, <3>0, <3>1, <3>2, CarriedOn DEF WalkedInv, Carries, Covered, Behind
  <2>. QED
    BY <1>1, <2>2, <2>3 DEF WalkedInv
<1>. QED
  BY <1>2, <1>3, <1>4, <1>5

\* What PipelineSpec keeps of a target that a dump starts over empty.
LEMMA WalkedHolds ==
  ASSUME NewTargetOnDump
  PROVE  PipelineSpec => [](LoopInv /\ TargetInv /\ WalkedInv)
<1>1. PipelineInit => TargetInv /\ WalkedInv
  BY WalkInit DEF PipelineInit, Init, LocalsInit, TargetInv, TargetExact, Empty, WalkedInv
<1>2. LoopInv /\ TargetInv /\ [PipelineNext]_pipelineVars => TargetInv'
  BY TargetStep
<1>3. LoopInv /\ TargetInv /\ WalkedInv /\ [PipelineNext]_pipelineVars => WalkedInv'
  BY WalkedStep
<1>. QED
  BY <1>1, <1>2, <1>3, LoopHolds, PTL DEF PipelineSpec

\* Whatever the key is made of, a saved state that can be resumed never claims
\* the first row of a leading key that the target lacks.
THEOREM FirstsAreComplete ==
  ASSUME NewTargetOnDump
  PROVE  PipelineSpec => []FirstsComplete
<1>1. LoopInv /\ WalkedInv => FirstsComplete
  BY DEF WalkedInv, FirstsComplete, Resumable, Carries
<1>. QED
  BY <1>1, WalkedHolds, PTL

\* With a key of one column that is every row.
LEMMA AllAreFirst ==
  ASSUME SingleColumnKey, NEW k \in Key
  PROVE  ~Behind(k)
BY KeyAssumption DEF SingleColumnKey, Behind

\* Where a saved state can be resumed, every row it says is walked is in the
\* target as of the last LSN written.
THEOREM WalkedIsComplete ==
  ASSUME NewTargetOnDump, SingleColumnKey
  PROVE  PipelineSpec => []WalkedComplete
<1>1. FirstsComplete => WalkedComplete
  BY AllAreFirst DEF FirstsComplete, WalkedComplete
<1>. QED
  BY <1>1, FirstsAreComplete, PTL

\* A page that does not end its dump has a row, and so has its batch.
FilledInv ==
  /\ pc # "rest" => call.size \in Nat \ {0}
  /\ pc \in {"high", "await", "max", "events"} => run.dump_done \/ DOMAIN call.page # {}
  /\ pc = "returned" => run.dump_done \/ ~NothingRead

\* The merge takes a row out of a page only where the window has an event of it.
LEMMA FilledBatch ==
  ASSUME LoopInv, FilledInv, pc \in {"max", "events"}, NEW to, Batch(to),
         UNCHANGED <<log, call>>
  PROVE  FilledInv'
<1>1. run \in RunState /\ call.page \in Rows
  BY LoopTypes DEF Locals
<1>2. /\ pc' = "returned" /\ run'.dump_done = run.dump_done
      /\ frame'.from = run.last_lsn /\ frame'.to = to
      /\ DOMAIN frame'.rows = DOMAIN call.page \ WindowKeys(run.last_lsn, to)
  BY <1>1 DEF Batch, Surviving, RunState
<1>3. WindowKeys(frame.from, frame.to)' = WindowKeys(run.last_lsn, to)
  BY <1>2 DEF WindowKeys
<1>4. run.dump_done \/ ~NothingRead'
  BY <1>2, <1>3 DEF FilledInv, NothingRead
<1>. QED
  BY <1>2, <1>4 DEF FilledInv

\* No step of the loop ends a dump short of its end.
LEMMA FilledStep ==
  ASSUME LoopInv, FilledInv, [PipelineNext]_pipelineVars
  PROVE  FilledInv'
<1>0. call \in Locals /\ (pc \notin {"rest", "floor"} => run \in RunState)
  BY LoopTypes
<1>1. CASE pc' = "rest"
  BY <1>1 DEF FilledInv
<1>2. CASE SourceNext /\ UNCHANGED <<callVars, loopVars, running>>
  <2>1. UNCHANGED <<pc, run, call, frame>>
    BY <1>2 DEF callVars
  <2>2. pc = "returned" => frame.from \in Nat \ {0} /\ frame.to \in 0..Len(log)
    BY DEF LoopInv, CallInv, DumpInv, FrameInv
  <2>3. pc = "returned" => WindowKeys(frame.from, frame.to)' = WindowKeys(frame.from, frame.to)
    BY <1>2, <2>1, <2>2, PastIsFixed, LoopTypes DEF WindowKeys
  <2>. QED
    BY <2>1, <2>3 DEF FilledInv, NothingRead
<1>3. ASSUME NEW n \in ChunkSizes, CallDblog(n)
      PROVE  FilledInv'
  <2>1. pc' \in {"floor", "retain"} /\ call'.size = n
    BY <1>3 DEF CallDblog, Begin, NoCall
  <2>. QED
    BY <2>1, ChunkSizesAssumption DEF FilledInv
<1>4. CASE SeedFloor \/ SeedOpening \/ CheckRetention \/ LowWatermark \/ \E k \in Key : ScanRow(k)
  BY <1>0, <1>4
     DEF SeedFloor, SeedOpening, CheckRetention, LowWatermark, ScanRow, Locals,
         FilledInv
<1>5. CASE ScanEnd
  <2>1. /\ pc = "scan" /\ pc' = "high" /\ call' = call
        /\ run'.dump_done <=> Cardinality(DOMAIN call.page) < call.size
    BY <1>0, <1>5 DEF ScanEnd, Advanced, RunState
  <2>2. call.size \in Nat \ {0}
    BY <2>1 DEF FilledInv
  <2>3. DOMAIN call.page = {} => Cardinality(DOMAIN call.page) = 0
    BY FS_EmptySet
  <2>4. DOMAIN call.page = {} => run'.dump_done
    BY <2>1, <2>2, <2>3
  <2>. QED
    BY <2>1, <2>2, <2>4 DEF FilledInv
<1>6. CASE HighWatermark \/ AwaitWatermark \/ ReadMax
  BY <1>0, <1>6 DEF HighWatermark, AwaitWatermark, ReadMax, Locals, FilledInv
<1>7. CASE NoWindow \/ ReadWindow
  BY <1>7, FilledBatch DEF NoWindow, ReadWindow, sourceVars
<1>8. CASE Write \/ UNCHANGED pipelineVars
  BY <1>8
     DEF Write, pipelineVars, vars, callVars, sourceVars, FilledInv, NothingRead,
         WindowKeys
<1>9. CASE \/ Load \/ Raises \/ RetentionExpired \/ Save \/ Crash
           \/ \E from \in 1..MaxLog, walked \in BOOLEAN : StateAtLsn(from, walked)
  BY <1>1, <1>9, LoadAtRest
     DEF Raises, Refused, ScanRefused, WindowRefused, Raise, RetentionExpired, Save,
         Crash, StateAtLsn
<1>. QED
  BY <1>2, <1>3, <1>4, <1>5, <1>6, <1>7, <1>8, <1>9 DEF PipelineNext, LoopNext, Proceeds

\* The loop ends on a batch with no frame only where the table is in the target
\* as of the end of the log that the call was told, and of its high watermark.
THEOREM LoopEndsOnTheTable ==
  ASSUME NewTargetOnDump, SingleColumnKey
  PROVE  PipelineSpec => []EndsOnTheTable
<1>1. LoopInv /\ TargetInv /\ WalkedInv /\ FilledInv => EndsOnTheTable
  <2>. SUFFICES ASSUME LoopInv, TargetInv, WalkedInv, FilledInv, pc = "returned", NothingRead
                PROVE  /\ run.dump_done
                       /\ call.mark <= frame.to
                       /\ \A k \in Key : target[k] = Image(base, log, k, frame.to)
    BY DEF EndsOnTheTable
  <2>1. run.dump_done
    BY DEF FilledInv
  <2>2. call.mark <= frame.to
    BY DEF LoopInv, CallInv, DumpInv, FrameInv
  <2>3. ASSUME NEW k \in Key PROVE target[k] = Image(base, log, k, frame.to)
    <3>1. Covered(run, k)
      BY <2>1, LoopTypes DEF Covered
    <3>2. Applied(k) = target[k]
      BY DEF Applied, NothingRead
    <3>. QED
      BY <3>1, <3>2, CarriedByWrite, AllAreFirst
  <2>. QED
    BY <2>1, <2>2, <2>3
<1>2. PipelineInit => FilledInv
  BY DEF PipelineInit, Init, LocalsInit, FilledInv
<1>. QED
  BY <1>1, <1>2, FilledStep, WalkedHolds, PTL DEF PipelineSpec
-----------------------------------------------------------------------------
(* What DblogProofs proves of the batches holds of them in the loop.       *)

\* The dump rows of a batch stay current at its window's end once it is written.
WrittenInv == pc = "written" => frame.to \in 0..Len(log) /\ NoStaleDumpRow

\* A batch that is written was one that returned, and its past is fixed.
LEMMA WrittenStep ==
  ASSUME LoopInv, WrittenInv, [PipelineNext]_pipelineVars
  PROVE  WrittenInv'
<1>. SUFFICES ASSUME pc' = "written"
              PROVE  frame'.to \in 0..Len(log') /\ NoStaleDumpRow'
  BY DEF WrittenInv
<1>1. CASE Write
  <2>1. frame.to \in 0..Len(log) /\ NoStaleDumpRow
    BY <1>1 DEF Write, LoopInv, CallInv, DumpInv, FrameInv, NoStaleDumpRow
  <2>. QED
    BY <1>1, <2>1 DEF Write, sourceVars, NoStaleDumpRow
<1>2. CASE SourceNext /\ UNCHANGED <<callVars, loopVars, running>>
  <2>1. /\ frame' = frame /\ frame.to \in 0..Len(log) /\ NoStaleDumpRow
    BY <1>2 DEF callVars, WrittenInv
  <2>2. /\ Len(log) \in Nat /\ Len(log') \in Nat /\ Len(log) <= Len(log')
        /\ \A k, p : p \in 0..Len(log) => Image(base', log', k, p) = Image(base, log, k, p)
    BY <1>2, PastIsFixed, LoopTypes DEF SourceTypeOK
  <2>. QED
    BY <2>1, <2>2 DEF NoStaleDumpRow
<1>3. CASE UNCHANGED pipelineVars
  BY <1>3 DEF pipelineVars, vars, callVars, sourceVars, WrittenInv, NoStaleDumpRow
<1>4. CASE (Proceeds \/ Raises \/ \E n \in ChunkSizes : CallDblog(n)) /\ ~Write
  <2>1. DumpInv /\ [Next]_vars
    BY <1>4, CallIsNotWritten DEF Raises, CallStep, CallDblog, LoopInv, CallInv, Next
  <2>. QED
    BY <2>1, NotWritten
<1>5. CASE \/ Load \/ Save \/ Crash
           \/ \E from \in 1..MaxLog, walked \in BOOLEAN : StateAtLsn(from, walked)
  BY <1>5, LoadAtRest DEF Save, Crash, StateAtLsn
<1>. QED
  BY <1>1, <1>2, <1>3, <1>4, <1>5 DEF PipelineNext, LoopNext

\* Whatever the loop loses, replays or is handed, no batch it writes has a dump
\* row that is older than its window or that the low watermark does not date.
THEOREM LoopRowsAreCurrent == PipelineSpec => [](NoStaleDumpRow /\ DumpRowsDated)
<1>1. PipelineInit => WrittenInv
  BY DEF PipelineInit, Init, LocalsInit, WrittenInv
<1>2. LoopInv /\ WrittenInv => NoStaleDumpRow /\ DumpRowsDated
  <2>1. CASE pc = "written"
    BY <2>1 DEF WrittenInv, DumpRowsDated
  <2>2. CASE pc # "written"
    BY <2>2 DEF LoopInv, CallInv, DumpInv, FrameInv, NoStaleDumpRow, DumpRowsDated
  <2>. QED
    BY <2>1, <2>2
<1>. QED
  BY <1>1, <1>2, WrittenStep, LoopHolds, PTL DEF PipelineSpec
-----------------------------------------------------------------------------
(* The loop implements Replica.                                            *)

Whole == Resumable(saved) /\ saved.dump_done

\* Replica reads a table's history as Pipeline does.
LEMMA SameHistory ==
  /\ Copy!Version = Version /\ Copy!Absent = Absent /\ Copy!OtherTable = OtherTable
  /\ \A b, l, k, p : Copy!Image(b, l, k, p) = Image(b, l, k, p)
BY DEF Copy!Version, Version, Copy!Absent, Absent, Copy!OtherTable, OtherTable,
    Copy!Image, Image, Copy!EventsOf, EventsOf, Copy!Last, Last

\* A written batch is a delivery.
LEMMA WriteDelivers ==
  ASSUME SingleColumnKey, LoopInv, TargetInv, WalkedInv, Write
  PROVE  Copy!Next
<1>1. /\ pc = "returned" /\ at' = frame.to /\ target' = [k \in Key |-> Applied(k)]
      /\ UNCHANGED <<base, log, floor, saved>>
  BY DEF Write, sourceVars
<1>2. /\ frame.to \in 0..Len(log) /\ frame.to >= at
      /\ target' \in [Key -> Version]
  BY <1>1, LoopOfWrite, LoopTypes
     DEF LoopInv, CallInv, DumpInv, FrameInv, ReachedInv, PipelineTypeOK
<1>3. ASSUME NEW k \in Key
      PROVE  \/ Applied(k) = Image(base, log, k, frame.to)
             \/ Applied(k) = Absent /\ target[k] = Absent /\ ~Whole
  <2>1. CASE Whole
    <3>1. saved # None /\ Retained(saved) /\ Covered(saved, k)
      BY <2>1 DEF Whole, Resumable, Retained, Covered
    <3>2. state = saved
      BY <3>1, LoopTypes DEF LoopInv, SavedInv
    <3>. QED
      BY <1>1, <3>1, <3>2, CarriedByWrite, AllAreFirst
  <2>2. CASE ~Whole
    <3>1. TargetExact
      BY DEF TargetInv
    <3>2. CASE Applied(k) = target[k] /\ EventsOf(log, k, frame.from, frame.to) = {}
      <4>1. CASE state = None
        BY <1>1, <2>2, <3>2, <4>1 DEF TargetInv, Empty
      <4>2. CASE state # None
        BY <1>1, <2>2, <3>1, <3>2, <4>2, SinceTheTarget DEF TargetExact
      <4>. QED
        BY <4>1, <4>2
    <3>. QED
      BY <1>1, <3>2, AppliedRow
  <2>. QED
    BY <2>1, <2>2
<1>4. Copy!Deliver(frame.to)
  BY <1>1, <1>2, <1>3, SameHistory DEF Copy!Deliver, Whole, Resumable, Retained
<1>. QED
  BY <1>2, <1>4 DEF Copy!Next

\* A new saved state announces the copy or withdraws it.
LEMMA SavingAnnounces ==
  ASSUME UNCHANGED <<base, log, target, at>>,
         Whole' => \A k \in Key : target[k] = Image(base, log, k, at)
  PROVE  Copy!Next
<1>1. CASE Whole'
  BY <1>1, SameHistory DEF Copy!Next, Copy!Announce, Whole
<1>2. CASE ~Whole'
  BY <1>2 DEF Copy!Next, Copy!Withdraw, Whole
<1>. QED
  BY <1>1, <1>2

\* Every step of the loop is one of the copy, or none.
LEMMA CopyStep ==
  ASSUME NewTargetOnDump, SingleColumnKey, LoopInv, TargetInv, WalkedInv,
         [PipelineNext]_pipelineVars
  PROVE  [Copy!Next]_Copy!replicaVars
<1>0. /\ state \in {saved, None} /\ (state = None => ~Whole)
      /\ floor \in Nat /\ (saved # None => saved.last_lsn \in Nat)
  BY LoopTypes DEF LoopInv, SavedInv, Whole, Resumable, Retained
<1>1. CASE Write
  BY <1>1, WriteDelivers
<1>2. CASE Save
  <2>1. /\ pc = "written" /\ saved' = run /\ UNCHANGED <<base, log, target, at>>
    BY <1>2 DEF Save, sourceVars
  <2>. QED
    BY <2>1, SavingAnnounces, AllAreFirst
       DEF WalkedInv, Carries, Covered, Whole, Resumable, Retained
<1>3. CASE \E from \in 1..MaxLog, walked \in BOOLEAN : StateAtLsn(from, walked)
  <2>1. PICK from \in 1..MaxLog, walked \in BOOLEAN : StateAtLsn(from, walked)
    BY <1>3
  <2>2. /\ walked => TargetWhole
        /\ saved'.chunk_key = 0 /\ saved'.dump_done = walked
        /\ UNCHANGED <<base, log, target, at>>
    BY <2>1 DEF StateAtLsn, sourceVars
  <2>. QED
    BY <2>2, SavingAnnounces DEF TargetWhole, Whole, Resumable, Retained
<1>4. CASE SourceNext /\ UNCHANGED <<callVars, loopVars, running>>
  <2>1. UNCHANGED <<saved, target, at>>
    BY <1>4 DEF loopVars
  <2>2. CASE \E t \in Txns : Commit(t)
    BY <2>1, <2>2 DEF Commit, Copy!Next, Copy!Commit, Resumable, Retained
  <2>3. CASE Capture
    BY <2>1, <2>3 DEF Capture, Copy!replicaVars, Resumable, Retained
  <2>4. ASSUME NEW f \in 1..MaxLog, Cleanup(f)
        PROVE  Copy!Next \/ UNCHANGED Copy!replicaVars
    <3>1. UNCHANGED <<base, log>> /\ floor' = f /\ floor < f /\ f \in Nat
      BY <2>4, MaxLogAssumption DEF Cleanup
    <3>2. Whole' => Whole
      BY <1>0, <2>1, <3>1 DEF Whole, Resumable, Retained
    <3>3. CASE Whole
      <4>1. CASE Whole'
        BY <2>1, <3>1, <3>3, <4>1 DEF Copy!replicaVars, Whole
      <4>2. CASE ~Whole'
        BY <2>1, <3>1, <4>2 DEF Copy!Next, Copy!Withdraw, Whole
      <4>. QED
        BY <4>1, <4>2
    <3>4. CASE ~Whole
      BY <2>1, <3>1, <3>2, <3>4 DEF Copy!replicaVars, Whole
    <3>. QED
      BY <3>3, <3>4
  <2>. QED
    BY <1>4, <2>2, <2>3, <2>4 DEF SourceNext
<1>5. ASSUME NEW n \in ChunkSizes, CallDblog(n)
      PROVE  Copy!Next \/ UNCHANGED Copy!replicaVars
  <2>1. UNCHANGED <<base, log, floor, saved, at>>
    BY <1>5 DEF CallDblog, Begin, sourceVars
  <2>2. CASE state = None
    BY <1>0, <1>5, <2>1, <2>2, SameHistory
       DEF CallDblog, Copy!Next, Copy!Reopen, Empty, Whole, Resumable, Retained
  <2>3. CASE state # None
    BY <1>5, <2>1, <2>3 DEF CallDblog, Copy!replicaVars, Resumable, Retained
  <2>. QED
    BY <2>2, <2>3
<1>6. CASE (Proceeds /\ UNCHANGED <<loopVars, running>>) \/ Raises
  <2>1. UNCHANGED <<base, log, floor, saved, target, at>>
    BY <1>6
       DEF loopVars, Raises, Proceeds, Refused, SeedFloor, SeedOpening, CheckRetention,
           RetentionExpired, LowWatermark, ScanRow, ScanEnd, ScanRefused, HighWatermark,
           AwaitWatermark, ReadMax, NoWindow, ReadWindow, WindowRefused, sourceVars
  <2>. QED
    BY <2>1 DEF Copy!replicaVars, Resumable, Retained
<1>7. CASE Load \/ Crash \/ UNCHANGED pipelineVars
  BY <1>7
     DEF Load, Crash, pipelineVars, vars, sourceVars, loopVars, Copy!replicaVars,
         Resumable, Retained
<1>. QED
  BY <1>1, <1>2, <1>3, <1>4, <1>5, <1>6, <1>7 DEF PipelineNext, LoopNext

\* The loop, with all that can go wrong in it, implements Replica: a copy that
\* moves forward through the table's own history, and is announced complete
\* only when it is.
THEOREM LoopImplementsReplica ==
  ASSUME NewTargetOnDump, SingleColumnKey
  PROVE  PipelineSpec => KeepsReplica
<1>1. PipelineInit => Copy!Init
  BY SameHistory DEF PipelineInit, Init, SourceInit, Copy!Init, Empty, Resumable, Retained
<1>2. LoopInv /\ TargetInv /\ WalkedInv /\ [PipelineNext]_pipelineVars
        => [Copy!Next]_Copy!replicaVars
  BY CopyStep
<1>. QED
  BY <1>1, <1>2, WalkedHolds, PTL DEF PipelineSpec, KeepsReplica, Copy!Spec
=============================================================================
