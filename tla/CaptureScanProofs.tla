------------------------- MODULE CaptureScanProofs -------------------------
(***************************************************************************)
(* await_watermark keeps its promise, for any number of commits, as long   *)
(* as an empty scan takes its end_time at the moment it finds the log's    *)
(* end.                                                                    *)
(***************************************************************************)
EXTENDS CaptureScan, TLAPS

\* A scan that began after the watermark and has drained the log, or a session
\* row that CapturePassed accepts, means the job is past the watermark.
PassedInv ==
  /\ scan.phase = "stamping" /\ scan.start = Later => mark <= captured
  /\ session.start = Later => mark <= captured
  /\ session.empty /\ session.end = Later => mark <= captured
  /\ wait = "passed" => mark <= captured
  /\ scan.phase = "stamping" => scan.found

BarrierInv == TypeOK /\ PassedInv

\* Before the first watermark nothing has passed one.
LEMMA BarrierInit == Init => BarrierInv
BY DEF Init, BarrierInv, TypeOK, PassedInv, NoScan, Time, Earlier, Equal, Later

\* A session row that shows a time past the watermark was written by a scan that
\* read to the log's end after it, whatever scans, commits and ticks come between.
LEMMA BarrierStep ==
  ASSUME InstantEmptyScan
  PROVE  BarrierInv /\ [Next]_vars => BarrierInv'
<1>. SUFFICES ASSUME BarrierInv, [Next]_vars PROVE BarrierInv'
  OBVIOUS
<1>. USE DEF BarrierInv, TypeOK, PassedInv, Time, Earlier, Equal, Later
<1>1. CASE Commit
  BY <1>1 DEF Commit
<1>2. CASE Tick
  BY <1>2 DEF Tick
<1>3. CASE ScanBegin
  BY <1>3 DEF ScanBegin
<1>4. CASE ScanCopy
  <2>1. /\ scan.phase = "reading" /\ captured < committed /\ captured' = captured + 1
        /\ scan' = [scan EXCEPT !.found = TRUE]
        /\ UNCHANGED <<committed, now, session, mark, wait>>
    BY <1>4 DEF ScanCopy
  <2>2. scan'.phase = "reading"
    BY <2>1
  <2>3. TypeOK'
    <3>1. captured' \in 0..committed'
      BY <2>1
    <3>2. scan' \in [phase : {"off", "reading", "stamping"}, start : Time, found : BOOLEAN]
      BY <2>1
    <3>. QED
      BY <2>1, <3>1, <3>2
  <2>4. mark <= captured => mark' <= captured'
    BY <2>1
  <2>. QED
    BY <2>1, <2>2, <2>3, <2>4
<1>5. CASE ScanDrained
  BY <1>5 DEF ScanDrained
<1>6. CASE ScanEnd
  <2>1. TypeOK'
    BY <1>6 DEF ScanEnd, NoScan
  <2>2. /\ UNCHANGED <<committed, captured, now, mark, wait>>
        /\ scan'.phase = "off"
    BY <1>6 DEF ScanEnd, NoScan
  <2>3. CASE scan.found
    <3>1. scan.phase = "stamping"
      BY <1>6, <2>3 DEF ScanEnd
    <3>2. session' = [start |-> scan.start, end |-> now, empty |-> FALSE]
      BY <1>6, <2>3 DEF ScanEnd
    <3>3. session'.start = scan.start /\ ~session'.empty
      BY <3>2
    <3>4. scan.start = Later => mark <= captured
      BY <3>1
    <3>. QED
      BY <2>1, <2>2, <3>3, <3>4
  <2>4. CASE ~scan.found
    <3>1. captured = committed
      BY <1>6, <2>4 DEF ScanEnd
    <3>2. mark' <= captured'
      BY <2>2, <3>1
    <3>3. scan'.phase # "stamping"
      BY <2>2
    <3>. QED
      BY <2>1, <3>2, <3>3
  <2>. QED
    BY <2>3, <2>4
<1>7. CASE TakeWatermark
  <2>1. PICK sameTick \in BOOLEAN :
          /\ scan' = [scan EXCEPT !.start = Against(@, sameTick)]
          /\ session' = [session EXCEPT !.start = Against(@, sameTick),
                                        !.end = Against(@, sameTick)]
    BY <1>7 DEF TakeWatermark
  <2>2. \A time : Against(time, sameTick) \in {Earlier, Equal}
    BY DEF Against
  <2>3. /\ scan'.start \in {Earlier, Equal} /\ scan'.phase = scan.phase
        /\ scan'.found = scan.found /\ scan' \in [phase : {"off", "reading", "stamping"},
                                                 start : Time, found : BOOLEAN]
    BY <2>1, <2>2
  <2>4. /\ session'.start \in {Earlier, Equal} /\ session'.end \in {Earlier, Equal}
        /\ session' \in [start : Time, end : Time, empty : BOOLEAN]
    BY <2>1, <2>2
  <2>5. /\ now' = Equal /\ mark' = committed /\ wait' = "waiting"
        /\ UNCHANGED <<committed, captured>>
    BY <1>7 DEF TakeWatermark
  <2>6. TypeOK'
    BY <2>3, <2>4, <2>5
  <2>7. PassedInv'
    BY <2>3, <2>4, <2>5
  <2>. QED
    BY <2>6, <2>7
<1>8. CASE Poll
  BY <1>8 DEF Poll, CapturePassed
<1>9. CASE TimeOut
  BY <1>9 DEF TimeOut
<1>10. CASE UNCHANGED vars
  BY <1>10 DEF vars
<1>. QED
  BY <1>1, <1>2, <1>3, <1>4, <1>5, <1>6, <1>7, <1>8, <1>9, <1>10 DEF Next, CaptureJob

\* The waits, the scans and the session row keep their types: no wait is ever on
\* a watermark the database has not reached.
THEOREM TypeCorrect ==
  ASSUME InstantEmptyScan
  PROVE  Spec => []TypeOK
<1>1. BarrierInv => TypeOK
  BY DEF BarrierInv
<1>. QED
  BY <1>1, BarrierInit, BarrierStep, PTL DEF Spec

\* Once await_watermark has returned, everything committed before the watermark
\* was taken can be read from the change tables.
THEOREM AwaitIsSound ==
  ASSUME InstantEmptyScan
  PROVE  Spec => []AwaitSound
<1>1. BarrierInv => AwaitSound
  BY DEF BarrierInv, PassedInv, AwaitSound
<1>. QED
  BY <1>1, BarrierInit, BarrierStep, PTL DEF Spec

\* Polling the scan sessions implements the promise that dblog() relies on.
THEOREM PromiseIsKept ==
  ASSUME InstantEmptyScan
  PROVE  Spec => PromiseKept
<1>1. Init => Promise!Init
  BY DEF Init, Promise!Init
<1>2. BarrierInv /\ [Next]_vars => [Promise!Next]_Promise!barrierVars
  <2>. SUFFICES ASSUME BarrierInv, [Next]_vars
                PROVE  Promise!Next \/ UNCHANGED <<committed, captured, mark, wait>>
    BY DEF Promise!barrierVars
  <2>. USE DEF Promise!Next
  <2>1. CASE Commit
    BY <2>1 DEF Commit, Promise!Commit
  <2>2. CASE Tick \/ ScanBegin \/ ScanDrained \/ ScanEnd \/ UNCHANGED vars
    BY <2>2 DEF Tick, ScanBegin, ScanDrained, ScanEnd, vars
  <2>3. CASE ScanCopy
    BY <2>3 DEF ScanCopy, Promise!Capture
  <2>4. CASE TakeWatermark
    BY <2>4 DEF TakeWatermark, Promise!TakeWatermark
  <2>5. CASE Poll
    <3>1. mark <= captured
      BY <2>5 DEF Poll, CapturePassed, BarrierInv, TypeOK, PassedInv,
         Time, Earlier, Equal, Later
    <3>. QED
      BY <2>5, <3>1 DEF Poll, Promise!Return
  <2>6. CASE TimeOut
    BY <2>6 DEF TimeOut, Promise!RaiseTimeout
  <2>. QED
    BY <2>1, <2>2, <2>3, <2>4, <2>5, <2>6 DEF Next, CaptureJob
<1>. QED
  BY <1>1, <1>2, BarrierInit, BarrierStep, PTL DEF Spec, PromiseKept, Promise!Spec
=============================================================================
