------------------------ MODULE LakeOnCaptureProofs ------------------------
(***************************************************************************)
(* The loop over await_watermark's polling is the loop over the promise,   *)
(* so what LakeProofs, PipelineProofs and DblogProofs prove holds of the   *)
(* whole.                                                                  *)
(***************************************************************************)
EXTENDS LakeOnCapture, LakeProofs

\* What CaptureScanProofs proves of the capture job, of this one.
Barriers == INSTANCE CaptureScanProofs WITH committed <- Len(log), MaxCommits <- MaxLog

\* While the call waits, it is for its own high watermark.
WaitInv == pc = "await" => wait = "waiting" /\ mark = call.mark

OnCaptureInv == LoopInv /\ Barriers!BarrierInv /\ WaitInv

\* The capture job of CaptureScanProofs is the one that is composed here.
LEMMA SameJob == [Job!Next]_Job!vars => [Barriers!Next]_Barriers!vars
BY DEF Job!Next, Job!vars, Job!Commit, Job!Tick, Job!CaptureJob, Job!ScanBegin,
   Job!ScanCopy, Job!ScanDrained, Job!ScanEnd, Job!TakeWatermark, Job!Poll, Job!TimeOut,
   Job!NoScan, Job!Against, Job!CapturePassed, Job!Earlier, Job!Equal, Job!Later,
   Barriers!Next, Barriers!vars, Barriers!Commit, Barriers!Tick, Barriers!CaptureJob,
   Barriers!ScanBegin, Barriers!ScanCopy, Barriers!ScanDrained, Barriers!ScanEnd,
   Barriers!TakeWatermark, Barriers!Poll, Barriers!TimeOut, Barriers!NoScan,
   Barriers!Against, Barriers!CapturePassed, Barriers!Earlier, Barriers!Equal,
   Barriers!Later

\* The job goes on keeping the barrier.
LEMMA BarrierKept ==
  ASSUME InstantEmptyScan, Barriers!BarrierInv, [Job!Next]_Job!vars
  PROVE  Barriers!BarrierInv'
<1>1. Barriers!MaxCommitsAssumption /\ Barriers!InstantEmptyScanAssumption
  BY MaxLogAssumption DEF Barriers!MaxCommitsAssumption, Barriers!InstantEmptyScanAssumption
<1>. QED
  BY <1>1, SameJob, Barriers!BarrierStep
     DEF Barriers!MaxCommitsAssumption, Barriers!InstantEmptyScanAssumption

\* A wait that CapturePassed ends has its watermark captured.
LEMMA PolledIsPassed ==
  ASSUME Barriers!BarrierInv, Job!Poll
  PROVE  mark <= captured
BY DEF Barriers!BarrierInv, Barriers!PassedInv, Barriers!TypeOK, Barriers!Later,
   Barriers!Time, Barriers!Earlier, Barriers!Equal, Job!Poll, Job!CapturePassed, Job!Equal

\* Every step is one the capture job can see: a commit, one of its own, or
\* nothing.
LEMMA StepOfTheJob ==
  ASSUME LoopInv, [OnCaptureNext]_onCaptureVars
  PROVE  [Job!Next]_Job!vars
<1>0. Len(log) \in Nat /\ log \in Seq(Transaction)
  BY LoopTypes DEF SourceTypeOK
<1>1. CASE JobCopies
  BY <1>1 DEF JobCopies, Job!Next, Job!CaptureJob
<1>2. CASE Scan
  BY <1>2 DEF Scan, Job!Next, Job!CaptureJob
<1>3. CASE Mark
  BY <1>3 DEF Mark, Job!Next
<1>4. CASE Await
  BY <1>4 DEF Await, Job!Next
<1>5. CASE Dies
  BY <1>5 DEF Dies, Crash, Job!Next, Job!vars, jobVars, sourceVars
<1>6. ASSUME NEW t \in Txns, Commit(t), UNCHANGED jobVars
      PROVE  Job!Commit
  <2>1. log' = Append(log, t) /\ Len(log') = Len(log) + 1
    BY <1>0, <1>6, TxnsAssumption DEF Commit
  <2>. QED
    BY <1>6, <2>1 DEF Commit, Job!Commit, jobVars
<1>7. ASSUME UNCHANGED <<log, captured, jobVars>>
      PROVE  UNCHANGED Job!vars
  BY <1>7 DEF Job!vars, jobVars
<1>8. CASE Apart /\ UNCHANGED jobVars
  <2>1. CASE \E t \in Txns : Commit(t)
    BY <1>6, <1>8, <2>1 DEF Job!Next
  <2>2. CASE ~\E t \in Txns : Commit(t)
    <3>1. UNCHANGED <<log, captured>>
      BY <1>8, <2>2
         DEF Apart, Asks, Load, Raises, Refused, Cleanup, CallDblog, Begin, SeedFloor,
             SeedOpening, CheckRetention, RetentionExpired, LowWatermark, ScanRow,
             ScanEnd, ScanRefused, ReadMax, NoWindow, ReadWindow, WindowRefused, Write,
             Save, StateAtLsn, sourceVars
    <3>. QED
      BY <1>7, <1>8, <3>1
  <2>. QED
    BY <2>1, <2>2
<1>9. CASE UNCHANGED onCaptureVars
  BY <1>7, <1>9 DEF onCaptureVars, lakeVars, pipelineVars, vars, sourceVars, jobVars
<1>. QED
  BY <1>1, <1>2, <1>3, <1>4, <1>5, <1>8, <1>9 DEF OnCaptureNext

\* Every step is one of the loop over the promise.
LEMMA StepOfLake ==
  ASSUME OnCaptureInv, [OnCaptureNext]_onCaptureVars
  PROVE  [LakeNext]_lakeVars
<1>1. CASE JobCopies
  BY <1>1 DEF JobCopies, callerVars, LakeNext, SourceNext
<1>2. CASE Scan
  BY <1>2 DEF Scan
<1>3. CASE Mark
  BY <1>3 DEF Mark, callerVars, LakeNext, Proceeds
<1>4. CASE Await
  <2>1. call.mark <= captured
    BY <1>4, PolledIsPassed DEF Await, OnCaptureInv, WaitInv
  <2>2. AwaitWatermark
    BY <1>4, <2>1 DEF Await, AwaitWatermark
  <2>. QED
    BY <1>4, <2>2 DEF Await, callerVars, LakeNext, Proceeds
<1>5. CASE Dies
  BY <1>5 DEF Dies, LakeNext
<1>6. CASE Apart
  BY <1>6 DEF Apart, Asks, LakeNext, SourceNext, Proceeds
<1>7. CASE UNCHANGED onCaptureVars
  BY <1>7 DEF onCaptureVars
<1>. QED
  BY <1>1, <1>2, <1>3, <1>4, <1>5, <1>6, <1>7 DEF OnCaptureNext

\* While it waits a call keeps the watermark it waits for.
LEMMA WaitStep ==
  ASSUME OnCaptureInv, [OnCaptureNext]_onCaptureVars
  PROVE  WaitInv'
<1>0. call \in Locals
  BY LoopTypes DEF OnCaptureInv
<1>. USE DEF WaitInv, OnCaptureInv
<1>1. CASE JobCopies \/ Scan
  BY <1>1 DEF JobCopies, Scan, callVars, lakeVars, pipelineVars, vars, Job!ScanCopy,
     Job!Tick, Job!ScanBegin, Job!ScanDrained, Job!ScanEnd
<1>2. CASE Mark
  BY <1>0, <1>2 DEF Mark, HighWatermark, Job!TakeWatermark, Locals
<1>3. CASE Await
  BY <1>3 DEF Await
<1>4. CASE Dies
  BY <1>4 DEF Dies, Crash
<1>5. CASE (Apart \/ UNCHANGED lakeVars) /\ UNCHANGED jobVars
  <2>1. UNCHANGED <<pc, call>> \/ pc' # "await"
    BY <1>5
       DEF Apart, Asks, Load, Raises, Refused, CallDblog, Begin, SeedFloor, SeedOpening,
           CheckRetention, RetentionExpired, LowWatermark, ScanRow, ScanEnd,
           ScanRefused, ReadMax, NoWindow, ReadWindow, WindowRefused, Raise, Batch,
           Write, Save, StateAtLsn, callVars, lakeVars, pipelineVars, vars
  <2>. QED
    BY <1>5, <2>1 DEF jobVars
<1>. QED
  BY <1>1, <1>2, <1>3, <1>4, <1>5 DEF OnCaptureNext, onCaptureVars

\* Under the assumption on empty scans, the loop over the scan sessions that
\* its calls poll implements the loop over the promise.
THEOREM PollingWillDo ==
  ASSUME InstantEmptyScan
  PROVE  OnCaptureSpec => ImplementsLake
<1>1. OnCaptureInit => LakeInit /\ OnCaptureInv
  <2>. SUFFICES ASSUME OnCaptureInit PROVE LakeInit /\ OnCaptureInv
    OBVIOUS
  <2>1. LoopInv
    BY LoopInit DEF OnCaptureInit, LakeInit
  <2>2. Len(log) = 1 /\ captured = 1 /\ pc = "rest"
    BY DEF OnCaptureInit, LakeInit, PipelineInit, Init, SourceInit, LocalsInit
  <2>3. Barriers!BarrierInv
    BY <2>2 DEF OnCaptureInit, Job!Equal, Job!Earlier, Job!NoScan, Barriers!BarrierInv,
       Barriers!TypeOK, Barriers!PassedInv, Barriers!Time, Barriers!Earlier,
       Barriers!Equal, Barriers!Later
  <2>. QED
    BY <2>1, <2>2, <2>3 DEF OnCaptureInit, OnCaptureInv, WaitInv
<1>2. OnCaptureInv /\ [OnCaptureNext]_onCaptureVars => OnCaptureInv' /\ [LakeNext]_lakeVars
  <2>. SUFFICES ASSUME OnCaptureInv, [OnCaptureNext]_onCaptureVars
                PROVE  OnCaptureInv' /\ [LakeNext]_lakeVars
    OBVIOUS
  <2>1. [LakeNext]_lakeVars
    BY StepOfLake
  <2>2. LoopInv'
    BY <2>1, StepOfPipeline, LoopStep DEF OnCaptureInv
  <2>3. Barriers!BarrierInv'
    BY StepOfTheJob, BarrierKept DEF OnCaptureInv
  <2>. QED
    BY <2>1, <2>2, <2>3, WaitStep DEF OnCaptureInv
<1>. QED
  BY <1>1, <1>2, PTL DEF OnCaptureSpec, ImplementsLake, LakeSpec
-----------------------------------------------------------------------------
(* What that gives of the whole.                                           *)

\* No stale dump row gets past the scan sessions, for any key.
THEOREM PolledRowsAreCurrent ==
  ASSUME InstantEmptyScan
  PROVE  OnCaptureSpec => [](NoStaleDumpRow /\ DumpRowsDated)
BY PollingWillDo, LakeIsPipeline, LoopRowsAreCurrent, PTL DEF ImplementsLake

\* A caller that crashes, replays and polls keeps a true copy of the table.
THEOREM PolledLoopImplementsReplica ==
  ASSUME InstantEmptyScan, NewTargetOnDump, SingleColumnKey
  PROVE  OnCaptureSpec => KeepsReplica
BY PollingWillDo, LakeIsPipeline, LoopImplementsReplica, PTL DEF ImplementsLake

\* And it ends on a batch with no frame only where that copy is whole and is
\* what the capture job had captured.
THEOREM PolledLoopEndsOnTheTable ==
  ASSUME InstantEmptyScan, NewTargetOnDump, SingleColumnKey
  PROVE  OnCaptureSpec => []EndsOnTheTable
BY PollingWillDo, LakeIsPipeline, LoopEndsOnTheTable, PTL DEF ImplementsLake

\* With a key of several columns it still has the first row of every leading
\* key that its saved state says is walked.
THEOREM PolledFirstsAreComplete ==
  ASSUME InstantEmptyScan, NewTargetOnDump
  PROVE  OnCaptureSpec => []FirstsComplete
BY PollingWillDo, LakeIsPipeline, FirstsAreComplete, PTL DEF ImplementsLake

\* And one that appends reads the table back by start_lsn.
THEOREM PolledLakeIsCurrent ==
  ASSUME InstantEmptyScan, NewTargetOnDump, SingleColumnKey
  PROVE  OnCaptureSpec => []NewestIsCurrent
BY PollingWillDo, LakeIsCurrent, PTL DEF ImplementsLake
=============================================================================
