--------------------------- MODULE LakeOnCapture ---------------------------
(***************************************************************************)
(* The whole of it: the README's loop around dblog(), over the connector   *)
(* it really has.  The wait on the high watermark is await_watermark's     *)
(* polling, against the capture job whose scans are also what moves the    *)
(* log that the call reads next; a process may die while it polls.         *)
(***************************************************************************)
EXTENDS Lake

CONSTANT InstantEmptyScan  \* as in CaptureScan

VARIABLES now, scan, session, mark, wait  \* as in CaptureScan

jobVars == <<now, scan, session, mark, wait>>

\* What is the caller's alone.
callerVars == <<loopVars, running, lake>>

onCaptureVars == <<lakeVars, jobVars>>

Job == INSTANCE CaptureScan WITH committed <- Len(log), MaxCommits <- MaxLog

OnCaptureInit ==
  /\ LakeInit
  /\ now = Job!Equal
  /\ scan = Job!NoScan
  /\ session = [start |-> Job!Earlier, end |-> Job!Earlier, empty |-> FALSE]
  /\ mark = 0
  /\ wait = "idle"
-----------------------------------------------------------------------------
(* The steps that the capture job and the library take together.           *)

\* The capture job's scan copies a transaction.
JobCopies == Capture /\ UNCHANGED <<callVars, callerVars>> /\ Job!ScanCopy

\* The rest of what the job does moves nothing the call reads but the times.
Scan ==
  /\ UNCHANGED lakeVars
  /\ Job!Tick \/ Job!ScanBegin \/ Job!ScanDrained \/ Job!ScanEnd

Mark == HighWatermark /\ UNCHANGED callerVars /\ Job!TakeWatermark

Await ==
  /\ pc = "await"
  /\ pc' = "max"
  /\ UNCHANGED <<sourceVars, state, run, call, frame, callerVars>>
  /\ Job!Poll

\* The process ends: by a lost connection or an exception, which is what the
\* TimeoutError of a wait is.
Dies ==
  /\ Crash /\ UNCHANGED lake
  /\ IF pc = "await" THEN Job!TimeOut ELSE UNCHANGED jobVars
-----------------------------------------------------------------------------
(* And all the others.                                                     *)

\* A call that asks the source, or its own locals, but not the capture job.
Asks ==
  \/ SeedFloor \/ SeedOpening \/ CheckRetention \/ RetentionExpired
  \/ LowWatermark \/ (\E k \in Key : ScanRow(k)) \/ ScanEnd
  \/ ReadMax \/ NoWindow \/ ReadWindow

Apart ==
  \/ \E n \in ChunkSizes :
       /\ CallDblog(n)
       /\ lake' = IF state = None /\ NewTargetOnDump THEN {} ELSE lake
  \/ Write /\ lake' = lake \cup FrameRows
  \/ /\ \/ ((\E t \in Txns : Commit(t)) \/ (\E f \in 1..MaxLog : Cleanup(f)))
             /\ UNCHANGED <<callVars, loopVars, running>>
        \/ Load
        \/ Asks /\ UNCHANGED <<loopVars, running>>
        \/ Raises
        \/ Save
        \/ \E from \in 1..MaxLog, walked \in BOOLEAN : StateAtLsn(from, walked)
     /\ UNCHANGED lake

OnCaptureNext ==
  \/ JobCopies \/ Scan \/ Mark \/ Await \/ Dies
  \/ Apart /\ UNCHANGED jobVars

OnCaptureSpec == OnCaptureInit /\ [][OnCaptureNext]_onCaptureVars
-----------------------------------------------------------------------------
\* Polled for or promised, the wait makes no difference to a caller: what it is
\* handed, writes and saves is what it could have over Barrier.
ImplementsLake == LakeSpec
=============================================================================
