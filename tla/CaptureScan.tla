---------------------------- MODULE CaptureScan ----------------------------
(***************************************************************************)
(* await_watermark against the capture job it watches.                     *)
(*                                                                         *)
(* The capture job scans the transaction log over and over.  A scan copies *)
(* what it finds until the log has no more and then leaves a row in        *)
(* sys.dm_cdc_log_scan_sessions; consecutive empty scans share one row,    *)
(* whose start_time stays the first one's.  await_watermark polls the      *)
(* newest row and concludes from its times that the job has passed a       *)
(* watermark read off the same clock.                                      *)
(*                                                                         *)
(* Only the order of a time and the awaited watermark matters, so a time   *)
(* is one of: earlier than the watermark's clock reading, equal to it, or  *)
(* later.  Taking a watermark re-expresses the times on record.            *)
(***************************************************************************)
EXTENDS Integers

CONSTANTS
  MaxCommits,        \* bound: how many transactions are ever committed
  InstantEmptyScan   \* TRUE: an empty scan finds the log's end and takes its
                     \* end_time with no commit in between

ASSUME MaxCommitsAssumption == MaxCommits \in Nat

ASSUME InstantEmptyScanAssumption == InstantEmptyScan \in BOOLEAN

VARIABLES
  committed,  \* how many transactions the database has committed
  captured,   \* how many of them the capture job has copied
  now,        \* the source's clock
  scan,       \* the scan that is running, if any
  session,    \* the newest row of sys.dm_cdc_log_scan_sessions
  mark,       \* committed, as it was when the awaited watermark was taken
  wait        \* await_watermark: "idle", "waiting" or "passed"

vars == <<committed, captured, now, scan, session, mark, wait>>

Earlier == 0
Equal == 1
Later == 2
Time == {Earlier, Equal, Later}

NoScan == [phase |-> "off", start |-> Earlier, found |-> FALSE]

Init ==
  /\ committed = 0
  /\ captured = 0
  /\ now = Equal
  /\ scan = NoScan
  /\ session = [start |-> Earlier, end |-> Earlier, empty |-> FALSE]
  /\ mark = 0
  /\ wait = "idle"
-----------------------------------------------------------------------------
(* The database and its clock.                                             *)

Commit ==
  /\ committed < MaxCommits
  /\ committed' = committed + 1
  /\ UNCHANGED <<captured, now, scan, session, mark, wait>>

Tick ==
  /\ now < Later
  /\ now' = now + 1
  /\ UNCHANGED <<committed, captured, scan, session, mark, wait>>
-----------------------------------------------------------------------------
(* The capture job.                                                        *)

ScanBegin ==
  /\ scan.phase = "off"
  /\ scan' = [phase |-> "reading", start |-> now, found |-> FALSE]
  /\ UNCHANGED <<committed, captured, now, session, mark, wait>>

ScanCopy ==
  /\ scan.phase = "reading"
  /\ captured < committed
  /\ captured' = captured + 1
  /\ scan' = [scan EXCEPT !.found = TRUE]
  /\ UNCHANGED <<committed, now, session, mark, wait>>

\* The scan has read to the end of the log; its session row comes later.
ScanDrained ==
  /\ scan.phase = "reading"
  /\ captured = committed
  /\ InstantEmptyScan => scan.found
  /\ scan' = [scan EXCEPT !.phase = "stamping"]
  /\ UNCHANGED <<committed, captured, now, session, mark, wait>>

\* The scan is over and its row is there to be read.
ScanEnd ==
  /\ \/ scan.phase = "stamping"
     \/ /\ scan.phase = "reading"
        /\ captured = committed
        /\ InstantEmptyScan /\ ~scan.found
  /\ session' = IF session.empty /\ ~scan.found
                THEN [session EXCEPT !.end = now]
                ELSE [start |-> scan.start, end |-> now, empty |-> ~scan.found]
  /\ scan' = NoScan
  /\ UNCHANGED <<committed, captured, now, mark, wait>>

CaptureJob == ScanBegin \/ ScanCopy \/ ScanDrained \/ ScanEnd
-----------------------------------------------------------------------------
(* The library.                                                            *)

\* A time as it stands to a watermark read off the clock now: a time of the
\* present tick equals it, unless the clock has moved on since.
Against(time, sameTick) == IF sameTick /\ time = now THEN Equal ELSE Earlier

\* Bug for the mutants: the client's clock, which runs ahead of the source's
\* and puts a commit still to come before the watermark.
TakeWatermarkClientClock ==
  /\ wait # "waiting"
  /\ now' = Equal
  /\ mark' = committed + 1
  /\ wait' = "waiting"
  /\ UNCHANGED <<committed, captured, scan, session>>

\* watermark(), then await_watermark() begins.
TakeWatermark ==
  /\ wait # "waiting"
  /\ \E sameTick \in BOOLEAN :
       /\ scan' = [scan EXCEPT !.start = Against(@, sameTick)]
       /\ session' = [session EXCEPT !.start = Against(@, sameTick),
                                     !.end = Against(@, sameTick)]
  /\ now' = Equal
  /\ mark' = committed
  /\ wait' = "waiting"
  /\ UNCHANGED <<committed, captured>>

\* Bugs for the mutants: only the first signal; a clock reading of the same
\* tick taken for a later one.
CapturePassedOneSignal == session.start = Later

CapturePassedSameTick ==
  \/ session.start >= Equal
  \/ session.empty /\ session.end >= Equal

\* _capture_passed: a scan began after the watermark, or an empty one ended
\* after it.
CapturePassed ==
  \/ session.start > Equal
  \/ session.empty /\ session.end > Equal

Poll ==
  /\ wait = "waiting"
  /\ CapturePassed
  /\ wait' = "passed"
  /\ UNCHANGED <<committed, captured, now, scan, session, mark>>

\* The deadline goes by between two polls, whatever the capture job has done.
TimeOut ==
  /\ wait = "waiting"
  /\ wait' = "idle"
  /\ UNCHANGED <<committed, captured, now, scan, session, mark>>

Next ==
  \/ Commit \/ Tick \/ CaptureJob
  \/ TakeWatermark \/ Poll \/ TimeOut

Spec == Init /\ [][Next]_vars

\* The capture job and the clock never stop, and the loop keeps polling.
Fairness ==
  /\ WF_vars(Tick)
  /\ WF_vars(ScanBegin) /\ WF_vars(ScanCopy)
  /\ WF_vars(ScanDrained) /\ WF_vars(ScanEnd)
  /\ WF_vars(Poll)

FairSpec == Spec /\ Fairness
-----------------------------------------------------------------------------
TypeOK ==
  /\ committed \in Nat
  /\ captured \in 0..committed
  /\ now \in Time
  /\ scan \in [phase : {"off", "reading", "stamping"}, start : Time, found : BOOLEAN]
  /\ session \in [start : Time, end : Time, empty : BOOLEAN]
  /\ mark \in 0..committed
  /\ wait \in {"idle", "waiting", "passed"}

\* await_watermark's promise in base.py: once it has returned, a window that
\* closes now holds every change committed before the watermark was taken.
AwaitSound == wait = "passed" => mark <= captured

\* The loop refines the promise stated in Barrier.
Promise == INSTANCE Barrier
PromiseKept == Promise!Spec

\* While the capture job runs, a wait comes to an end: on an idle database
\* too, where every scan is empty and the session row's start_time is frozen.
WaitEnds == wait = "waiting" ~> wait # "waiting"
=============================================================================
