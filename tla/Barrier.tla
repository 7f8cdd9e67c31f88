------------------------------ MODULE Barrier ------------------------------
(***************************************************************************)
(* What await_watermark promises, and all that the dblog algorithm relies  *)
(* on: once it returns, the capture job has copied every transaction that  *)
(* was committed when the awaited watermark was taken.  Nothing is said of *)
(* scan sessions, clocks or polls; CaptureScan is how the promise is kept. *)
(***************************************************************************)
EXTENDS Integers

VARIABLES
  committed,  \* how many transactions the database has committed
  captured,   \* how many of them the capture job has copied
  mark,       \* committed, as it was when the awaited watermark was taken
  wait        \* "idle", "waiting" or "passed"

barrierVars == <<committed, captured, mark, wait>>

Init ==
  /\ committed \in Nat
  /\ captured = committed
  /\ mark = 0
  /\ wait = "idle"

Commit == committed' = committed + 1 /\ UNCHANGED <<captured, mark, wait>>

Capture ==
  /\ captured < committed
  /\ captured' = captured + 1
  /\ UNCHANGED <<committed, mark, wait>>

TakeWatermark ==
  /\ wait # "waiting"
  /\ mark' = committed
  /\ wait' = "waiting"
  /\ UNCHANGED <<committed, captured>>

Return ==
  /\ wait = "waiting"
  /\ mark <= captured
  /\ wait' = "passed"
  /\ UNCHANGED <<committed, captured, mark>>

RaiseTimeout ==
  /\ wait = "waiting"
  /\ wait' = "idle"
  /\ UNCHANGED <<committed, captured, mark>>

Next == Commit \/ Capture \/ TakeWatermark \/ Return \/ RaiseTimeout

Spec == Init /\ [][Next]_barrierVars
=============================================================================
