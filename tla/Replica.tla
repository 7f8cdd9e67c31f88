------------------------------ MODULE Replica ------------------------------
(***************************************************************************)
(* What a caller of dblog() ends up with, with no mention of windows,      *)
(* chunks, watermarks or saved states: a copy of the table that moves      *)
(* through the table's own history, forward only, gaining rows as it goes. *)
(***************************************************************************)
EXTENDS History

VARIABLES
  base, log,  \* the table and its change log
  target,     \* the copy: a version of each row
  at,         \* the LSN as of which its rows are the table's
  whole       \* TRUE: the copy is announced to be complete

replicaVars == <<base, log, target, at, whole>>

Init ==
  /\ base \in SUBSET Key
  /\ log = <<OtherTable>>
  /\ target = [k \in Key |-> Absent]
  /\ at = 0
  /\ whole = FALSE

Commit ==
  /\ \E t \in Txns : log' = Append(log, t)
  /\ UNCHANGED <<base, target, at, whole>>

\* The copy moves on to the table as of p.  Its rows become the table's, gone
\* where the table's are; a row it does not have may stay missing, until the
\* copy has been announced to be complete.
Deliver(p) ==
  /\ p >= at
  /\ at' = p
  /\ target' \in [Key -> Version]
  /\ \A k \in Key :
       \/ target'[k] = Image(base, log, k, p)
       \/ target'[k] = Absent /\ target[k] = Absent /\ ~whole
  /\ UNCHANGED <<base, log, whole>>

\* The copy is announced to be complete only when it is.
Announce ==
  /\ \A k \in Key : target[k] = Image(base, log, k, at)
  /\ whole' = TRUE
  /\ UNCHANGED <<base, log, target, at>>

\* The position is lost: the copy can no longer be kept up.
Withdraw ==
  /\ whole' = FALSE
  /\ UNCHANGED <<base, log, target, at>>

\* And another is begun.
Reopen ==
  /\ ~whole
  /\ target' = [k \in Key |-> Absent]
  /\ UNCHANGED <<base, log, at, whole>>

Next ==
  \/ Commit
  \/ \E p \in 0..Len(log) : Deliver(p)
  \/ Announce
  \/ Withdraw
  \/ Reopen

Spec == Init /\ [][Next]_replicaVars
=============================================================================
