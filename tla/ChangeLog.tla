----------------------------- MODULE ChangeLog -----------------------------
(***************************************************************************)
(* The source as the dblog algorithm sees it: a table that commits         *)
(* transactions, the capture job that copies them into the change tables   *)
(* some time later, and the cleanup job that deletes the oldest of them.   *)
(* None of it is code of the library; it is what connector.py reads.       *)
(***************************************************************************)
EXTENDS History

CONSTANT MaxLog   \* bound: how many transactions the log may come to hold

ASSUME MaxLogAssumption == MaxLog \in Nat \ {0}

VARIABLES
  base,      \* the rows that were in the table before the log starts
  log,       \* every transaction committed so far, by LSN
  captured,  \* fn_cdc_get_max_lsn: the last LSN the capture job has copied
  floor      \* fn_cdc_get_min_lsn: the oldest LSN still retained

sourceVars == <<base, log, captured, floor>>

Row(k) == Image(base, log, k, Len(log))

Live == {k \in Key : Row(k) # Absent}

\* The database has a log, so get_max_lsn answers.  A floor of 2 is a capture
\* instance enabled a moment ago, whose start LSN the capture job has not
\* reached.
SourceInit ==
  /\ base \in SUBSET Key
  /\ log = <<OtherTable>>
  /\ captured = 1
  /\ floor \in {1, 2}

Commit(t) ==
  /\ Len(log) < MaxLog
  /\ t.del \subseteq Live
  /\ log' = Append(log, t)
  /\ UNCHANGED <<base, captured, floor>>

\* The capture job copies the next transaction into the change tables.
Capture ==
  /\ captured < Len(log)
  /\ captured' = captured + 1
  /\ UNCHANGED <<base, log, floor>>

\* The cleanup job deletes everything below f.
Cleanup(f) ==
  /\ floor < f
  /\ f <= captured
  /\ floor' = f
  /\ UNCHANGED <<base, log, captured>>

SourceNext ==
  \/ \E t \in Txns : Commit(t)
  \/ Capture
  \/ \E f \in 1..MaxLog : Cleanup(f)

SourceTypeOK ==
  /\ base \in SUBSET Key
  /\ log \in Seq(Transaction) /\ Len(log) <= MaxLog
  /\ captured \in 1..Len(log)
  /\ floor \in 1..(Len(log) + 1)
=============================================================================
