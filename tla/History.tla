------------------------------ MODULE History ------------------------------
(***************************************************************************)
(* A table and the change log SQL Server's CDC keeps of it, as pure        *)
(* operators.                                                              *)
(*                                                                         *)
(* An LSN is an index into the log.  A row is identified by its primary    *)
(* key and its content is abstracted to a VERSION: the LSN of the          *)
(* transaction that wrote it, 0 for a row older than the log, Absent for a *)
(* row that does not exist.  Two reads of a row return the same version    *)
(* exactly when they return the same image.                                *)
(***************************************************************************)
EXTENDS Integers, Sequences

CONSTANTS
  Key,   \* primary key values, as integers in primary-key order
  Txns   \* the transactions the database may commit

\* A transaction as CDC records it: the rows it inserted or updated and the
\* rows it deleted.  With both empty it is a commit on some other tracked
\* table, which moves the database-wide LSN and leaves no event here.
Transaction == {t \in [put : SUBSET Key, del : SUBSET Key] : t.put \cap t.del = {}}

OtherTable == [put |-> {}, del |-> {}]

ASSUME KeyAssumption == Key \subseteq Nat

ASSUME TxnsAssumption == Txns \subseteq Transaction

Absent == -1
Version == Nat \cup {Absent}

\* The LSNs in lo..hi at which the log holds an event of row k.
EventsOf(log, k, lo, hi) == {i \in lo..hi : k \in log[i].put \cup log[i].del}

Last(lsns) == CHOOSE i \in lsns : \A j \in lsns : j <= i

\* Row k as of LSN p: what the last event up to p left of it.
Image(base, log, k, p) ==
  LET events == EventsOf(log, k, 1, p)
  IN  IF events = {} THEN IF k \in base THEN 0 ELSE Absent
      ELSE IF k \in log[Last(events)].put THEN Last(events) ELSE Absent
=============================================================================
