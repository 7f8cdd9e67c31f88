------------------------------- MODULE MCLake -------------------------------
(***************************************************************************)
(* Lake, and with it Pipeline, on a small table, for TLC.                  *)
(***************************************************************************)
EXTENDS Lake

\* Every write of one row, and a row moved to another key.
MCTxns ==
  {OtherTable}
    \cup {[put |-> {k}, del |-> {}] : k \in Key}
    \cup {[put |-> {}, del |-> {k}] : k \in Key}
    \cup {[put |-> {k}, del |-> {k - 1}] : k \in Key \ {1}}

SingleColumn == [k \in Key |-> k]
=============================================================================
