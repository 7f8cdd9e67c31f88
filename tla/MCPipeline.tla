----------------------------- MODULE MCPipeline -----------------------------
(***************************************************************************)
(* Pipeline on a small table, for TLC.                                     *)
(***************************************************************************)
EXTENDS Pipeline

MCTxns ==
  {OtherTable, [put |-> {2}, del |-> {1}]}
    \cup {[put |-> {k}, del |-> {}] : k \in Key}
    \cup {[put |-> {}, del |-> {k}] : k \in Key}

SingleColumn == [k \in Key |-> k]
=============================================================================
