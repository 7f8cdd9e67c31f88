-------------------------- MODULE MCLakeOnCapture --------------------------
(***************************************************************************)
(* LakeOnCapture on a small table, for TLC.                                *)
(***************************************************************************)
EXTENDS LakeOnCapture

\* A row behind another of its leading key is moved to the next one, or back.
MCTxns == {[put |-> {4}, del |-> {3}], [put |-> {3}, del |-> {4}]}

\* Two columns, the leading one the same in 2 and 3, and another in 4.
PairedColumn == [k \in Key |-> k \div 2]
=============================================================================
