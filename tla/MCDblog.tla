------------------------------ MODULE MCDblog ------------------------------
(***************************************************************************)
(* Dblog on a small table, for TLC.                                        *)
(***************************************************************************)
EXTENDS Positions

\* Single-row writes and deletes, one transaction of two rows and one on
\* another table.
MCTxns ==
  {OtherTable, [put |-> {2}, del |-> {1}]}
    \cup {[put |-> {k}, del |-> {}] : k \in Key}
    \cup {[put |-> {}, del |-> {k}] : k \in Key}

\* A key of two columns: the leading one is the same in the second row and the
\* third, and a page may end between them.
SecondPair == [k \in Key |-> k \div 2]

\* Two-byte LSNs with a carry after the first, none between the second and the
\* third, and room after the third.
MCLsns == [i \in 1..(MaxLog + 1) |-> <<<<0, 3>>, <<1, 1>>, <<1, 2>>, <<2, 0>>>>[i]]
=============================================================================
