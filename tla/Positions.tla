----------------------------- MODULE Positions -----------------------------
(***************************************************************************)
(* The positions of Dblog as the bytes they really are.                    *)
(*                                                                         *)
(* Dblog counts LSNs.  Here every transaction has the bytes SQL Server     *)
(* gave it, and what dblog() makes of bytes is compared with what Dblog    *)
(* makes of the counts.                                                    *)
(***************************************************************************)
EXTENDS Dblog, Lsn

CONSTANT Lsns  \* the LSN of each transaction, and of the one after the last

\* They grow, at whatever distances.
ASSUME LsnsAssumption ==
  /\ Lsns \in [1..(MaxLog + 1) -> LSN]
  /\ \A i, j \in 1..(MaxLog + 1) : i < j => Less(Lsns[i], Lsns[j])
  /\ Adjacent =
       {i \in 2..(MaxLog + 1) : ~\E l \in LSN : Less(Lsns[i - 1], l) /\ Less(l, Lsns[i])}

\* last_lsn: the LSN of a transaction, or the increment of one.
BytesOf(s) == IF s.short THEN Increment(Lsns[s.last_lsn - 1]) ELSE {Lsns[s.last_lsn]}

\* A position in bytes is on the same side of the floor, of the maximum and of
\* every event as the one that is counted, wherever the increment carried.
ComparesAsBytes ==
  \A s \in {run, state} \ {None} : \E b \in BytesOf(s) :
    /\ BytesOf(s) = {b}
    /\ Less(b, Lsns[floor]) <=> ~Retained(s)
    /\ \A i \in 1..Len(log) : Less(Lsns[i], b) <=> i < s.last_lsn

\* A window leaves the position at the increment of its end, to the byte.
MovesByIncrement == [][ReadWindow => BytesOf(run') = Increment(Lsns[call.high])]_vars
=============================================================================
