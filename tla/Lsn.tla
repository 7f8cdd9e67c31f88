--------------------------------- MODULE Lsn ---------------------------------
(***************************************************************************)
(* Log sequence numbers as the library has them: bytes, compared from the  *)
(* first one on, and incremented as the big-endian number they spell.      *)
(***************************************************************************)
EXTENDS Integers

CONSTANTS
  Width,  \* LSN_WIDTH, 10
  Top     \* the largest byte, 255

ASSUME LsnAssumption == Width \in Nat \ {0} /\ Top \in Nat \ {0}

Place == 1..Width

LSN == [Place -> 0..Top]

\* < on bytes.
Less(a, b) == \E i \in Place : a[i] < b[i] /\ \A j \in 1..(i - 1) : a[j] = b[j]

\* Where the carry of + 1 stops: the last byte that has room.
CarryStops(l) == {i \in Place : l[i] < Top /\ \A j \in (i + 1)..Width : l[j] = Top}

\* Bug for the mutants: the last byte wraps and nothing is carried.
IncrementNoCarry(l) ==
  {[j \in Place |-> IF j < Width THEN l[j] ELSE IF l[j] = Top THEN 0 ELSE l[j] + 1]}

\* increment_lsn: the answer, or none where to_bytes overflows.
Increment(l) ==
  {[j \in Place |-> IF j < i THEN l[j] ELSE IF j = i THEN l[j] + 1 ELSE 0] : i \in CarryStops(l)}
=============================================================================
