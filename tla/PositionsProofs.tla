--------------------------- MODULE PositionsProofs ---------------------------
(***************************************************************************)
(* What an LSN's successor is, for every width and every byte, and that    *)
(* counting LSNs decides as comparing their bytes does.                    *)
(***************************************************************************)
EXTENDS Positions, DblogProofs
-----------------------------------------------------------------------------
(* The order of bytes.                                                     *)

\* A set of places has a first one.
LEMMA FirstExists ==
  ASSUME NEW S \in SUBSET Place, S # {}
  PROVE  \E i \in S : \A j \in S : i <= j
<1>1. S \in SUBSET Nat
  BY LsnAssumption DEF Place
<1>2. PICK i \in S : \A j \in S : ~(<<j, i>> \in OpToRel(<, Nat))
  BY <1>1, NatLessThanWellFounded, WFMin
<1>3. \A j \in S : ~(j < i)
  BY <1>1, <1>2 DEF OpToRel
<1>. QED
  BY <1>1, <1>3

\* Two LSNs differ first somewhere.
LEMMA FirstDifference ==
  ASSUME NEW a \in LSN, NEW b \in LSN, a # b
  PROVE  \E i \in Place : a[i] # b[i] /\ \A j \in 1..(i - 1) : a[j] = b[j]
<1> DEFINE S == {i \in Place : a[i] # b[i]}
<1>1. S # {}
  BY DEF LSN
<1>2. PICK i \in S : \A j \in S : i <= j
  BY <1>1, FirstExists
<1>3. \A j \in 1..(i - 1) : j \in Place /\ ~(i <= j)
  BY <1>2, LsnAssumption DEF Place
<1>. QED
  BY <1>2, <1>3

LEMMA LessIsTotal ==
  ASSUME NEW a \in LSN, NEW b \in LSN
  PROVE  a = b \/ Less(a, b) \/ Less(b, a)
<1>. SUFFICES ASSUME a # b PROVE Less(a, b) \/ Less(b, a)
  OBVIOUS
<1>1. PICK i \in Place : a[i] # b[i] /\ \A j \in 1..(i - 1) : a[j] = b[j]
  BY FirstDifference
<1>2. a[i] < b[i] \/ b[i] < a[i]
  BY <1>1, LsnAssumption DEF LSN
<1>. QED
  BY <1>1, <1>2 DEF Less

LEMMA LessIsTransitive ==
  ASSUME NEW a \in LSN, NEW b \in LSN, NEW c \in LSN, Less(a, b), Less(b, c)
  PROVE  Less(a, c)
<1>1. PICK i \in Place : a[i] < b[i] /\ \A n \in 1..(i - 1) : a[n] = b[n]
  BY DEF Less
<1>2. PICK j \in Place : b[j] < c[j] /\ \A n \in 1..(j - 1) : b[n] = c[n]
  BY DEF Less
<1>3. i \in Nat /\ j \in Nat /\ i >= 1 /\ j >= 1
  BY LsnAssumption DEF Place
<1>4. \A p \in Place : a[p] \in Nat /\ b[p] \in Nat /\ c[p] \in Nat
  BY LsnAssumption DEF LSN
<1>5. CASE i <= j
  <2>1. a[i] < c[i]
    BY <1>1, <1>2, <1>3, <1>4, <1>5
  <2>2. \A n \in 1..(i - 1) : a[n] = c[n]
    BY <1>1, <1>2, <1>3, <1>5
  <2>. QED
    BY <2>1, <2>2 DEF Less
<1>6. CASE j < i
  <2>1. a[j] < c[j]
    BY <1>1, <1>2, <1>3, <1>4, <1>6
  <2>2. \A n \in 1..(j - 1) : a[n] = c[n]
    BY <1>1, <1>2, <1>3, <1>6
  <2>. QED
    BY <2>1, <2>2 DEF Less
<1>. QED
  BY <1>3, <1>5, <1>6

LEMMA LessIsStrict ==
  ASSUME NEW a \in LSN, NEW b \in LSN, Less(a, b)
  PROVE  a # b /\ ~Less(b, a)
<1>1. \A l \in LSN : ~Less(l, l)
  BY LsnAssumption DEF Less, LSN
<1>. QED
  BY <1>1, LessIsTransitive

\* The LSN of all zeros, which fn_cdc_get_min_lsn answers for a table it does
\* not track and which a dump row carries, is below all others.
LEMMA ZeroIsLeast ==
  ASSUME NEW l \in LSN
  PROVE  ~Less(l, [i \in Place |-> 0])
BY LsnAssumption DEF Less, LSN
-----------------------------------------------------------------------------
(* The increment.                                                          *)

\* The least of the LSNs above l: there is none above the maximum.
NextAbove(l) ==
  {m \in LSN : Less(l, m) /\ \A n \in LSN : Less(l, n) => ~Less(n, m)}

Carried(l, i) ==
  [j \in Place |-> IF j < i THEN l[j] ELSE IF j = i THEN l[j] + 1 ELSE 0]

\* Where the carry stops the result is an LSN, above, and nothing is between.
LEMMA CarriedIsNext ==
  ASSUME NEW l \in LSN, NEW i \in CarryStops(l)
  PROVE  Carried(l, i) \in NextAbove(l)
<1> DEFINE m == Carried(l, i)
<1>0. /\ Width \in Nat /\ Top \in Nat /\ i \in 1..Width
      /\ l[i] < Top /\ \A j \in (i + 1)..Width : l[j] = Top
      /\ \A j \in 1..Width : l[j] \in 0..Top
  BY LsnAssumption DEF CarryStops, Place, LSN
<1>1. m \in LSN
  BY <1>0 DEF Carried, Place, LSN
<1>2. /\ m[i] = l[i] + 1
      /\ \A j \in 1..(i - 1) : m[j] = l[j]
      /\ \A j \in (i + 1)..Width : m[j] = 0
  BY <1>0 DEF Carried, Place
<1>. HIDE DEF m
<1>3. Less(l, m)
  BY <1>0, <1>2 DEF Less, Place
<1>4. ASSUME NEW n \in LSN, Less(l, n), Less(n, m)
      PROVE  FALSE
  <2>1. PICK p \in 1..Width : l[p] < n[p] /\ \A j \in 1..(p - 1) : l[j] = n[j]
    BY <1>4 DEF Less, Place
  <2>2. PICK q \in 1..Width : n[q] < m[q] /\ \A j \in 1..(q - 1) : n[j] = m[j]
    BY <1>4 DEF Less, Place
  <2>3. \A j \in 1..Width : n[j] \in 0..Top
    BY DEF LSN, Place
  <2>4. p <= i
    BY <1>0, <2>1, <2>3
  <2>5. CASE p < i
    <3>1. m[p] < n[p] /\ \A j \in 1..(p - 1) : m[j] = n[j]
      BY <1>0, <1>2, <2>1, <2>5
    <3>2. Less(m, n)
      BY <3>1 DEF Less, Place
    <3>. QED
      BY <1>1, <1>4, <3>2, LessIsStrict
  <2>6. CASE p = i
    <3>1. m[i] <= n[i]
      BY <1>0, <1>2, <2>1, <2>3, <2>6
    <3>2. \A j \in 1..(i - 1) : m[j] = n[j]
      BY <1>0, <1>2, <2>1, <2>6
    <3>3. i < q
      BY <1>0, <1>2, <2>2, <2>3, <3>1, <3>2
    <3>4. m[q] = 0
      BY <1>0, <1>2, <3>3
    <3>. QED
      BY <1>0, <2>2, <2>3, <3>4
  <2>. QED
    BY <1>0, <2>4, <2>5, <2>6
<1>. QED
  BY <1>1, <1>3, <1>4 DEF NextAbove, m

\* Something is above l only if a byte of it has room, and then the last of
\* those is where the carry stops.
LEMMA CarryHasAnEnd ==
  ASSUME NEW l \in LSN, NEW n \in LSN, Less(l, n)
  PROVE  CarryStops(l) # {}
<1> DEFINE S == {i \in Place : l[i] < Top}
<1>1. S # {} /\ S \in SUBSET (1..Width) /\ Width \in Int
  BY LsnAssumption DEF Less, LSN, Place
<1>2. PICK i \in S : \A j \in S : j <= i
  <2>. HIDE DEF S
  <2>. QED
    BY <1>1, LastExists
<1>3. \A j \in (i + 1)..Width : j \in Place /\ ~(j <= i)
  BY <1>2, LsnAssumption DEF Place
<1>4. \A j \in (i + 1)..Width : l[j] = Top
  BY <1>2, <1>3, LsnAssumption DEF LSN
<1>. QED
  BY <1>2, <1>4 DEF CarryStops

\* increment_lsn answers the least LSN above its argument, and none where
\* there is none: it never wraps, and skips no LSN a transaction may have.
THEOREM IncrementIsNext == \A l \in LSN : Increment(l) = NextAbove(l)
<1>. SUFFICES ASSUME NEW l \in LSN PROVE Increment(l) = NextAbove(l)
  OBVIOUS
<1>1. Increment(l) = {Carried(l, i) : i \in CarryStops(l)}
  BY DEF Increment, Carried
<1>2. ASSUME NEW m \in NextAbove(l) PROVE m \in Increment(l)
  <2>1. m \in LSN /\ Less(l, m)
    BY DEF NextAbove
  <2>2. PICK i \in CarryStops(l) : TRUE
    BY <2>1, CarryHasAnEnd
  <2>3. Carried(l, i) \in NextAbove(l)
    BY CarriedIsNext
  <2>4. m = Carried(l, i)
    BY <2>1, <2>3, LessIsTotal DEF NextAbove
  <2>. QED
    BY <1>1, <2>4
<1>. QED
  BY <1>1, <1>2, CarriedIsNext

\* There is at most one.
LEMMA NextIsUnique ==
  ASSUME NEW l \in LSN, NEW m \in NextAbove(l), NEW n \in NextAbove(l)
  PROVE  m = n
BY LessIsTotal DEF NextAbove
-----------------------------------------------------------------------------
(* Counting LSNs.                                                          *)

Counts == 1..(MaxLog + 1)

\* The bytes grow as the counts do.
LEMMA LsnsGrow ==
  ASSUME NEW i \in Counts, NEW j \in Counts
  PROVE  Lsns[i] \in LSN /\ Lsns[j] \in LSN /\ (Less(Lsns[i], Lsns[j]) <=> i < j)
<1>1. /\ Lsns \in [Counts -> LSN]
      /\ \A m, n \in Counts : m < n => Less(Lsns[m], Lsns[n])
      /\ i \in Nat /\ j \in Nat
  BY LsnsAssumption, MaxLogAssumption DEF Counts
<1>2. Lsns[i] \in LSN /\ Lsns[j] \in LSN
  BY <1>1
<1>3. CASE i < j
  BY <1>1, <1>2, <1>3
<1>4. CASE i = j
  BY <1>1, <1>2, <1>4, LessIsStrict
<1>5. CASE j < i
  BY <1>1, <1>2, <1>5, LessIsStrict
<1>. QED
  BY <1>1, <1>2, <1>3, <1>4, <1>5

\* The bytes of a position are on the side of every LSN that its count is.
LEMMA PositionIsBytes ==
  ASSUME NEW s, s.last_lsn \in Counts,
         s.short => s.last_lsn # 1 /\ s.last_lsn \notin Adjacent
  PROVE  \E b \in LSN :
           /\ BytesOf(s) = {b}
           /\ \A i \in Counts : Less(Lsns[i], b) <=> i < s.last_lsn
           /\ \A i \in Counts :
                Less(b, Lsns[i]) <=> s.last_lsn < i \/ (s.last_lsn = i /\ s.short)
<1> DEFINE p == s.last_lsn
<1>0. MaxLog \in Nat /\ Counts \subseteq Nat /\ p \in Nat /\ p >= 1
  BY MaxLogAssumption DEF Counts
<1>1. CASE ~s.short
  <2>1. BytesOf(s) = {Lsns[p]} /\ Lsns[p] \in LSN
    BY <1>1, LsnsGrow DEF BytesOf
  <2>. QED
    BY <1>0, <1>1, <2>1, LsnsGrow
<1>2. CASE s.short
  <2>1. p - 1 \in Counts /\ p - 1 < p /\ p \in 2..(MaxLog + 1)
    BY <1>0, <1>2 DEF Counts
  <2> DEFINE x == Lsns[p - 1]
             y == Lsns[p]
  <2>2. x \in LSN /\ y \in LSN /\ Less(x, y)
    BY <2>1, LsnsGrow
  <2>3. PICK b \in NextAbove(x) : TRUE
    BY <2>2, CarryHasAnEnd, CarriedIsNext
  <2>4. b \in LSN /\ Less(x, b) /\ \A n \in LSN : Less(x, n) => ~Less(n, b)
    BY <2>3 DEF NextAbove
  <2>5. BytesOf(s) = {b}
    BY <1>2, <2>2, <2>3, IncrementIsNext, NextIsUnique DEF BytesOf
  <2>6. Less(b, y)
    <3>1. PICK l \in LSN : Less(x, l) /\ Less(l, y)
      BY <1>2, <2>1, LsnsAssumption
    <3>2. b = l \/ Less(b, l)
      BY <2>4, <3>1, LessIsTotal
    <3>. QED
      BY <2>2, <2>4, <3>1, <3>2, LessIsTransitive
  <2>. HIDE DEF x, y
  <2>7. ASSUME NEW i \in Counts, i < p
        PROVE  Less(Lsns[i], b) /\ ~Less(b, Lsns[i])
    <3>1. Lsns[i] \in LSN /\ (Lsns[i] = x \/ Less(Lsns[i], x))
      <4>1. i = p - 1 \/ i < p - 1
        BY <1>0, <2>7
      <4>. QED
        BY <2>1, <4>1, LsnsGrow DEF x
    <3>2. Less(Lsns[i], b)
      BY <2>2, <2>4, <3>1, LessIsTransitive
    <3>. QED
      BY <2>4, <3>1, <3>2, LessIsStrict
  <2>8. ASSUME NEW i \in Counts, ~(i < p)
        PROVE  ~Less(Lsns[i], b) /\ Less(b, Lsns[i])
    <3>1. Lsns[i] \in LSN /\ (Lsns[i] = y \/ Less(y, Lsns[i]))
      <4>1. i = p \/ p < i
        BY <1>0, <2>8
      <4>. QED
        BY <4>1, LsnsGrow DEF y
    <3>2. Less(b, Lsns[i])
      BY <2>2, <2>4, <2>6, <3>1, LessIsTransitive
    <3>. QED
      BY <2>4, <3>1, <3>2, LessIsStrict
  <2>9. \A i \in Counts : i \in Nat
    BY <1>0
  <2>. QED
    BY <1>0, <1>2, <2>4, <2>5, <2>7, <2>8, <2>9
<1>. QED
  BY <1>1, <1>2

\* Where the next transaction's LSN is the increment, so is the position.
LEMMA AdjacentIsNext ==
  ASSUME NEW i \in Counts, i + 1 \in Adjacent
  PROVE  {Lsns[i + 1]} = Increment(Lsns[i])
<1>1. i \in Nat /\ i + 1 \in Counts /\ (i + 1) - 1 = i /\ i < i + 1
  BY LsnsAssumption, MaxLogAssumption DEF Counts
<1>2. /\ Lsns[i] \in LSN /\ Lsns[i + 1] \in LSN /\ Less(Lsns[i], Lsns[i + 1])
  BY <1>1, LsnsGrow
<1>3. ~\E l \in LSN : Less(Lsns[i], l) /\ Less(l, Lsns[i + 1])
  BY <1>1, LsnsAssumption
<1>4. Lsns[i + 1] \in NextAbove(Lsns[i])
  BY <1>2, <1>3 DEF NextAbove
<1>. QED
  BY <1>2, <1>4, IncrementIsNext, NextIsUnique
-----------------------------------------------------------------------------
(* The positions of a run.                                                 *)

\* Only an incremented position falls short of an LSN, and of none that is
\* adjacent to the one before; a run that is opening was not incremented yet.
ShortOK(s) == s.short => s.last_lsn # 1 /\ s.last_lsn \notin Adjacent

ShortInv ==
  /\ \A s \in {run, state} \ {None} : ShortOK(s)
  /\ pc = "opening" => ~run.short

\* A batch's position is incremented if there was a window, and stays put if
\* there was none.
LEMMA ShortOfBatch ==
  ASSUME DumpInv, ShortInv, run \in RunState, NEW to \in Int, Batch(to),
         run.last_lsn <= to + 1, state' = state
  PROVE  ShortInv'
<1>1. run # None /\ run.last_lsn \in Nat \ {0}
  BY NoneAssumption DEF DumpInv, PositionInv, RunState
<1>2. /\ run'.last_lsn = to + 1 /\ pc' = "returned"
      /\ run'.short = IF run.last_lsn <= to THEN to + 1 \notin Adjacent ELSE run.short
  BY DEF Batch, RunState
<1>3. ShortOK(run')
  <2>1. CASE run.last_lsn <= to
    <3>1. run'.last_lsn # 1
      BY <1>1, <1>2, <2>1
    <3>2. run'.short = (run'.last_lsn \notin Adjacent)
      BY <1>2, <2>1
    <3>. QED
      BY <3>1, <3>2 DEF ShortOK
  <2>2. CASE ~(run.last_lsn <= to)
    <3>1. run'.last_lsn = run.last_lsn /\ run'.short = run.short
      BY <1>1, <1>2, <2>2
    <3>. QED
      BY <1>1, <3>1 DEF ShortInv, ShortOK
  <2>. QED
    BY <2>1, <2>2
<1>. QED
  BY <1>2, <1>3 DEF ShortInv

\* No step of a call or of its caller leaves a position short by mistake.
LEMMA ShortStep == DumpInv /\ ShortInv /\ [Next]_vars => ShortInv'
<1>. SUFFICES ASSUME DumpInv, ShortInv, [Next]_vars PROVE ShortInv'
  OBVIOUS
<1>0. /\ None \notin RunState
      /\ (pc \notin {"rest", "floor"} => run \in RunState /\ run # None)
      /\ call.high \in Nat
  BY NoneAssumption DEF DumpInv, TypeOK
<1>1. CASE SourceNext /\ UNCHANGED callVars
  BY <1>1 DEF callVars, ShortInv, ShortOK
<1>2. CASE \E n \in ChunkSizes : Begin(n)
  BY <1>2 DEF Begin, ShortInv, ShortOK
<1>3. CASE SeedFloor
  BY <1>0, <1>3 DEF SeedFloor, ShortInv, ShortOK
<1>4. CASE SeedOpening
  <2>1. /\ run \in RunState /\ ~run.short /\ run'.short = run.short /\ state' = state
        /\ pc' = "low"
    BY <1>0, <1>4 DEF SeedOpening, ShortInv, RunState
  <2>. QED
    BY <2>1 DEF ShortInv, ShortOK
<1>5. CASE ScanEnd
  <2>1. /\ run \in RunState /\ run # None
        /\ run'.short = run.short /\ run'.last_lsn = run.last_lsn
        /\ state' = state /\ pc' = "high"
    BY <1>0, <1>5 DEF ScanEnd, Advanced, RunState
  <2>. QED
    BY <2>1 DEF ShortInv, ShortOK
<1>6. CASE NoWindow
  <2>1. run \in RunState /\ run.last_lsn - 1 \in Int /\ run.last_lsn \in Nat
    BY <1>0, <1>6 DEF NoWindow, RunState
  <2>2. Batch(run.last_lsn - 1) /\ state' = state
    BY <1>6 DEF NoWindow
  <2>3. run.last_lsn <= (run.last_lsn - 1) + 1
    BY <2>1
  <2>. QED
    BY <2>1, <2>2, <2>3, ShortOfBatch
<1>7. CASE ReadWindow
  <2>1. run \in RunState /\ Batch(call.high) /\ state' = state
    BY <1>0, <1>7 DEF ReadWindow
  <2>2. run.last_lsn \in Nat /\ run.last_lsn <= call.high
    BY <1>7, <2>1 DEF ReadWindow, DumpInv, WindowInv, RunState
  <2>3. call.high \in Int /\ run.last_lsn <= call.high + 1
    BY <1>0, <2>2
  <2>. QED
    BY <2>1, <2>3, ShortOfBatch
<1>8. CASE CheckRetention \/ LowWatermark \/ (\E k \in Key : ScanRow(k))
           \/ HighWatermark \/ AwaitWatermark \/ ReadMax
  BY <1>0, <1>8 DEF CheckRetention, LowWatermark, ScanRow, HighWatermark,
     AwaitWatermark, ReadMax, ShortInv, ShortOK
<1>9. CASE RetentionExpired \/ ScanRefused \/ WindowRefused \/ CallFails
  BY <1>9 DEF RetentionExpired, ScanRefused, WindowRefused, CallFails, Raise,
     ShortInv, ShortOK
<1>10. CASE Return
  BY <1>10 DEF Return, ShortInv, ShortOK
<1>11. CASE UNCHANGED vars
  BY <1>11 DEF vars, callVars, ShortInv, ShortOK
<1>. QED
  BY <1>1, <1>2, <1>3, <1>4, <1>5, <1>6, <1>7, <1>8, <1>9, <1>10, <1>11
  DEF Next, CallStep, Proceeds, Refused

\* The log, the floor and the positions are within the LSNs that are counted.
LEMMA WithinCounts ==
  ASSUME DumpInv
  PROVE  /\ Len(log) \in Nat /\ 1..Len(log) \subseteq Counts /\ floor \in Counts
         /\ \A s \in {run, state} \ {None} : s.last_lsn \in Counts
         /\ call.high \in Nat
<1>1. /\ Len(log) \in Nat /\ Len(log) <= MaxLog /\ MaxLog \in Nat
      /\ floor \in 1..(Len(log) + 1) /\ call.high \in Nat
  BY MaxLogAssumption DEF DumpInv, TypeOK, SourceTypeOK
<1>2. 1..(Len(log) + 1) \subseteq Counts
  BY <1>1 DEF Counts
<1>. QED
  BY <1>1, <1>2 DEF DumpInv, PositionInv

\* Whatever the bytes of the LSNs and wherever an increment carries, the checks
\* that dblog() makes of bytes come out as they do for the counts.
THEOREM CountingWillDo == Spec => []ComparesAsBytes
<1>1. Init => ShortInv
  BY DEF Init, LocalsInit, ShortInv
<1>2. ASSUME DumpInv, ShortInv PROVE ComparesAsBytes
  <2>. SUFFICES ASSUME NEW s \in {run, state} \ {None}
                PROVE  \E b \in BytesOf(s) :
                         /\ BytesOf(s) = {b}
                         /\ Less(b, Lsns[floor]) <=> ~Retained(s)
                         /\ \A i \in 1..Len(log) : Less(Lsns[i], b) <=> i < s.last_lsn
    BY DEF ComparesAsBytes
  <2>1. s.last_lsn \in Counts /\ floor \in Counts /\ 1..Len(log) \subseteq Counts
    BY <1>2, WithinCounts
  <2>2. s.short => s.last_lsn # 1 /\ s.last_lsn \notin Adjacent
    BY <1>2 DEF ShortInv, ShortOK
  <2>3. PICK b \in LSN :
          /\ BytesOf(s) = {b}
          /\ \A i \in Counts : Less(Lsns[i], b) <=> i < s.last_lsn
          /\ \A i \in Counts :
               Less(b, Lsns[i]) <=> s.last_lsn < i \/ (s.last_lsn = i /\ s.short)
    BY <2>1, <2>2, PositionIsBytes
  <2>4. floor \in Nat /\ s.last_lsn \in Nat
    BY <2>1, MaxLogAssumption DEF Counts
  <2>5. Less(b, Lsns[floor]) <=> ~Retained(s)
    BY <2>1, <2>3, <2>4 DEF Retained
  <2>. QED
    BY <2>1, <2>3, <2>5
<1>3. Init => DumpInv
  BY DumpInit
<1>4. DumpInv /\ ShortInv /\ [Next]_vars => (DumpInv /\ ShortInv)'
  BY DumpStep, ShortStep
<1>. QED
  BY <1>1, <1>2, <1>3, <1>4, PTL DEF Spec

\* The position a window leaves is the increment of its end, to the byte.
THEOREM WindowsMoveByIncrement == Spec => MovesByIncrement
<1>1. ASSUME DumpInv, ReadWindow PROVE BytesOf(run') = Increment(Lsns[call.high])
  <2>1. /\ run \in RunState /\ run.last_lsn \in Nat \ {0} /\ run.last_lsn <= call.high
        /\ call.high <= captured /\ captured \in Nat /\ captured <= Len(log)
    <3>1. pc = "events" /\ run \in RunState /\ run # None
      BY <1>1, NoneAssumption DEF ReadWindow, DumpInv, TypeOK
    <3>. QED
      BY <1>1, <3>1 DEF DumpInv, TypeOK, SourceTypeOK, WindowInv, PositionInv, RunState
  <2>2. call.high \in Nat /\ call.high \in 1..Len(log)
    BY <1>1, <2>1, WithinCounts
  <2>3. call.high \in Counts /\ (call.high + 1) - 1 = call.high
    BY <1>1, <2>2, WithinCounts
  <2>4. /\ run'.last_lsn = call.high + 1
        /\ run'.short <=> call.high + 1 \notin Adjacent
    BY <1>1, <2>1 DEF ReadWindow, Batch, RunState
  <2>5. CASE call.high + 1 \in Adjacent
    BY <2>3, <2>4, <2>5, AdjacentIsNext DEF BytesOf
  <2>6. CASE call.high + 1 \notin Adjacent
    BY <2>3, <2>4, <2>6 DEF BytesOf
  <2>. QED
    BY <2>5, <2>6
<1>2. Init => DumpInv
  BY DumpInit
<1>3. DumpInv /\ [Next]_vars => DumpInv'
  BY DumpStep
<1>4. DumpInv /\ [Next]_vars =>
        [ReadWindow => BytesOf(run') = Increment(Lsns[call.high])]_vars
  BY <1>1
<1>. QED
  BY <1>2, <1>3, <1>4, PTL DEF Spec, MovesByIncrement
=============================================================================
