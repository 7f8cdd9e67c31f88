--------------------------- MODULE HistoryProofs ---------------------------
(***************************************************************************)
(* What History's operators return, for every log and table.               *)
(***************************************************************************)
EXTENDS History, WellFoundedInduction, TLAPS

\* A non-empty set of LSNs has a last one: Image's CHOOSE is well defined.
LEMMA LastExists ==
  ASSUME NEW hi \in Int, NEW S \in SUBSET (1..hi), S # {}
  PROVE  \E i \in S : \A j \in S : j <= i
<1> DEFINE T == {hi - i : i \in S}
<1>1. T \subseteq Nat /\ T # {}
  <2>1. \A i \in S : i \in Int /\ hi - i \in Nat
    OBVIOUS
  <2>. QED
    BY <2>1
<1>2. PICK x \in T : \A y \in T : ~(<<y, x>> \in OpToRel(<, Nat))
  <2>. HIDE DEF T
  <2>. QED
    BY <1>1, NatLessThanWellFounded, WFMin
<1>3. \A y \in T : ~(y < x)
  <2>. HIDE DEF T
  <2>. QED
    BY <1>1, <1>2 DEF OpToRel
<1>4. PICK i \in S : x = hi - i
  OBVIOUS
<1>5. ASSUME NEW j \in S
      PROVE  j <= i
  <2>1. hi - j \in T
    OBVIOUS
  <2>2. ~(hi - j < hi - i)
    BY <1>3, <1>4, <2>1
  <2>3. j \in Int /\ i \in Int
    OBVIOUS
  <2>. HIDE DEF T
  <2>. QED
    BY <2>2, <2>3
<1>. QED
  BY <1>5

\* The events read from a window lie in it.
LEMMA EventsAreLSNs ==
  ASSUME NEW log, NEW k, NEW lo \in Int, NEW hi \in Int
  PROVE  EventsOf(log, k, lo, hi) \in SUBSET (lo..hi)
BY DEF EventsOf

\* The last event up to an LSN is at an LSN no later.
LEMMA LastIsEvent ==
  ASSUME NEW log, NEW k, NEW p \in Int, EventsOf(log, k, 1, p) # {}
  PROVE  Last(EventsOf(log, k, 1, p)) \in 1..p
<1> DEFINE events == EventsOf(log, k, 1, p)
<1>1. events \in SUBSET (1..p)
  BY EventsAreLSNs
<1>2. \E i \in events : \A j \in events : j <= i
  <2>. HIDE DEF events
  <2>. QED
    BY <1>1, LastExists DEF events
<1>3. Last(events) \in events
  BY <1>2 DEF Last
<1>. QED
  BY <1>1, <1>3

\* A row has a version at every LSN, and none that is newer.
LEMMA ImageIsVersion ==
  ASSUME NEW base, NEW log, NEW k, NEW p \in Nat
  PROVE  /\ Image(base, log, k, p) \in Version
         /\ Image(base, log, k, p) <= p
<1>1. EventsOf(log, k, 1, p) # {} => Last(EventsOf(log, k, 1, p)) \in 1..p
  BY LastIsEvent
<1>. QED
  BY <1>1 DEF Image, Version, Absent

\* A row with no event in an interval is the same at both of its ends.
LEMMA ImageUnchanged ==
  ASSUME NEW base, NEW log, NEW k, NEW p \in Nat, NEW q \in Nat, p <= q,
         EventsOf(log, k, p + 1, q) = {}
  PROVE  Image(base, log, k, q) = Image(base, log, k, p)
<1>1. EventsOf(log, k, 1, q) = EventsOf(log, k, 1, p)
  BY DEF EventsOf
<1>. QED
  BY <1>1 DEF Image

\* The past does not change: a commit adds no event at an earlier LSN.
LEMMA EventsOfPrefix ==
  ASSUME NEW log \in Seq(Transaction), NEW t \in Transaction,
         NEW k, NEW lo \in Nat \ {0}, NEW hi \in 0..Len(log)
  PROVE  EventsOf(Append(log, t), k, lo, hi) = EventsOf(log, k, lo, hi)
<1>1. \A i \in lo..hi : Append(log, t)[i] = log[i]
  OBVIOUS
<1>. QED
  BY <1>1 DEF EventsOf

\* Nor does it change what a row was.
LEMMA ImageOfPrefix ==
  ASSUME NEW base, NEW log \in Seq(Transaction), NEW t \in Transaction,
         NEW k, NEW p \in 0..Len(log)
  PROVE  Image(base, Append(log, t), k, p) = Image(base, log, k, p)
<1> DEFINE more == Append(log, t)
           events == EventsOf(log, k, 1, p)
<1>1. EventsOf(more, k, 1, p) = events
  BY EventsOfPrefix
<1>2. events # {} => more[Last(events)] = log[Last(events)]
  <2>1. p \in Int /\ Len(log) \in Nat
    OBVIOUS
  <2>2. events # {} => Last(events) \in 1..Len(log)
    BY <2>1, LastIsEvent
  <2>. HIDE DEF events
  <2>. QED
    BY <2>2
<1>. HIDE DEF events, more
<1>3. Image(base, more, k, p) =
        IF events = {} THEN IF k \in base THEN 0 ELSE Absent
        ELSE IF k \in more[Last(events)].put THEN Last(events) ELSE Absent
  BY <1>1 DEF Image
<1>4. Image(base, log, k, p) =
        IF events = {} THEN IF k \in base THEN 0 ELSE Absent
        ELSE IF k \in log[Last(events)].put THEN Last(events) ELSE Absent
  BY DEF Image, events
<1>5. Image(base, more, k, p) = Image(base, log, k, p)
  BY <1>2, <1>3, <1>4
<1>. QED
  BY <1>5 DEF more
=============================================================================
