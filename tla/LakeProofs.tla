----------------------------- MODULE LakeProofs -----------------------------
(***************************************************************************)
(* An append-only target read back by start_lsn is the table, whatever was *)
(* delivered or read twice.                                                *)
(***************************************************************************)
EXTENDS Lake, PipelineProofs
-----------------------------------------------------------------------------
(* The lake is only written beside the loop, so what is proved of the loop *)
(* holds with it.                                                          *)

\* Every step of Lake is a step of Pipeline.
LEMMA StepOfPipeline == [LakeNext]_lakeVars => [PipelineNext]_pipelineVars
BY DEF LakeNext, PipelineNext, LoopNext, lakeVars

LEMMA LakeIsPipeline == LakeSpec => PipelineSpec
<1>1. LakeInit => PipelineInit
  BY DEF LakeInit
<1>. QED
  BY <1>1, StepOfPipeline, PTL DEF LakeSpec, PipelineSpec
-----------------------------------------------------------------------------
(* Events and the last of them.                                            *)

\* The last event up to an LSN is one, and no event up to it is later.
LEMMA LastIsMax ==
  ASSUME NEW l, NEW k, NEW p \in Nat, EventsOf(l, k, 1, p) # {}
  PROVE  /\ Last(EventsOf(l, k, 1, p)) \in EventsOf(l, k, 1, p)
         /\ \A i \in EventsOf(l, k, 1, p) : i <= Last(EventsOf(l, k, 1, p))
<1> DEFINE events == EventsOf(l, k, 1, p)
<1>1. events \in SUBSET (1..p) /\ events # {} /\ p \in Int
  BY EventsAreLSNs
<1>2. \E i \in events : \A j \in events : j <= i
  <2>. HIDE DEF events
  <2>. QED
    BY <1>1, LastExists
<1>. QED
  BY <1>2 DEF Last

\* A window with an event holds the last event up to its end.
LEMMA LastInWindow ==
  ASSUME NEW l, NEW k, NEW from \in Nat \ {0}, NEW to \in Nat, EventsOf(l, k, from, to) # {}
  PROVE  Last(EventsOf(l, k, 1, to)) \in EventsOf(l, k, from, to)
<1>1. PICK i \in EventsOf(l, k, from, to) : TRUE
  OBVIOUS
<1>2. i \in EventsOf(l, k, 1, to) /\ i \in from..to
  BY <1>1 DEF EventsOf
<1> DEFINE last == Last(EventsOf(l, k, 1, to))
<1>3. last \in EventsOf(l, k, 1, to) /\ i <= last
  BY <1>2, LastIsMax
<1>. HIDE DEF last
<1>4. last \in 1..to /\ k \in l[last].put \cup l[last].del
  BY <1>3 DEF EventsOf
<1>5. last \in from..to
  BY <1>2, <1>3, <1>4
<1>. QED
  BY <1>4, <1>5 DEF EventsOf, last

\* A row a batch has no event of has the events it had.
LEMMA NoNews ==
  ASSUME LoopInv, pc = "returned", state # None, NEW k \in Key,
         EventsOf(log, k, frame.from, frame.to) = {}
  PROVE  EventsOf(log, k, 1, frame.to) = EventsOf(log, k, 1, at)
<1>1. frame.from <= at + 1 /\ at <= frame.to
  BY NoneAssumption DEF LoopInv, SavedInv, ReachedInv, PipelineTypeOK, RunState
<1>2. frame.from \in Nat \ {0} /\ frame.to \in Nat /\ at \in Nat
  BY AppliedRow, LoopTypes
<1>. QED
  BY <1>1, <1>2 DEF EventsOf

\* Nor does the source touch what was read.
LEMMA EventsStay ==
  ASSUME LoopInv, SourceNext \/ UNCHANGED sourceVars
  PROVE  /\ \A k : EventsOf(log', k, 1, at) = EventsOf(log, k, 1, at)
         /\ \A i \in 1..at : log'[i] = log[i]
<1>1. SourceTypeOK /\ at \in 0..Len(log) /\ Len(log) \in Nat
  BY LoopTypes DEF LoopInv, PipelineTypeOK
<1>2. CASE SourceNext
  <2>1. \A k : EventsOf(log', k, 1, at) = EventsOf(log, k, 1, at)
    BY <1>1, <1>2, PastIsFixed
  <2>2. log' = log \/ \E t \in Txns : log' = Append(log, t)
    BY <1>2 DEF SourceNext, Commit, Capture, Cleanup
  <2>. QED
    BY <1>1, <2>1, <2>2, TxnsAssumption DEF SourceTypeOK
<1>3. CASE UNCHANGED sourceVars
  BY <1>3 DEF sourceVars
<1>. QED
  BY <1>2, <1>3
-----------------------------------------------------------------------------
(* What is in the lake.                                                    *)

\* The event rows are the log's; where a key has one it has the last; a dump
\* row without one is current; and the target has what the table had for the
\* keys that have rows, and nothing for the others.
LakeInv ==
  /\ \A r \in lake :
       /\ r.key \in Key
       /\ r.lsn = 0 \/ (r.lsn \in EventsOf(log, r.key, 1, at) /\ r = Event(r.key, r.lsn))
  /\ \A r \in lake : r.lsn # 0 =>
       \E s \in lake : s.key = r.key /\ s.lsn = Last(EventsOf(log, r.key, 1, at))
  /\ \A r \in lake : r.lsn = 0 =>
       \/ r.image = Image(base, log, r.key, at)
       \/ \E s \in lake : s.key = r.key /\ s.lsn # 0
  /\ \A k \in Key :
       target[k] = IF \E r \in lake : r.key = k THEN Image(base, log, k, at) ELSE Absent
  /\ state = None /\ pc \notin {"rest", "written"} => lake = {}

\* The rows a frame writes.
LEMMA FrameRow ==
  ASSUME NEW r \in FrameRows, DOMAIN frame.rows \subseteq Key
  PROVE  /\ r.key \in Key
         /\ \/ r.lsn = 0 /\ r.key \in DOMAIN frame.rows /\ r.image = frame.rows[r.key]
            \/ r.lsn \in EventsOf(log, r.key, frame.from, frame.to) /\ r = Event(r.key, r.lsn)
BY DEF FrameRows, Stamped, Event

\* And that they are all there.
LEMMA RowOfFrame ==
  /\ \A k \in DOMAIN frame.rows : \E r \in FrameRows : r.key = k
  /\ \A k \in Key : \A i \in EventsOf(log, k, frame.from, frame.to) :
       Event(k, i) \in FrameRows /\ Event(k, i).key = k /\ Event(k, i).lsn = i
<1>1. ASSUME NEW k \in DOMAIN frame.rows
      PROVE  Stamped(k) \in FrameRows /\ Stamped(k).key = k
  <2>1. Stamped(k) \in {Stamped(j) : j \in DOMAIN frame.rows}
    OBVIOUS
  <2>. QED
    BY <2>1 DEF FrameRows, Stamped
<1>2. ASSUME NEW k \in Key, NEW i \in EventsOf(log, k, frame.from, frame.to)
      PROVE  Event(k, i) \in FrameRows /\ Event(k, i).key = k /\ Event(k, i).lsn = i
  <2>1. Event(k, i) \in UNION {{Event(j, n) : n \in EventsOf(log, j, frame.from, frame.to)} : j \in Key}
    OBVIOUS
  <2>. QED
    BY <2>1 DEF FrameRows, Event
<1>. QED
  BY <1>1, <1>2

\* A frame appended to the lake leaves it as it should be.
LEMMA LakeOfWrite ==
  ASSUME LoopInv, LakeInv, Write, lake' = lake \cup FrameRows
  PROVE  LakeInv'
<1>1. /\ pc = "returned" /\ pc' = "written" /\ at' = frame.to
      /\ target' = [k \in Key |-> Applied(k)]
      /\ UNCHANGED <<base, log, state, frame>>
  BY DEF Write, sourceVars
<1> DEFINE from == frame.from
           to == frame.to
           Window(k) == EventsOf(log, k, from, to)
<1>2. /\ from \in Nat \ {0} /\ to \in 0..Len(log) /\ at \in Nat /\ at <= to
      /\ DOMAIN frame.rows \subseteq Key
      /\ \A k \in DOMAIN frame.rows : frame.rows[k] = Image(base, log, k, to)
  <2>1. /\ DumpInv /\ frame.rows \in Rows
    BY <1>1, LoopTypes DEF LoopInv, CallInv
  <2>. QED
    BY <1>1, <2>1, LoopTypes, RowsElim DEF DumpInv, FrameInv, LoopInv, ReachedInv
<1>3. to \in Nat /\ from >= 1
  BY <1>2, LoopTypes
<1>4. \A k : Window(k) \subseteq EventsOf(log, k, 1, to)
  BY <1>2, <1>3 DEF EventsOf
<1>5. \A k : EventsOf(log, k, 1, at) \subseteq EventsOf(log, k, 1, to)
  BY <1>2, <1>3 DEF EventsOf
<1>6. ASSUME NEW k \in Key, Window(k) # {}
      PROVE  \E s \in lake' : /\ s.key = k /\ s.lsn # 0
                              /\ s.lsn = Last(EventsOf(log, k, 1, to))
  <2> DEFINE last == Last(EventsOf(log, k, 1, to))
  <2>1. last \in Window(k)
    BY <1>2, <1>3, <1>6, LastInWindow
  <2>2. last # 0
    BY <1>2, <1>3, <2>1 DEF EventsOf
  <2>3. /\ Event(k, last) \in FrameRows /\ Event(k, last).key = k /\ Event(k, last).lsn = last
    BY <2>1, RowOfFrame
  <2>. QED
    BY <2>2, <2>3
<1>7. ASSUME NEW k \in Key, Window(k) = {}, state # None
      PROVE  /\ EventsOf(log, k, 1, to) = EventsOf(log, k, 1, at)
             /\ Image(base, log, k, to) = Image(base, log, k, at)
  BY <1>1, <1>7, NoNews, SinceTheTarget
<1>8. state = None => lake = {}
  BY <1>1 DEF LakeInv
<1>9. ASSUME NEW r \in lake'
      PROVE  /\ r.key \in Key
             /\ r.lsn = 0 \/ (r.lsn \in EventsOf(log, r.key, 1, to) /\ r = Event(r.key, r.lsn))
  <2>1. CASE r \in lake
    BY <1>5, <2>1 DEF LakeInv
  <2>2. CASE r \in FrameRows
    BY <1>2, <1>4, <2>2, FrameRow
  <2>. QED
    BY <2>1, <2>2
<1>10. ASSUME NEW r \in lake', r.lsn # 0
       PROVE  \E s \in lake' : s.key = r.key /\ s.lsn = Last(EventsOf(log, r.key, 1, to))
  <2>1. CASE Window(r.key) # {}
    BY <1>6, <1>9, <2>1
  <2>2. CASE Window(r.key) = {}
    <3>1. r \in lake
      BY <1>2, <1>10, <2>2, FrameRow
    <3>2. PICK s \in lake : s.key = r.key /\ s.lsn = Last(EventsOf(log, r.key, 1, at))
      BY <1>10, <3>1 DEF LakeInv
    <3>. QED
      BY <1>7, <1>8, <1>9, <2>2, <3>1, <3>2
  <2>. QED
    BY <2>1, <2>2
<1>11. ASSUME NEW r \in lake', r.lsn = 0
       PROVE  \/ r.image = Image(base, log, r.key, to)
              \/ \E s \in lake' : s.key = r.key /\ s.lsn # 0
  <2>1. CASE Window(r.key) # {}
    BY <1>6, <1>9, <2>1
  <2>2. CASE Window(r.key) = {} /\ r \in lake
    <3>1. state # None
      BY <1>8, <2>2
    <3>2. r.image = Image(base, log, r.key, at) \/ \E s \in lake : s.key = r.key /\ s.lsn # 0
      BY <1>11, <2>2 DEF LakeInv
    <3>. QED
      BY <1>7, <1>9, <2>2, <3>1, <3>2
  <2>3. CASE r \in FrameRows /\ Window(r.key) = {}
    BY <1>2, <2>3, FrameRow
  <2>. QED
    BY <2>1, <2>2, <2>3
<1>12. ASSUME NEW k \in Key
       PROVE  Applied(k) = IF \E r \in lake' : r.key = k
                           THEN Image(base, log, k, to) ELSE Absent
  <2>1. CASE k \in DOMAIN frame.rows
    BY <1>2, <2>1, RowOfFrame DEF Applied
  <2>2. CASE k \notin DOMAIN frame.rows /\ Window(k) # {}
    BY <1>6, <2>2 DEF Applied, WindowKeys
  <2>3. CASE k \notin DOMAIN frame.rows /\ Window(k) = {}
    <3>1. Applied(k) = target[k]
      BY <2>3 DEF Applied, WindowKeys
    <3>2. (\E r \in lake' : r.key = k) <=> \E r \in lake : r.key = k
      BY <1>2, <2>3, FrameRow
    <3>3. CASE \E r \in lake : r.key = k
      BY <1>7, <1>8, <2>3, <3>1, <3>2, <3>3 DEF LakeInv
    <3>4. CASE ~\E r \in lake : r.key = k
      BY <3>1, <3>2, <3>4 DEF LakeInv
    <3>. QED
      BY <3>3, <3>4
  <2>. QED
    BY <2>1, <2>2, <2>3
<1>13. /\ \A r \in lake' : Event(r.key, r.lsn)' = Event(r.key, r.lsn)
       /\ \A r \in lake' : r.lsn = 0 \/ r = Event(r.key, r.lsn)'
  BY <1>1, <1>9 DEF Event
<1>. QED
  BY <1>1, <1>9, <1>10, <1>11, <1>12, <1>13 DEF LakeInv, Event

\* Where the target is emptied, the lake is.
LEMMA EmptiedTogether ==
  ASSUME [PipelineNext]_pipelineVars, ~Write, target' # target
  PROVE  state = None /\ \E n \in ChunkSizes : CallDblog(n)
BY DEF pipelineVars, loopVars, PipelineNext, LoopNext, Load, CallDblog, Raises, Save, Crash,
   StateAtLsn

\* A step that does not write leaves the lake alone, or empties it.
LEMMA LakeOfOthers ==
  ASSUME LoopInv, LakeInv, [PipelineNext]_pipelineVars, ~Write, NewTargetOnDump,
         lake' = IF state = None /\ \E n \in ChunkSizes : CallDblog(n) THEN {} ELSE lake
  PROVE  LakeInv'
<1>1. at' = at /\ (target' = target \/ target' = Empty) /\ at \in Nat
  BY TargetKept, LoopTypes
<1>2. /\ \A k : Image(base', log', k, at) = Image(base, log, k, at)
      /\ \A k : EventsOf(log', k, 1, at) = EventsOf(log, k, 1, at)
      /\ \A i \in 1..at : log'[i] = log[i]
  BY TargetKept, ImagesStay, EventsStay
<1>3. CASE lake' = {}
  <2>1. CASE state = None /\ \E n \in ChunkSizes : CallDblog(n)
    BY <1>3, <2>1 DEF LakeInv, CallDblog, Empty
  <2>2. CASE ~(state = None /\ \E n \in ChunkSizes : CallDblog(n))
    <3>1. lake = {} /\ \A k \in Key : target[k] = Absent
      BY <1>3, <2>2 DEF LakeInv
    <3>. QED
      BY <1>1, <1>3, <3>1 DEF LakeInv, Empty
  <2>. QED
    BY <2>1, <2>2
<1>4. CASE lake' = lake /\ lake # {}
  <2>1. ASSUME NEW r \in lake, r.lsn \in EventsOf(log, r.key, 1, at)
        PROVE  Event(r.key, r.lsn)' = Event(r.key, r.lsn)
    <3>1. r.lsn \in 1..at
      BY <1>1, <2>1 DEF EventsOf
    <3>. QED
      BY <1>2, <1>4, <3>1 DEF Event
  <2>2. ~(state' = None /\ pc' \notin {"rest", "written"})
    <3>. SUFFICES ASSUME state' = None, pc' \notin {"rest", "written"} PROVE FALSE
      OBVIOUS
    <3>1. state = None
      BY StateKept
    <3>2. ~(\E n \in ChunkSizes : CallDblog(n))
      BY <1>4, <3>1
    <3>. QED
      BY <1>4, <3>1, <3>2, LeavesRest DEF LakeInv
  <2>3. \A r \in lake :
          /\ r.key \in Key
          /\ r.lsn = 0 \/ (r.lsn \in EventsOf(log', r.key, 1, at) /\ r = Event(r.key, r.lsn)')
    BY <1>2, <2>1 DEF LakeInv
  <2>4. \A r \in lake : r.lsn # 0 =>
          \E s \in lake : s.key = r.key /\ s.lsn = Last(EventsOf(log', r.key, 1, at))
    BY <1>2 DEF LakeInv
  <2>5. \A r \in lake : r.lsn = 0 =>
          \/ r.image = Image(base', log', r.key, at)
          \/ \E s \in lake : s.key = r.key /\ s.lsn # 0
    BY <1>2 DEF LakeInv
  <2>6. \A k \in Key :
          target'[k] = IF \E r \in lake : r.key = k THEN Image(base', log', k, at) ELSE Absent
    <3>1. target' = target
      BY <1>4, EmptiedTogether
    <3>. QED
      BY <1>2, <3>1 DEF LakeInv
  <2>. QED
    BY <1>1, <1>4, <2>2, <2>3, <2>4, <2>5, <2>6 DEF LakeInv, Event
<1>. QED
  BY <1>3, <1>4

\* No step of the loop breaks it.
LEMMA LakeStep ==
  ASSUME NewTargetOnDump
  PROVE  LoopInv /\ LakeInv /\ [LakeNext]_lakeVars => LakeInv'
<1>. SUFFICES ASSUME LoopInv, LakeInv, [LakeNext]_lakeVars PROVE LakeInv'
  OBVIOUS
<1>1. [PipelineNext]_pipelineVars
  BY DEF LakeNext, PipelineNext, LoopNext, lakeVars
<1>2. CASE Write
  <2>1. lake' = lake \cup FrameRows
    BY <1>2, LoadAtRest
       DEF LakeNext, lakeVars, Write, CallDblog, Begin, callVars, loopVars, Save, Crash,
           StateAtLsn, Raises, Proceeds, Refused, SeedFloor, SeedOpening,
           CheckRetention, RetentionExpired, LowWatermark, ScanRow, ScanEnd,
           ScanRefused, Raise, HighWatermark, AwaitWatermark, ReadMax, NoWindow,
           ReadWindow, Batch, WindowRefused, pipelineVars, vars
  <2>. QED
    BY <1>2, <2>1, LakeOfWrite
<1>3. CASE ~Write
  <2>1. CASE \E n \in ChunkSizes :
               /\ CallDblog(n)
               /\ lake' = IF state = None /\ NewTargetOnDump THEN {} ELSE lake
    BY <1>1, <1>3, <2>1, LakeOfOthers
  <2>2. CASE lake' = lake /\ ~(\E n \in ChunkSizes : CallDblog(n))
    BY <1>1, <1>3, <2>2, LakeOfOthers
  <2>3. CASE lake' = lake /\ \E n \in ChunkSizes : CallDblog(n)
    <3>1. pc = "rest" /\ pc' \in {"floor", "retain"} /\ run' = state /\ UNCHANGED sourceVars
      BY <2>3 DEF CallDblog, Begin
    <3>. QED
      BY <1>3, <2>1, <2>3, <3>1
         DEF LakeNext, lakeVars, CallDblog, Begin, callVars, loopVars, Load, Save,
             Crash, StateAtLsn, Raises, Proceeds, Refused, SeedFloor, SeedOpening,
             CheckRetention, RetentionExpired, LowWatermark, ScanRow, ScanEnd,
             ScanRefused, Raise, HighWatermark, AwaitWatermark, ReadMax, NoWindow,
             ReadWindow, Batch, WindowRefused, pipelineVars, vars, sourceVars
  <2>. QED
    BY <1>3, <2>1, <2>2, <2>3 DEF LakeNext, lakeVars
<1>. QED
  BY <1>2, <1>3
-----------------------------------------------------------------------------
\* The rows of a key in the lake that are newest are the table's.
LEMMA NewestRows ==
  ASSUME LoopInv, LakeInv, NEW k \in Key, \E r \in lake : r.key = k
  PROVE  {r.image : r \in Newest(k)} = {Image(base, log, k, at)}
<1> DEFINE events == EventsOf(log, k, 1, at)
<1>1. at \in Nat
  BY LoopTypes
<1>2. \A i \in events : i \in 1..at
  BY <1>1 DEF EventsOf
<1>3. CASE \E r \in lake : r.key = k /\ r.lsn # 0
  <2>1. PICK s \in lake : s.key = k /\ s.lsn = Last(events)
    BY <1>3 DEF LakeInv
  <2>2. events # {}
    BY <1>3 DEF LakeInv
  <2>3. Last(events) \in events /\ \A i \in events : i <= Last(events)
    BY <1>1, <2>2, LastIsMax
  <2>4. s.lsn \in 1..at /\ s = Event(k, s.lsn)
    BY <1>2, <2>1, <2>3 DEF LakeInv
  <2>5. s.image = Image(base, log, k, at)
    BY <2>1, <2>2, <2>4 DEF Event, Image
  <2>6. \A r \in lake : r.key = k => r.lsn = 0 \/ (r.lsn \in events /\ r = Event(k, r.lsn))
    BY DEF LakeInv
  <2>. HIDE DEF events
  <2>7. s \in Newest(k)
    BY <2>1, <2>3, <2>4, <2>6 DEF Newest
  <2>8. ASSUME NEW r \in Newest(k) PROVE r = s
    <3>1. r \in lake /\ r.key = k /\ s.lsn <= r.lsn
      BY <2>1, <2>8 DEF Newest
    <3>2. r.lsn \in events /\ r = Event(k, r.lsn)
      BY <2>4, <2>6, <3>1
    <3>3. r.lsn = s.lsn
      BY <1>2, <2>1, <2>3, <2>4, <3>1, <3>2
    <3>. QED
      BY <2>4, <3>2, <3>3
  <2>. QED
    BY <2>5, <2>7, <2>8
<1>4. CASE \A r \in lake : r.key = k => r.lsn = 0
  <2>1. \A r \in lake : r.key = k => r.image = Image(base, log, k, at)
    BY <1>4 DEF LakeInv
  <2>2. PICK s \in lake : s.key = k
    OBVIOUS
  <2>3. s \in Newest(k)
    BY <1>4, <2>2 DEF Newest
  <2>. QED
    BY <2>1, <2>2, <2>3 DEF Newest
<1>. QED
  BY <1>3, <1>4

LEMMA LakeHolds ==
  ASSUME NewTargetOnDump
  PROVE  LakeSpec => [](LoopInv /\ LakeInv)
<1>1. LakeInit => LakeInv
  BY DEF LakeInit, LakeInv, PipelineInit, Empty
<1>2. LoopInv /\ LakeInv /\ [LakeNext]_lakeVars => LakeInv'
  BY LakeStep
<1>. QED
  BY <1>1, <1>2, LakeIsPipeline, LoopHolds, PTL DEF LakeSpec

\* Reading each key's newest row by start_lsn out of an append-only target
\* gives what applying each frame to a keyed one gives, for any key.
THEOREM LakeIsTarget ==
  ASSUME NewTargetOnDump
  PROVE  LakeSpec => []NewestIsTarget
<1>1. LoopInv /\ LakeInv => NewestIsTarget
  <2>. SUFFICES ASSUME LoopInv, LakeInv, NEW k \in Key
                PROVE  (IF {r.image : r \in Newest(k)} = {} THEN {Absent}
                        ELSE {r.image : r \in Newest(k)}) = {target[k]}
    BY DEF NewestIsTarget, ReadBack
  <2>1. CASE \E r \in lake : r.key = k
    <3>1. target[k] = Image(base, log, k, at)
      BY <2>1 DEF LakeInv
    <3>2. {r.image : r \in Newest(k)} = {Image(base, log, k, at)}
      BY <2>1, NewestRows
    <3>. QED
      BY <3>1, <3>2
  <2>2. CASE ~\E r \in lake : r.key = k
    BY <2>2 DEF Newest, LakeInv
  <2>. QED
    BY <2>1, <2>2
<1>. QED
  BY <1>1, LakeHolds, PTL

\* And so the walked part of the table, as of the last LSN written.
THEOREM LakeIsCurrent ==
  ASSUME NewTargetOnDump, SingleColumnKey
  PROVE  LakeSpec => []NewestIsCurrent
<1>1. NewestIsTarget /\ WalkedComplete => NewestIsCurrent
  BY DEF NewestIsTarget, WalkedComplete, NewestIsCurrent
<1>. QED
  BY <1>1, LakeIsTarget, LakeIsPipeline, WalkedIsComplete, PTL
=============================================================================
