-------------------------------- MODULE Lake --------------------------------
(***************************************************************************)
(* The loop with an append-only target: every frame's rows are kept, and   *)
(* the table is read back as each key's newest row by start_lsn.  A dump   *)
(* row has the LSN of all zeros.                                           *)
(***************************************************************************)
EXTENDS Pipeline

VARIABLE lake  \* the rows written so far

lakeVars == <<pipelineVars, lake>>

\* to_events: a dump row as an event.
Stamped(k) == [key |-> k, lsn |-> 0, image |-> frame.rows[k]]

Event(k, i) == [key |-> k, lsn |-> i, image |-> IF k \in log[i].put THEN i ELSE Absent]

\* The rows of the frame about to be written.
FrameRows ==
  {Stamped(k) : k \in DOMAIN frame.rows}
    \cup UNION {{Event(k, i) : i \in EventsOf(log, k, frame.from, frame.to)} : k \in Key}

LakeInit == PipelineInit /\ lake = {}

LakeNext ==
  \/ \E n \in ChunkSizes :
       /\ CallDblog(n)
       /\ lake' = IF state = None /\ NewTargetOnDump THEN {} ELSE lake
  \/ Write /\ lake' = lake \cup FrameRows
  \/ /\ \/ SourceNext /\ UNCHANGED <<callVars, loopVars, running>>
        \/ Load
        \/ Proceeds /\ UNCHANGED <<loopVars, running>>
        \/ Raises
        \/ Save
        \/ Crash
        \/ \E from \in 1..MaxLog, walked \in BOOLEAN : StateAtLsn(from, walked)
     /\ UNCHANGED lake

LakeSpec == LakeInit /\ [][LakeNext]_lakeVars
-----------------------------------------------------------------------------
\* The rows of k that nothing in the lake is newer than.
Newest(k) ==
  {r \in lake : r.key = k /\ \A other \in lake : other.key = k => other.lsn <= r.lsn}

\* What a reader of the lake makes of k: one image, if the newest rows agree.
ReadBack(k) ==
  LET images == {r.image : r \in Newest(k)}
  IN  IF images = {} THEN {Absent} ELSE images

\* Ordering by start_lsn is as good as applying each frame to a keyed target,
\* at every moment and for every key: whatever was delivered twice or read
\* twice, and although a frame's dump rows come after its events in the one
\* and before them in the other.
NewestIsTarget == \A k \in Key : ReadBack(k) = {target[k]}

\* And so it rebuilds the walked part of the table, as of the last LSN written.
NewestIsCurrent ==
  Resumable(saved) =>
    \A k \in Key : Covered(saved, k) => ReadBack(k) = {Image(base, log, k, at)}
=============================================================================
