------------------------------ MODULE Pipeline ------------------------------
(***************************************************************************)
(* The loop the README shows, around dblog(): write the frame to a target  *)
(* keyed like the table, save the state, and call again until a call has   *)
(* nothing to hand over.  The process that runs it ends there, by an       *)
(* exception, or by a crash between any two steps, and when it is run      *)
(* again it starts from the state it saved last.                           *)
(***************************************************************************)
EXTENDS Dblog

CONSTANTS
  MaxFaults,        \* bound: crashes, failed calls and hand-overs
  NewTargetOnDump   \* TRUE: a dump from no state goes to an empty target

ASSUME PipelineAssumption == MaxFaults \in Nat /\ NewTargetOnDump \in BOOLEAN

VARIABLES
  saved,   \* the run state save_my_state stored last
  target,  \* what the frames written so far amount to: a version of each row
  at,      \* the last LSN of the last frame written
  faults,  \* how much has gone wrong so far
  running  \* the process with the loop in it is up

loopVars == <<saved, target, at, faults>>

pipelineVars == <<vars, loopVars, running>>

Empty == [k \in Key |-> Absent]

PipelineInit ==
  /\ Init
  /\ saved = None
  /\ target = Empty
  /\ at = 0
  /\ faults = 0
  /\ running = FALSE

\* The process is started, and loads the state.
Load ==
  /\ ~running
  /\ running' = TRUE
  /\ state' = saved
  /\ UNCHANGED <<sourceVars, pc, run, call, frame, loopVars>>

CallDblog(n) ==
  /\ running
  /\ Begin(n)
  /\ target' = IF state = None /\ NewTargetOnDump THEN Empty ELSE target
  /\ UNCHANGED <<saved, at, faults, running>>

\* The loop catches what asks for a new dump, and nothing else.
Raises ==
  /\ Refused
  /\ running' = FALSE
  /\ UNCHANGED loopVars

\* Row k once the frame is applied, a row at a time and the last one winning:
\* the events, in LSN order, and after them the dump rows.
Applied(k) ==
  IF k \in DOMAIN frame.rows THEN frame.rows[k]
  ELSE IF k \in WindowKeys(frame.from, frame.to) THEN Image(base, log, k, frame.to)
  ELSE target[k]

Write ==
  /\ pc = "returned"
  /\ pc' = "written"
  /\ target' = [k \in Key |-> Applied(k)]
  /\ at' = frame.to
  /\ UNCHANGED <<sourceVars, state, run, call, frame, saved, faults, running>>

\* The batch's frame is None.
NothingRead == DOMAIN frame.rows = {} /\ WindowKeys(frame.from, frame.to) = {}

\* The loop calls again, or ends with a batch that has no frame.
Save ==
  /\ pc = "written"
  /\ pc' = "rest"
  /\ running' = ~NothingRead
  /\ saved' = run
  /\ state' = run
  /\ run' = None
  /\ call' = NoCall
  /\ frame' = NoFrame
  /\ UNCHANGED <<sourceVars, target, at, faults>>

\* The process dies, or a lost connection or a TimeoutError ends it, and with it
\* what was not saved.
Crash ==
  /\ running
  /\ faults < MaxFaults
  /\ faults' = faults + 1
  /\ running' = FALSE
  /\ pc' = "rest"
  /\ state' = saved
  /\ run' = None
  /\ call' = NoCall
  /\ frame' = NoFrame
  /\ UNCHANGED <<sourceVars, saved, target, at>>

\* The target has every row of the table as of the last LSN written.
TargetWhole == \A k \in Key : target[k] = Image(base, log, k, at)

\* The caller's state is replaced by state_at_lsn(from): a position its target
\* has reached, still retained, and the table taken for walked only where the
\* target has all of it.
StateAtLsn(from, walked) ==
  /\ pc = "rest"
  /\ faults < MaxFaults
  /\ from <= at + 1
  /\ walked => TargetWhole
  /\ \E short \in {FALSE, from \notin Adjacent} :
       state' = [last_lsn |-> from, short |-> short, chunk_key |-> 0, dump_done |-> walked]
  /\ Retained(state')
  /\ saved' = state'
  /\ faults' = faults + 1
  /\ UNCHANGED <<sourceVars, pc, run, call, frame, target, at, running>>

LoopNext ==
  \/ \E n \in ChunkSizes : CallDblog(n)
  \/ Proceeds /\ UNCHANGED <<loopVars, running>>
  \/ Raises
  \/ Write
  \/ Save

PipelineNext ==
  \/ SourceNext /\ UNCHANGED <<callVars, loopVars, running>>
  \/ Load
  \/ LoopNext
  \/ Crash
  \/ \E from \in 1..MaxLog, walked \in BOOLEAN : StateAtLsn(from, walked)

PipelineSpec == PipelineInit /\ [][PipelineNext]_pipelineVars

\* The capture job goes on capturing and a process that is up goes on.
LoopFairness ==
  /\ WF_pipelineVars(Capture /\ UNCHANGED <<callVars, loopVars, running>>)
  /\ WF_pipelineVars(LoopNext)

\* And one that has ended is run again: nothing in the code does that.
PipelineFairness == LoopFairness /\ WF_pipelineVars(Load)

FairPipelineSpec == PipelineSpec /\ PipelineFairness
-----------------------------------------------------------------------------
PipelineTypeOK ==
  /\ saved \in RunState \cup {None}
  /\ target \in [Key -> Version]
  /\ at \in 0..Len(log)
  /\ faults \in 0..MaxFaults
  /\ running \in BOOLEAN
  /\ pc # "rest" => running

\* A state that a call would still accept.
Resumable(s) == s # None /\ Retained(s)

\* The target is the table as of the last LSN written, restricted to the rows
\* it has: it holds no row that was gone by then and no image older or newer.
TargetExact ==
  \A k \in Key : target[k] \in {Absent, Image(base, log, k, at)}

\* The part of the table the saved state says is walked is in it, whole.
WalkedComplete ==
  Resumable(saved) =>
    \A k \in Key : Covered(saved, k) => target[k] = Image(base, log, k, at)

\* Row k is not the first of its leading key.
Behind(k) == \E j \in Key : j < k /\ Lead[j] = Lead[k]

\* With a key of several columns a page may end inside a leading key, but the
\* first row of each is never lost, however often the walk is taken up again.
FirstsComplete ==
  Resumable(saved) =>
    \A k \in Key :
      Covered(saved, k) /\ ~Behind(k) => target[k] = Image(base, log, k, at)

\* No transaction between two frames is left out: what a resumed call reads
\* starts no later than where the target ends, whatever was lost on the way.
NoGap == pc = "returned" /\ state # None => frame.from <= at + 1

\* Nothing that is retried, replayed or handed over takes the target back to
\* an earlier state of the table.
NeverBack == [][at' >= at]_at

\* The loop ends only on the table: where a batch has nothing, the dump is over,
\* and the target has every row as of the log's end that the call was told and
\* the high watermark of its page, if it read one.
EndsOnTheTable ==
  pc = "returned" /\ NothingRead =>
    /\ run.dump_done
    /\ call.mark <= frame.to
    /\ \A k \in Key : target[k] = Image(base, log, k, frame.to)

\* And it does end, once the database is quiet: the dump is over at some time
\* and the log read to its end, or else an error ends it.
LoopEnds == running ~> ~running

\* Once the database is quiet, and if the loop is run again whenever it ended,
\* the target becomes the table and stays it.
CatchesUp ==
  <>[](/\ Resumable(saved) /\ saved.dump_done
       /\ at = Len(log)
       /\ \A k \in Key : target[k] = Row(k))

\* The loop refines Replica: the copy is announced complete by a saved state
\* that is past the dump and can still be resumed.
Copy == INSTANCE Replica WITH
  whole <- Resumable(saved) /\ saved.dump_done

KeepsReplica == Copy!Spec
=============================================================================
