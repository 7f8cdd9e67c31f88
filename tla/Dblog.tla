------------------------------- MODULE Dblog -------------------------------
(***************************************************************************)
(* dblog(): one call, one batch.                                           *)
(*                                                                         *)
(* Every round trip to the source is a step of its own, so the database    *)
(* commits, captures and cleans up between any two of them; the page read  *)
(* is row by row, as a READ COMMITTED scan is.  The wait on the watermark  *)
(* is the promise of Barrier, which CaptureScan shows the connector keeps. *)
(*                                                                         *)
(* The table spec is pinned (inspect_every=None).                          *)
(***************************************************************************)
EXTENDS ChangeLog, FiniteSets

CONSTANTS
  Lead,        \* the leading primary-key column of each key
  ChunkSizes,  \* the chunk sizes a caller may ask for
  None,        \* no run state
  Adjacent     \* the LSNs that are the increment of the one before

\* Rows sorted by the whole key are sorted by its leading column.
ASSUME LeadAssumption ==
  /\ Lead \in [Key -> Nat]
  /\ \A j, k \in Key : j < k => Lead[j] <= Lead[k]

ASSUME ChunkSizesAssumption == ChunkSizes \subseteq Nat \ {0}

\* RunState.  chunk_key 0 stands for None, the start of the table.  The position
\* is in two parts: last_lsn is the first LSN that a window from it reads, and
\* short says that it falls before that LSN, as an incremented one may.
RunState == [last_lsn : Nat, short : BOOLEAN, chunk_key : Nat, dump_done : BOOLEAN]

ASSUME NoneAssumption == None \notin RunState

VARIABLES
  state,  \* the run state the caller holds and passes to the next call
  pc,     \* where the call is
  run,    \* the call's own copy of the run state, as it advances
  call,   \* the call's other locals
  frame   \* the batch it returns

callVars == <<state, pc, run, call, frame>>

vars == <<sourceVars, callVars>>

\* size: chunk_size.  page: the rows read so far, a version for each key;
\* cursor: the last key read.  high: get_max_lsn's answer.  low and mark are
\* not in the code: how much was committed at the two watermarks.
NoRows == [k \in {} |-> 0]

NoCall == [size |-> 0, page |-> NoRows, cursor |-> -1, low |-> 0, mark |-> 0, high |-> 0]

\* The frame holds the log's events at from..to and then dump rows.
NoFrame == [from |-> 1, to |-> 0, rows |-> NoRows]

LocalsInit ==
  /\ state = None
  /\ pc = "rest"
  /\ run = None
  /\ call = NoCall
  /\ frame = NoFrame

\* The position is not below the oldest LSN that the log retains.
Retained(s) == floor < s.last_lsn \/ (floor = s.last_lsn /\ ~s.short)

\* The call raises: its locals are gone and the caller keeps what it had.
Raise ==
  /\ pc' = "rest"
  /\ run' = None
  /\ call' = NoCall
  /\ UNCHANGED <<state, frame>>
-----------------------------------------------------------------------------
(* Opening: _seed or _check_retention.                                     *)

Begin(n) ==
  /\ pc = "rest"
  /\ pc' = IF state = None THEN "floor" ELSE "retain"
  /\ run' = state
  /\ call' = [NoCall EXCEPT !.size = n]
  /\ UNCHANGED <<sourceVars, state, frame>>

SeedFloor ==
  /\ pc = "floor"
  /\ pc' = "opening"
  /\ run' = [last_lsn |-> floor, short |-> FALSE, chunk_key |-> 0, dump_done |-> FALSE]
  /\ UNCHANGED <<sourceVars, state, call, frame>>

\* Bug for the mutants: two LSNs past the maximum.  (At one past it nothing is
\* lost: what has that LSN was committed before the page was read.)
SeedOpeningPastMax ==
  /\ pc = "opening"
  /\ pc' = "low"
  /\ run' = [run EXCEPT !.last_lsn = IF captured >= @ THEN captured + 2 ELSE @]
  /\ UNCHANGED <<sourceVars, state, call, frame>>

\* The run opens at the present, or at the floor where that is higher.
SeedOpening ==
  /\ pc = "opening"
  /\ pc' = "low"
  /\ run' = [run EXCEPT !.last_lsn = IF captured > @ THEN captured ELSE @]
  /\ UNCHANGED <<sourceVars, state, call, frame>>

CheckRetention ==
  /\ pc = "retain"
  /\ Retained(run)
  /\ pc' = IF run.dump_done THEN "max" ELSE "low"
  /\ UNCHANGED <<sourceVars, state, run, call, frame>>

\* Bug for the mutants: the position is dropped and the call goes on.
RetentionExpiredGoesOn ==
  /\ pc = "retain"
  /\ ~Retained(run)
  /\ pc' = "low"
  /\ state' = None
  /\ run' = None
  /\ UNCHANGED <<sourceVars, call, frame>>

\* CdcRetentionExpiredError: the caller drops its state, to dump again.
RetentionExpired ==
  /\ pc = "retain"
  /\ ~Retained(run)
  /\ pc' = "rest"
  /\ state' = None
  /\ run' = None
  /\ call' = NoCall
  /\ UNCHANGED <<sourceVars, frame>>
-----------------------------------------------------------------------------
(* A page of the table: _next_chunk between the two watermarks.            *)

LowWatermark ==
  /\ pc = "low"
  /\ pc' = "scan"
  /\ call' = [call EXCEPT !.low = Len(log)]
  /\ UNCHANGED <<sourceVars, state, run, frame>>

\* The rows the page has still to visit.
Ahead == {k \in Live : Lead[k] >= run.chunk_key /\ k > call.cursor}

PageFull == Cardinality(DOMAIN call.page) = call.size

ScanRow(k) ==
  /\ pc = "scan"
  /\ ~PageFull
  /\ k \in Ahead
  /\ \A j \in Ahead : k <= j
  /\ call' = [call EXCEPT !.cursor = k,
                          !.page = [j \in DOMAIN @ \cup {k} |->
                                      IF j = k THEN Row(k) ELSE @[j]]]
  /\ UNCHANGED <<sourceVars, state, pc, run, frame>>

\* No two rows of the page share a leading key.
LeadUnique ==
  \A j, k \in DOMAIN call.page : Lead[j] = Lead[k] => j = k

\* Bugs for the mutants: a full page ends the dump; the key is advanced twice;
\* the key is not advanced at all.
AdvancedFullIsDone ==
  [run EXCEPT !.chunk_key = IF call.cursor = -1 THEN @ ELSE Lead[call.cursor] + 1,
              !.dump_done = Cardinality(DOMAIN call.page) <= call.size]

AdvancedTwice ==
  [run EXCEPT !.chunk_key = IF call.cursor = -1 THEN @ ELSE Lead[call.cursor] + 2,
              !.dump_done = Cardinality(DOMAIN call.page) < call.size]

AdvancedNowhere ==
  [run EXCEPT !.chunk_key = IF call.cursor = -1 THEN @ ELSE Lead[call.cursor],
              !.dump_done = Cardinality(DOMAIN call.page) < call.size]

\* _next_chunk's advance; _key_after is one past the last row's leading key.
Advanced ==
  [run EXCEPT !.chunk_key = IF call.cursor = -1 THEN @ ELSE Lead[call.cursor] + 1,
              !.dump_done = Cardinality(DOMAIN call.page) < call.size]

ScanEnd ==
  /\ pc = "scan"
  /\ PageFull \/ Ahead = {}
  /\ LeadUnique
  /\ pc' = "high"
  /\ run' = Advanced
  /\ UNCHANGED <<sourceVars, state, call, frame>>

\* _key_after's ValueError.
ScanRefused ==
  /\ pc = "scan"
  /\ PageFull \/ Ahead = {}
  /\ ~LeadUnique
  /\ Raise
  /\ UNCHANGED sourceVars

HighWatermark ==
  /\ pc = "high"
  /\ pc' = "await"
  /\ call' = [call EXCEPT !.mark = Len(log)]
  /\ UNCHANGED <<sourceVars, state, run, frame>>

\* Bug for the mutants: nothing waits for the capture job.
AwaitNothing ==
  /\ pc = "await"
  /\ pc' = "max"
  /\ UNCHANGED <<sourceVars, state, run, call, frame>>

AwaitWatermark ==
  /\ pc = "await"
  /\ call.mark <= captured
  /\ pc' = "max"
  /\ UNCHANGED <<sourceVars, state, run, call, frame>>
-----------------------------------------------------------------------------
(* A window of the log, and the merge: _read_window and _merge_chunk.      *)

\* The rows the log has an event of at from..to.
WindowKeys(from, to) == {k \in Key : EventsOf(log, k, from, to) # {}}

\* Bug for the mutants: the chunk's copy of a changed row survives.
SurvivingAll(page, from, to) == page

\* _supersede: the page without the rows the window carries.
Surviving(page, from, to) ==
  [k \in DOMAIN page \ WindowKeys(from, to) |-> page[k]]

\* Bug for the mutants: the position is incremented twice.
BatchSkipsOne(to) ==
  /\ pc' = "returned"
  /\ frame' = [from |-> run.last_lsn, to |-> to,
               rows |-> Surviving(call.page, run.last_lsn, to)]
  /\ run' = [run EXCEPT !.last_lsn = to + 2]

\* Bug for the mutants: the next window opens at the end of this one.
BatchReopens(to) ==
  /\ pc' = "returned"
  /\ frame' = [from |-> run.last_lsn, to |-> to,
               rows |-> Surviving(call.page, run.last_lsn, to)]
  /\ run' = IF run.last_lsn <= to THEN [run EXCEPT !.last_lsn = to, !.short = FALSE] ELSE run

\* The batch with its window at run.last_lsn..to.  The next one opens past it,
\* at the increment of to, or where this one did if there was no window.
Batch(to) ==
  /\ pc' = "returned"
  /\ frame' = [from |-> run.last_lsn, to |-> to,
               rows |-> Surviving(call.page, run.last_lsn, to)]
  /\ run' = [run EXCEPT !.last_lsn = to + 1,
                        !.short = IF run.last_lsn <= to THEN to + 1 \notin Adjacent ELSE @]

ReadMax ==
  /\ pc = "max"
  /\ run.last_lsn <= captured
  /\ pc' = "events"
  /\ call' = [call EXCEPT !.high = captured]
  /\ UNCHANGED <<sourceVars, state, run, frame>>

\* Bug for the mutants: a position that the source has just reached counts as
\* past it.
NoWindowAtMax ==
  /\ pc = "max"
  /\ run.last_lsn >= captured
  /\ Batch(run.last_lsn - 1)
  /\ UNCHANGED <<sourceVars, state, call>>

\* The position is already past the source: no window, and it stays put.
NoWindow ==
  /\ pc = "max"
  /\ run.last_lsn > captured
  /\ Batch(run.last_lsn - 1)
  /\ UNCHANGED <<sourceVars, state, call>>

ReadWindow ==
  /\ pc = "events"
  /\ Retained(run)
  /\ Batch(call.high)
  /\ UNCHANGED <<sourceVars, state, call>>

\* The log was cleaned up since CheckRetention: SQL Server refuses the range.
WindowRefused ==
  /\ pc = "events"
  /\ ~Retained(run)
  /\ Raise
  /\ UNCHANGED sourceVars

\* A connection lost, or await_watermark's TimeoutError.
CallFails ==
  /\ pc \notin {"rest", "returned"}
  /\ Raise
  /\ UNCHANGED sourceVars
-----------------------------------------------------------------------------
(* The call's steps, and its caller at its simplest: it carries on from    *)
(* the state a call returned, or from the one it passed.                   *)

\* The call raises what the README's loop has no clause for.
Refused == ScanRefused \/ WindowRefused

Proceeds ==
  \/ SeedFloor \/ SeedOpening \/ CheckRetention \/ RetentionExpired
  \/ LowWatermark \/ (\E k \in Key : ScanRow(k)) \/ ScanEnd
  \/ HighWatermark \/ AwaitWatermark
  \/ ReadMax \/ NoWindow \/ ReadWindow

CallStep == Proceeds \/ Refused

Return ==
  /\ pc = "returned"
  /\ state' \in {state, run}
  /\ pc' = "rest"
  /\ run' = None
  /\ call' = NoCall
  /\ frame' = NoFrame
  /\ UNCHANGED sourceVars

Init == SourceInit /\ LocalsInit

Next ==
  \/ SourceNext /\ UNCHANGED callVars
  \/ \E n \in ChunkSizes : Begin(n)
  \/ CallStep
  \/ CallFails
  \/ Return

Spec == Init /\ [][Next]_vars
-----------------------------------------------------------------------------
PCs == {"rest", "floor", "opening", "retain", "low", "scan", "high", "await",
        "max", "events", "returned"}

\* Rows read off the table: a version for each of some keys.
Rows == UNION {[S -> 0..MaxLog] : S \in SUBSET Key}

TypeOK ==
  /\ SourceTypeOK
  /\ state \in RunState \cup {None}
  /\ pc \in PCs
  /\ run \in RunState \cup {None}
  /\ call \in [size : Nat, page : Rows, cursor : Key \cup {-1},
               low : Nat, mark : Nat, high : Nat]
  /\ frame \in [from : Nat, to : Nat, rows : Rows]
  /\ pc \notin {"rest", "floor"} => run \in RunState

\* A dump row that survives the merge is the row as the table held it at the
\* end of the frame's window: no copy read mid-scan outlives a newer event.
NoStaleDumpRow ==
  \A k \in DOMAIN frame.rows : frame.rows[k] = Image(base, log, k, frame.to)

\* It is also the row as the table held it at the low watermark, the time
\* to_events stamps on it.
DumpRowsDated ==
  pc = "returned" =>
    \A k \in DOMAIN frame.rows : frame.rows[k] = Image(base, log, k, call.low)

Covered(s, k) == s # None /\ (s.dump_done \/ Lead[k] < s.chunk_key)

\* Row k is accounted for in the batch: as a dump row, by an event of the
\* window, or because the window ends with the row gone.
Accounted(k) ==
  \/ k \in DOMAIN frame.rows
  \/ k \in WindowKeys(frame.from, frame.to)
  \/ Image(base, log, k, frame.to) = Absent

\* Every row of the key range a call walks is accounted for in its batch.  Rows
\* inserted, deleted or changed behind and ahead of the scan included, and
\* whatever sizes the pages have.
PageComplete ==
  pc = "returned" =>
    \A k \in Key : Covered(run, k) /\ ~Covered(state, k) => Accounted(k)

\* Row k comes after the row that a full page ended at, and shares its leading
\* key.
Tied(k) ==
  /\ ~run.dump_done
  /\ call.cursor \in Key
  /\ call.cursor < k /\ Lead[call.cursor] = Lead[k]

\* The same with a key of several columns, but for what a page that ended
\* inside a leading key skipped of it: nothing further back is lost.
PageCompleteUpToTies ==
  pc = "returned" =>
    \A k \in Key : Covered(run, k) /\ ~Covered(state, k) /\ ~Tied(k) => Accounted(k)

\* Where the call's page opens.
Start == IF state = None THEN 0 ELSE state.chunk_key

\* A dump that is over stays over; one that is not ends or has got further
\* along the key.
DumpOnward ==
  IF state # None /\ state.dump_done
  THEN run.dump_done /\ run.chunk_key = state.chunk_key
  ELSE run.dump_done \/ Start < run.chunk_key

\* A batch takes its run forward, whatever the page and the window turned out
\* to be: the position does not go back, and no dump asks for the same page
\* twice.
BatchAdvances ==
  pc = "returned" => (state # None => state.last_lsn <= run.last_lsn) /\ DumpOnward
=============================================================================
