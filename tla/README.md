# A TLA+ model of pydblog

pydblog streams a SQL Server table's changes out of CDC and interleaves them, when asked,
with a chunked dump of the table's rows. One call of `dblog()` reads one batch and hands
back a frame and a `RunState`; the caller writes the one, saves the other and calls again.
There is no thread and no lock in the library. What makes it hard is everything it runs
against: a table that changes while a page of it is read, a capture job that lags, a
cleanup job that deletes the log from below, columns and capture instances that come and go
under a run that may live for months, a caller that dies between two of its steps.

These modules model that, TLC checks them on small tables, and TLAPS proves every safety
property of them for every table, history and interleaving.

Paths below are relative to `src/pydblog/` unless they say otherwise.

## The system

| Part | Code | State | Operations | Talks to |
| --- | --- | --- | --- | --- |
| the algorithm | `dblog.py` | none between calls; the run state it was given, the page, the two watermarks within one | `dblog`, `_seed`, `_check_retention`, `_next_chunk`, `_key_after`, `_read_window`, `_supersede`, `_merge_chunk`, `state_at_lsn`, `_check_table`, `_refresh_spec` | the connector, one round trip at a time |
| run state, batch | `state.py` | `spec`, `last_lsn`, `last_inspect`, `chunk_key`, `dump_done`; frozen | JSON round trip | passed through the caller |
| the barrier | `connectors/mssql/connector.py:474-554` | none | `watermark`, `await_watermark`, `_capture_passed` | the source's clock and `sys.dm_cdc_log_scan_sessions` |
| log reads | `connector.py:146-210, 389-472, 834-860` | none | `get_min_lsn`, `get_max_lsn`, `read_event_log`, `to_events`, `increment_lsn` | CDC functions and change tables |
| table reads | `connector.py:565-787` | none | `read_table`, `read_pk_range` | the table, READ COMMITTED |
| inspection | `connector.py:212-386`, `connectors/types.py` | none | `inspect`, column equality | system views, `schema.py` |
| schema map | `connectors/mssql/schema.py` | none | type map, `conform`, `validate` | - |
| connection | `connector.py:105-144, 789-832` | one connection | `connect`, `close`, cursors | the driver |
| the caller | repository `README.md:21-38` | the saved state, the target | write, save, call, dump again | `dblog()` |
| the source (external) | `sql/mssql/01_setup.sql` sets one up | table, log, change tables, floor | commit, capture, clean up, scan sessions | - |

What makes each of them correct, and what is hard about it:

- **Algorithm.** A dump row may not be older than the log position its batch ends at; no
  row of the key range a call walks may be in neither its chunk nor its window. The page
  read is not atomic, the log that can be read lags the table, and rows move under the
  cursor.
- **Barrier.** When the wait returns, all that was committed before the watermark is in the
  change tables, and it does return while the capture job runs. The only evidence is the
  times of scan sessions, which an idle database stops refreshing.
- **Run state and caller.** Whatever is lost, replayed or handed over, the target is a state
  the table was in, never goes back, and becomes the table. A crash may fall between any
  two steps, the retention floor may move between the check and the read.
- **Inspection, spec refresh.** Frames of a run share one schema, and so do its two reads; a
  capture instance re-created on other columns, or past the position, stops the run. The
  state may be months old, and the table may change between any two queries.
- **LSNs.** Successive windows are one LSN apart: neither a gap nor an overlap. A position
  is an increment, in bytes, mostly the LSN of no transaction, and is compared in bytes.

`PROJECT.json` lists these hazards one by one with the line each is at and the properties
that cover it.

## The modules

```
History      the table and its log as pure operators: EventsOf, Image
  ChangeLog  the source: Commit, Capture, Cleanup                       (external)
    Dblog    one call of dblog(), a step per round trip
      Positions  the same, its positions compared as bytes (Lsn)
      Pipeline   the caller's loop, crashes, state_at_lsn       refines  Replica
        Lake     the same with an append-only target            refines  Pipeline
          LakeOnCapture  the same over CaptureScan's polling    refines  Lake
Lsn          LSNs as bytes: their order, increment_lsn
CaptureScan  await_watermark against the capture job's scans    refines  Barrier
SpecRefresh  a run whose table and capture instances change under it

HistoryProofs, DblogProofs, PositionsProofs, CaptureScanProofs,
PipelineProofs, LakeProofs, LakeOnCaptureProofs,
SpecRefreshProofs                                               the theorems
MCDblog, MCPipeline, MCLake, MCLakeOnCapture, MCSpecRefresh     instances for TLC
```

**History** abstracts a row's content to the LSN that wrote it: two reads return the same
version exactly when they return the same image. An LSN is counted: it is an index into the
log. A transaction is the set of keys it wrote and the set it deleted, the net change of
each, and one with neither is a commit on another tracked table, which moves the
database-wide LSN.

**ChangeLog** is the source. `captured` answers `fn_cdc_get_max_lsn`, `floor` answers
`fn_cdc_get_min_lsn`. Initially the floor may be above `captured`, the capture instance
enabled a moment ago of `dblog.py:80-82`.

**Dblog** is `dblog()`. `pc` is where the call is, `run` its copy of the state, `call` its
locals, `frame` the batch.

| Action | Code |
| --- | --- |
| `Begin(n)` | `dblog.py:616-624`, with `chunk_size` n |
| `SeedFloor`, `SeedOpening` | `_seed`: `get_min_lsn`, then `get_max_lsn` and the larger of the two |
| `CheckRetention`, `RetentionExpired` | `_check_retention`; the caller's `except` drops its state |
| `LowWatermark`, `HighWatermark` | `watermark()` around the page |
| `ScanRow(k)`, `ScanEnd`, `ScanRefused` | `read_table` a row at a time, `_next_chunk`, `_key_after`'s `ValueError` |
| `AwaitWatermark` | `await_watermark`, by what it promises (`Barrier`) |
| `ReadMax`, `ReadWindow`, `NoWindow`, `WindowRefused` | `_read_window`; `Batch` is what it returns, merged with what is left of the chunk (`Surviving`) |
| `CallFails` | a lost connection, or the wait's `TimeoutError` |
| `Return` | the caller, at its simplest: goes on from the new state or from the old one |

The retention check, each watermark, each row, the maximum and the window are steps of
their own, so commits, captures and cleanups fall between any two. `chunk_key` 0 stands for
`None`; the keys of the instances are positive. A frame is the range of the log it carries
and its dump rows; with both empty it is the `None` of `BatchResult`.

A position has two parts. `last_lsn` is the first LSN, by count, that a window from it
reads. `short` says that it falls before that LSN: `increment_lsn` answers the next number,
and the next transaction's LSN may be any greater one, or just that one where the two are
`Adjacent`. To what is read it makes no difference; to `_check_retention`, and to SQL
Server's own refusal of a range, it does. A short position with the floor at the very next
LSN is refused (`Retained`), although nothing between the two was ever lost: the caller
dumps again for nothing, which is the safe side.

**Lsn** and **Positions** are what justifies counting. `Lsn` is a byte string, its order
and `increment_lsn`, which adds one where `int.from_bytes` does: at the last byte, carrying
on over the largest ones. `Positions` gives every transaction of `Dblog` an LSN of its own,
at whatever distances, and states that the comparisons of `dblog()`, made of bytes, come out
as those that `Dblog` makes.

**Pipeline** replaces `Return` by the process with the repository's loop in it
(`README.md:21-38`): `CallDblog`, `Write`, `Save`, and again. It is `running` until it ends,
in one of three ways: by the loop's `break`, when a batch has no frame (`NothingRead`); by
an error that the loop has no clause for, which is `_key_after`'s `ValueError` or a window
that the server refuses (`Raises`); or by a `Crash`, which may come between any two steps
and stands for a lost connection and for the wait's `TimeoutError`, too. `Load` is the
process started again, with the state saved last. `StateAtLsn` gives the caller a position its target has reached,
as `state_at_lsn` does. `target` is what the frames amount to, applied a row at a time;
`at` is the last LSN written. `NewTargetOnDump` says whether a dump from no state goes to
an empty target.

**Replica** is the promise of all that to the caller: a copy that moves forward through the
table's history, may lack rows until it is announced complete, and has every row after. It
knows no windows, chunks or watermarks. **Lake** keeps every row delivered and reads the
table back as the newest row of each key by `start_lsn`, which is what
`connector.py:446-450` says dump rows of all-zero LSNs allow.

**CaptureScan** is `await_watermark` polling the newest session row against a capture job
whose scans begin, copy, reach the log's end and then leave their row, consecutive empty
ones sharing it. Only the order of a time and the awaited watermark matters, so a time is
`Earlier`, `Equal` or `Later`. **Barrier** is the Protocol's sentence in `base.py:31-38`.

**LakeOnCapture** puts everything but the spec together: the README's loop, its target and
its lake, `dblog()`, and, for the high watermark and the wait, `CaptureScan`. The capture job
whose scans answer the polling is the one that moves the log the call reads next. A wait
that times out ends the call, a process may die while it polls. It has no more state than
its parts. Its abstract specification is `Lake` itself.

**SpecRefresh** is the rest of `dblog()`: the spec in the run state, `_refresh_spec`,
`inspect()`, `validate`, and what a table or a capture instance that is not what the spec
says does to the reads. It leaves out what `Dblog` has: the watermarks, keys and rows. A
column is its name, its type and whether it is computed. A capture instance is its change
table: its columns, the ones among them it still records values of, and its floor. A write
is an LSN. The administrators (`AddColumn`, `DropColumn`, `AlterColumn`, `Rekey`,
`CreateInstance`, `DropInstance`) and the CDC jobs take steps between any two queries. The
clock is left open: a call with a state may find its spec stale or not (`Begin(stale)`),
which covers every `inspect_every`, an age of months, and a clock set back.

| Action | Code |
| --- | --- |
| `InspectKey`, `InspectInstance`, `InspectColumns`, and `Fresh` | `inspect()`'s queries, in order; any of two instances may come first |
| `InspectRefused` | no primary key, `validate`'s and `_require_capture_instance`'s `ValueError` (`Admissible`, `Valid`) |
| `SeedInspected`, `SeedFloor`, `SeedOpening` | `_seed` |
| `Refreshed`, `SchemaChanged` | `_refresh_spec`: the new spec is adopted, or the run ends (`Moved`) |
| `NoFloor`, `CheckRetention`, `RetentionExpired` | `get_min_lsn` of an instance that may be gone, `_check_retention` |
| `ReadPage`, `PageRefused` | `read_table` with the spec's projection (`Projected`), on the table as it is |
| `ReadMax`, `NoWindow`, `ReadWindow`, `WindowRefused` | `_read_window` with the spec's instance and columns, as they are |
| `CallFails` | a lost connection, a value that does not cast, a timeout |
| `DropRun`, `Return` | the caller's `except`, and its `state = result.state` |

Definitions under "Bug(s) for the mutants" are used by no specification: each is a mapped
definition with a plausible mistake in it, and TLC finds the property it is paired with in
`PROJECT.json` violated when it takes that definition's place.

## The runs

| Run | Checks | Instance |
| --- | --- | --- |
| `barrier` | `TypeOK`, `AwaitSound`, `PromiseKept`, `WaitEnds` | 4 commits, any number of scans and waits |
| `dblog` | `TypeOK`, `NoStaleDumpRow`, `DumpRowsDated`, `PageCompleteUpToTies`, `BatchAdvances`, `ComparesAsBytes`, `MovesByIncrement` | 4 keys, two with one leading column, 3 LSNs of two bytes, pages of 1 and 2 |
| `on_capture` | `NoStaleDumpRow`, `FirstsComplete`, `ImplementsLake` | 3 keys, two with one leading column, 3 LSNs, 1 fault, pages of 1 |
| `lake` | `PipelineTypeOK`, `TargetExact`, `PageComplete`, `WalkedComplete`, `NoGap`, `EndsOnTheTable`, `NewestIsTarget`, `NewestIsCurrent`, `NeverBack`, `KeepsReplica` | 2 keys, 3 LSNs, 2 faults, pages of 1 and 2 |
| `catch_up` | `LoopEnds`, `CatchesUp` | 2 keys, 3 LSNs, 1 fault, pages of 1 |
| `spec_refresh` | `TypeOK`, `FramesStack`, `NoWriteLost`, `TwoReadsAgree` | 3 columns and one to add, 2 instances, 3 LSNs, 3 upsets |
| `follow_table` | `FollowsTable` | the same with 2 upsets |

- `NoStaleDumpRow`: a dump row that survives the merge is the row as of the end of its
  batch's window. `DumpRowsDated`: and as of the low watermark, which dates it.
- `PageComplete`: every row of the key range a call walks is a dump row, has an event in the
  window, or is gone at the window's end. `PageCompleteUpToTies`: with a key of several
  columns the same, but for the rows tied with the one that the page ended at, of its leading
  key and behind it. `FirstsComplete`: so the first row of each leading key that is walked is in the
  target, through crashes and replays.
- `BatchAdvances`: a batch does not take the position back, and a dump that is not over
  opens its next page further along.
- `ComparesAsBytes`: on which side of the floor and of every transaction a position is, is
  the same by bytes as by count. `MovesByIncrement`: a window leaves the position at the
  increment of its end, to the byte.
- `TargetExact`: the target holds no row that was gone at `at` and no image older or newer.
  `WalkedComplete`: the part the saved state says is walked is there, whole.
- `NoGap`, `NeverBack`: no transaction between two batches is left out; nothing replayed
  takes the target back.
- `KeepsReplica`: the loop implements `Replica`.
- `EndsOnTheTable`: a batch without a frame, on which the loop ends, comes only when the
  dump is over, from a log read as far as the call was told and past the high watermark of
  its page if it read one, and with the target the table as of there: "the table is walked
  and the log is caught up as of this call" (`dblog.py:600-601`).
- `LoopEnds`: once the database is quiet, the loop does end. `CatchesUp`: if it is run again
  whenever it has ended, the target becomes the table and stays it.
- `NewestIsTarget`: ordering an append-only target by `start_lsn` gives what applying its
  frames one after the other gives, at every moment and with batches delivered twice.
  `NewestIsCurrent`: so it gives the table.
- `AwaitSound`: a wait that has returned has every commit before its watermark captured.
  `PromiseKept`: polling implements `Barrier`. `WaitEnds`: a wait ends, with the deadline
  never passing, on an idle database too.
- `ImplementsLake`: all that the loop writes and saves over the polling it may over the
  promise.
- `FramesStack`: the frames of a run have one schema, whatever happened to the table and
  its instances between them. `NoWriteLost`: every write between the run's opening and the
  position in a state was in a frame, whatever instances came and went in between.
- `TwoReadsAgree`: where a page can be read and its window too, the page asks for exactly
  the columns that an event of the row would have a value in.
- `FollowsTable`: once the schema is left alone with a key, one instance and nothing
  `validate` refuses, the run ends up with the spec `inspect()` would build, and keeps it.

**Bounds.** `MaxLog`, `MaxCommits`, `MaxFaults`, `MaxUpsets` and `1..MaxLog` in `Cleanup`
and `StateAtLsn` are the only bounds. Two transactions after the initial one are enough for
a row to change before and after a page's row is read, to be inserted and deleted, or to be
moved from one key to another in one transaction (`MCTxns`). Four keys and pages of one and
two are enough for a full page, a short one and an empty one, in either order, with rows on
both sides of the cursor, for a page that is refused because it has both rows of a leading
key, and for one that ends between them. `lake` and `catch_up` have keys of one column, as
`PageComplete` and `WalkedComplete` need. Two bytes of four values have an increment that
carries, one that does not, adjacent LSNs, and LSNs with room between (`MCLsns`); the other
runs have the same `Adjacent`, so that both kinds of position occur. Two faults allow a
crash of the call that recovers from a crash, and a replay in between. Four commits allow
commits before, during and after two scans and a wait that begins while the previous one's
scan is running.

An upset is a change of the schema or a failed call. Three of them drop an instance, create
another of the same name and change the table it is on, or do two of these with a call
failing in between; three LSNs let the new instance start past the saved position with a
write in the gap. The table has a key, a plain column and a computed one; a `rowversion`,
which a change table holds as `binary`, may be added, in `follow_table` a column named like
one of the log's own instead; `int` may be altered to `bigint`, which reads back as another
Arrow type, and in `follow_table` to `sql_variant`, which has none.

**Fairness.** `CaptureScan!Fairness`: the capture job runs and the clock moves, which is
what `await_watermark`'s `TimeoutError` exists to report the lack of, and the loop goes on
polling (`connector.py:516-524`). Commits, watermarks and the deadline are not fair.
`LoopFairness`: the capture job captures, and a process that is up takes its next step.
That is all that `LoopEnds` needs. It is not enough for the target to become the table: a
call that only reads the log waits for nothing, so one made before a commit is captured has
no frame, the loop breaks (`README.md:36-37`) and the commit is not read; nor does anything
in the code come back after an error. "That ends a loop rather than the run — a later call
picks up whatever has landed since" (`dblog.py:601-602`). That there is a later call is
up to what runs the process, and `CatchesUp` assumes it: `PipelineFairness` adds weak
fairness of `Load`. It assumes nothing of when: the process may start right after it
ended, before the capture job has moved, and end again. Commits, cleanups and faults are not
fair; they are bounded, which is the quiet database that both are about.
`SpecRefresh!Fairness`: the capture job, a caller that calls again after each call and each
error, which is the same assumption, and a call finds its spec stale again and again (strong fairness of `Begin(TRUE)`), which is what
`inspect_every` promises of a clock that goes on. With `inspect_every=None` it does not,
and `FollowsTable` is not claimed: a run whose instance was dropped or renamed gets a
`ValueError` from every call then, and the README's loop has no clause for it.

### What the code and its documentation disagree on

Five runs end in a violation.

- `composite_key` (`PageComplete`). Pages advance past the *leading* key, and `_key_after`
  refuses one whose leading key repeats. A repeat across the page boundary is not inside the
  page: the second row is dropped. `connector.py:606-608` says a composite key is still
  partitioned completely. It takes a key of several columns; `dblog` and `on_capture` show
  that the rows which are delivered are right with one, too, and that the tied rows are all
  that is lost.
- `appended_dump` (`TargetExact`). "A frame received but never saved is read again by the
  next call given the older state" (`dblog.py:580-582`). With no older state there is no
  such read: the run opens again at a later present, and a row of the written frame that was
  deleted in between stays. With a target emptied before a dump (`NewTargetOnDump`) all is
  well.
- `lake_redump` (`NewestIsCurrent`). The README's loop, told that retention expired, dumps
  again into the same lake. The second dump's all-zero LSNs are below the first one's
  events, and no row says that a key is gone.
- `empty_scan_race` (`AwaitSound`). The second signal of `_capture_passed` is sound if an
  empty scan finds the end of the log and takes its `end_time` with no commit between
  (`InstantEmptyScan`). If it need not, the wait can return too early. Which of the two SQL
  Server does is not in this repository; the other runs and the proofs assume the former.
- `readded_column` (`TwoReadsAgree`). `validate` looks a captured column up in the source by
  name. One that was dropped, which `inspect()` is said to catch (`dblog.py:226-228`), and
  added again passes; the change table goes on carrying the old one, "unpopulated from then
  on" (`sql/mssql/01_setup.sql:121-122`). From then on a dump row has a value where every
  event of the row has a null, the "one schema carrying two answers" of
  `connector.py:583-586`. With `ReAdd` false, where a dropped column's name is not used
  again, the reads agree.

## The theorems

For every value of the constants that meets the modules' assumptions (every table, set of
transactions, composite key, chunk size from call to call, table of types, set of columns
and instances, and bound), and every interleaving:

| Theorem | States |
| --- | --- |
| `DblogProofs!TypeCorrect` | `Spec => []TypeOK` |
| `DblogProofs!NoStaleRowIsEmitted` | `Spec => []NoStaleDumpRow` |
| `DblogProofs!RowsAreDated` | `Spec => []DumpRowsDated` |
| `DblogProofs!PagesAreCompleteUpToTies` | `Spec => []PageCompleteUpToTies` |
| `DblogProofs!PagesAreComplete` | `SingleColumnKey` implies `Spec => []PageComplete` |
| `DblogProofs!EveryBatchAdvances` | `Spec => []BatchAdvances` |
| `PositionsProofs!IncrementIsNext` | `Increment(l)` is the least LSN above `l`, or none |
| `PositionsProofs!CountingWillDo` | `Spec => []ComparesAsBytes` |
| `PositionsProofs!WindowsMoveByIncrement` | `Spec => MovesByIncrement` |
| `CaptureScanProofs!TypeCorrect` | `InstantEmptyScan` implies `Spec => []TypeOK` |
| `CaptureScanProofs!AwaitIsSound` | `InstantEmptyScan` implies `Spec => []AwaitSound` |
| `CaptureScanProofs!PromiseIsKept` | `InstantEmptyScan` implies `Spec => PromiseKept` |
| `PipelineProofs!LoopTypeCorrect` | `PipelineSpec => []PipelineTypeOK` |
| `PipelineProofs!NothingIsSkipped` | `PipelineSpec => []NoGap` |
| `PipelineProofs!TargetNeverGoesBack` | `PipelineSpec => NeverBack` |
| `PipelineProofs!TargetIsExact` | `NewTargetOnDump` implies `PipelineSpec => []TargetExact` |
| `PipelineProofs!LoopRowsAreCurrent` | `PipelineSpec => [](NoStaleDumpRow /\ DumpRowsDated)` |
| `PipelineProofs!FirstsAreComplete` | `NewTargetOnDump` implies `PipelineSpec => []FirstsComplete` |
| `PipelineProofs!WalkedIsComplete` | with `SingleColumnKey` too, `PipelineSpec => []WalkedComplete` |
| `PipelineProofs!LoopEndsOnTheTable` | with both, `PipelineSpec => []EndsOnTheTable` |
| `PipelineProofs!LoopImplementsReplica` | with both, `PipelineSpec => KeepsReplica` |
| `LakeProofs!LakeIsTarget` | `NewTargetOnDump` implies `LakeSpec => []NewestIsTarget` |
| `LakeProofs!LakeIsCurrent` | with `SingleColumnKey` too, `LakeSpec => []NewestIsCurrent` |
| `LakeOnCaptureProofs!PollingWillDo` | `InstantEmptyScan` implies `OnCaptureSpec => ImplementsLake` |
| `LakeOnCaptureProofs!PolledRowsAreCurrent` | with it, `OnCaptureSpec => [](NoStaleDumpRow /\ DumpRowsDated)` |
| `LakeOnCaptureProofs!PolledFirstsAreComplete` | with it and `NewTargetOnDump`, `OnCaptureSpec => []FirstsComplete` |
| `LakeOnCaptureProofs!PolledLoopImplementsReplica` | with these and `SingleColumnKey`, `OnCaptureSpec => KeepsReplica` |
| `LakeOnCaptureProofs!PolledLoopEndsOnTheTable` | with the three, `OnCaptureSpec => []EndsOnTheTable` |
| `LakeOnCaptureProofs!PolledLakeIsCurrent` | with the three, `OnCaptureSpec => []NewestIsCurrent` |
| `SpecRefreshProofs!TypeCorrect` | `RunSpec => []TypeOK` |
| `SpecRefreshProofs!FramesAlwaysStack` | `RunSpec => []FramesStack` |
| `SpecRefreshProofs!WritesAreNotLost` | `RunSpec => []NoWriteLost` |
| `SpecRefreshProofs!ReadsAlwaysAgree` | `~ReAdd` implies `RunSpec => []TwoReadsAgree` |

The four assumptions are those whose absence the violation runs exhibit: `SingleColumnKey`
(`composite_key`), `InstantEmptyScan` (`empty_scan_race`), `NewTargetOnDump`
(`appended_dump`, `lake_redump`) and `~ReAdd` (`readded_column`).

**No stale row.** `NoStaleDumpRow` is not inductive: nothing in it says why the window
covers the page read. `DumpInv` does. `OpeningInv`: nothing has been read before the page
is. `PageInv`: every row of the page is the row as of some LSN between the low watermark
and where the scan has got to, and the position is no later than one past the low watermark,
because every position is at most one past the log's end (`PositionInv`). `WindowInv`: once
the wait is over the log can be read up to the high watermark. So the window spans the page
read, and a row with no event in it was the same from the low watermark to the window's end
(`QuietRow`, from `ImageUnchanged` in `HistoryProofs`); a row with an event is not in the
frame's dump rows. `FrameInv` records it of the frame. What a step of the source does to
all of that is nothing, since the past does not change (`PastIsFixed`, from
`ImageOfPrefix`).

**No missing row.** `WalkInv` adds what happens to the keys that are not on the page: one
the scan has gone past was absent at some LSN of the scan. If it exists at the end of the
window, the window has an event of it. A short page has seen all the rows ahead. A full one
ends at a key, and the next opens right behind its leading column, so that what neither has
seen is tied with the last row of the first. With a key of one column nothing is tied.

**Every batch goes forward.** `ProgressInv`: the cursor of a page that has read a row is at
the page's opening or past it, and a page of no rows is a short one, since a caller asks for
at least one. The position of the call's copy is never behind the caller's, because a
window is read only from it up to a maximum that is not below it.

**Counting LSNs.** The bytes are a total order (`LessIsTotal`, `LessIsTransitive`). The
least LSN above another is where the carry of the increment stops (`CarriedIsNext`,
`CarryHasAnEnd`), for every width and largest byte, so that nothing fits between a position
that is an increment and the LSN it follows. `PositionIsBytes`: a position is then on the
side of each LSN that its count and `short` say. `ShortInv` is what that needs of the
positions of a run: only one past a transaction's LSN is short, and not where the next is
adjacent.

**The barrier, and the call on top of it.** `PassedInv`: a session row with a time past the
watermark, or a scan begun after it that has drained the log, means that the capture job is
past the watermark. With it every step of `CaptureScan` is a step of `Barrier` or a stutter.
In the composition `OnCaptureInv` adds that a call in its wait waits for its own high
watermark. Then a poll that ends the wait is `Dblog`'s `AwaitWatermark`, every other step is
one of `Lake` or a stutter of it, and what is proved of `Lake`, `Pipeline` and `Dblog` holds:
from the scans of the capture job to the target and the lake, in one chain.

**The caller's loop.** `LoopInv` says where positions are: between two batches the loop is
as `Dblog` leaves it (`CallInv`, which has `DumpInv` in it), what it calls with is what it
saved, unless that has expired (`SavedInv`), and no position is past what the capture job
has reached or has moved while a call is under way (`ReachedInv`). It gives `NoGap` and
`NeverBack`. `TargetInv` adds to `TargetExact` that a run opened from nothing writes to an
empty target: a frame's dump rows are then current at its end, and a key that neither it nor
the window has is as it was. `WalkedInv` adds that a saved state a call may still go on from
is true of the target, range by range: `PageCompleteUpToTies` of the batch carries it from one
batch to the next. With a key of several columns it does so for the first rows of the
leading keys, which are never tied behind another, and a key of one column has no others. The
simulation of `Replica` is the step-by-step reading of the three. `WrittenInv` keeps the
frame's rows current until the frame is saved. `FilledInv` is what ends the loop on the
table: a batch that goes on with the dump has a row, of the chunk or of the window. With a
frame of neither the dump is over, and what `WalkedInv` says of the range walked is then
said of the whole table; no event follows, so it stands at the frame's end.

**The lake.** Every step of `Lake` is one of `Pipeline` (`LakeIsPipeline`), so the target is
there to compare with. `LakeInv`: an event row in the lake is one of the log's, at most at
`at`; a key with an event row has its last one up to there; a dump row of a key without one
is current; and the target has a row of a key exactly if the lake has, as it was at `at`. It
is about what was delivered, not about what was not, so it needs no key of one column.

**The run that outlives its table.** `StackInv`: the state, the call's copy of it and the
frames so far have one schema, because two specs that `_refresh_spec` does not tell apart
have one `FrameSchema` (`SignatureDecides`). `DeliveryInv`: a state's position is at most
one past the log's end, every write from the opening up to it is in a frame, and a window
about to be read starts at it; an instance created in between starts above the log's end of
that moment, so that either it retains the position or the run ends. `ReadsInv`: a spec's
columns are each dropped or computed exactly as the table's column of that name, and so are
a change table's; with no name used twice, a page that can be read asks for the columns with
values, and these are the ones the change table records.

**Only model-checked.** The four liveness properties, `WaitEnds`, `LoopEnds`, `CatchesUp`
and `FollowsTable`, which need fairness and ENABLED and are out of the prover's reach, as would
be any induction over data. Only the numeric reading of an increment would have needed one:
`Image` is defined by the last event, not by recursion. The violation runs are counterexamples by nature.

## What is assumed of SQL Server

- A scan of the capture job reads to the end of the log, and its session row can be read
  once it is over. (A row of a scan in progress, or a scan stopped at `maxtrans`, is not
  modelled.)
- Ties for the newest `end_time` are not modelled: there is one newest session row.
- `fn_cdc_get_all_changes` raises below the floor. A read page sees each row committed.
- A change table keeps the columns it was created with. A dropped one stays and gets no
  values from then on; a later one of its name does not either. `ALTER COLUMN` reaches the
  change tables at once (`adls/2026-08-13-1730-one-schema-per-run.md:103-104`). The type a
  change table gives a column is a function of the source's (`ChangeType`).
- A table has at most two capture instances, and a new one starts at an LSN of its own,
  above every transaction before it.
- The write of a frame is atomic.

## Not modelled

- `Dblog` and `SpecRefresh` are not composed: the page's rows matter to the one and the
  spec to the other, and no property here needs both. What they share (opening, retention
  check, window) is in each.
- `SpecRefresh` has the capture instance chosen anew by each inspection, as
  `connector.py:279` does without an ORDER BY. With two instances on different columns an
  inspection may therefore end a run that nothing was wrong with; `FollowsTable` is about a
  table with one.
- A column that is dropped between two inspections stays in the spec: the calls in between
  fail if they read a page, and if they only tail the log they carry nulls for it.
  `TwoReadsAgree` does not speak of those, since there is no page to agree with.
- `SpecRefresh` has no saved state. When a run is dropped, the README's loop forgets only the
  state it holds, so that a crash before the new run's first save goes on with the old run.
  What that run has seen then is a call that failed (`CallFails`): the calls of the new run
  in between read the source and change nothing of it. `Pipeline` has the saved state.
- `_check_table` compares two names and changes nothing; `_drift` words a message.
- Keys that are not integers (`_key_after` raises `TypeError`), and what driver and server
  make of a key one past the largest `bigint` (`dblog.py:438`), which no code here decides.
- That the carry of `Lsn!Increment` is what `int.from_bytes` and `to_bytes` make of + 1:
  that is Python's, and would take an induction over the bytes. What is proved is that the
  carry gives the next byte string. `increment_lsn`'s check of the width is left out, as is
  the JSON form of a state with its hex LSN, a round trip of a value.
- The table of Arrow types and the casts are pure conversions: the first is a constant, a
  cast that fails is `CallFails`. `validate`'s type drift can be reached only by an `ALTER
  COLUMN` between two of `inspect()`'s queries, since the change table follows; the model
  has that.
- `read_pk_range`, `end_pk` and the two pagination forms, which the algorithm never uses or
  cannot tell apart; SQL text, identifier validation, the connection, the factory and
  logging, which hold no state that a property is about.
