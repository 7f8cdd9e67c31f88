---------------------------- MODULE SpecRefresh ----------------------------
(***************************************************************************)
(* A run that outlives the table it was opened on.                         *)
(*                                                                         *)
(* The run state carries the table's spec.  inspect() builds it with four  *)
(* queries and validates it; dblog() re-reads it when it has gone stale    *)
(* and stops the run where the frames would no longer stack.  Meanwhile    *)
(* columns and capture instances come and go, between any two queries.     *)
(*                                                                         *)
(* Whether a call finds its spec stale is left open: the clock and         *)
(* inspect_every may say anything.  Rows are abstracted to which columns   *)
(* of them hold a value, the pages to whether there was one; Dblog has the *)
(* rest, the watermarks included.                                          *)
(***************************************************************************)
EXTENDS Integers, Sequences, FiniteSets

CONSTANTS
  Name,            \* column names
  Type,            \* the source's column types
  ChangeType,      \* the type a change table gives a column of each type
  Arrow,           \* the Arrow type each is read as
  NoArrow,         \* Arrow's value at a type with no equivalent
  LogName,         \* the names of the log's own columns
  Instance,        \* names of capture instances
  NoInstance,      \* a table without one
  InitialInstance, \* the instance that records all columns at first
  InitialColumns,  \* the table as the run finds it first
  InitialKey,      \* its key
  NewColumns,      \* the columns that may be added to it
  Alterations,     \* what ALTER COLUMN may do to a type: pairs from, to
  ReAdd,           \* TRUE: a dropped column's name may be used again
  None,            \* no run state
  Adjacent,        \* the LSNs that are the increment of the one before
  MaxLog,          \* bound: transactions
  MaxUpsets        \* bound: changes of the schema and failed calls

Column == [name : Name, type : Type, computed : BOOLEAN]

Columns == Seq(Column)

Distinct(cols) == \A i, j \in DOMAIN cols : cols[i].name = cols[j].name => i = j

ASSUME TypeAssumption ==
  /\ ChangeType \in [Type -> Type]
  /\ Type \subseteq DOMAIN Arrow

ASSUME TableAssumption ==
  /\ InitialColumns \in Columns /\ Distinct(InitialColumns)
  /\ InitialKey \in Seq(Name)
  /\ NewColumns \subseteq Column
  /\ Alterations \subseteq Type \X Type

ASSUME InstanceAssumption == InitialInstance \in Instance /\ NoInstance \notin Instance

ASSUME BoundsAssumption ==
  ReAdd \in BOOLEAN /\ MaxLog \in Nat \ {0} /\ MaxUpsets \in Nat

VARIABLES
  columns,    \* the source table's columns, in order
  key,        \* its primary key
  instances,  \* its capture instances: their change tables
  retired,    \* the names of the columns dropped so far
  log,        \* what each LSN is: a write to the table, or anything else
  captured,   \* fn_cdc_get_max_lsn
  upsets,     \* how many schema changes and failed calls there were
  state,      \* the run state the caller holds
  pc,         \* where the call is
  run,        \* the call's own run state
  call,       \* its other locals
  output      \* what the consumer has had of the run

tableVars == <<columns, key, instances, retired>>
logVars == <<log, captured>>
vars == <<tableVars, logVars, upsets, state, pc, run, call, output>>

Names(cols) == {cols[j].name : j \in DOMAIN cols}

\* A change table: its business columns, the ones among them it still records
\* values of, and the oldest LSN it retains.
ChangeTable == [columns : Columns, records : SUBSET Name, floor : Nat \ {0}]

TableSpec == [key : Seq(Name), instance : Instance \cup {NoInstance},
              columns : Columns, captured : Columns]

NoSpec == [key |-> <<>>, instance |-> NoInstance, columns |-> <<>>, captured |-> <<>>]

\* last_lsn and short are the position, as in Dblog.
RunState == [spec : TableSpec, last_lsn : Nat, short : BOOLEAN, dump_done : BOOLEAN]

ASSUME NoneAssumption == None \notin RunState

\* draft: the spec inspect() has so far.  page: whether a page was read and
\* had rows.  high: get_max_lsn's answer.
NoCall == [draft |-> NoSpec, page |-> FALSE, high |-> 0]

\* The frames since the run opened: where it did, the writes they carried and
\* the schemas they had.
NoOutput == [opened |-> 0, writes |-> {}, schemas |-> {}]

\* The change table of an instance enabled at LSN f, on the columns that p
\* picks.  A computed column is plain in it and never gets a value.
Enabled(p, f) ==
  [columns |-> [j \in DOMAIN p |->
                  [name |-> columns[p[j]].name, type |-> ChangeType[columns[p[j]].type],
                   computed |-> FALSE]],
   records |-> {columns[p[j]].name : j \in {i \in DOMAIN p : ~columns[p[i]].computed}},
   floor |-> f]

\* What an instance is enabled on: all the columns, or all but one.
Picks ==
  {[j \in DOMAIN columns |-> j]}
    \cup {[j \in 1..(Len(columns) - 1) |-> IF j < d THEN j ELSE j + 1] :
            d \in {e \in DOMAIN columns : Len(columns) > 1}}

Init ==
  /\ columns = InitialColumns
  /\ key = InitialKey
  /\ retired = {}
  /\ log = <<"other">>
  /\ captured = 1
  /\ instances = [i \in {InitialInstance} |-> Enabled([j \in DOMAIN columns |-> j], 1)]
  /\ upsets = 0
  /\ state = None
  /\ pc = "rest"
  /\ run = None
  /\ call = NoCall
  /\ output = NoOutput
-----------------------------------------------------------------------------
(* The source: transactions, the CDC jobs, and its administrators.         *)

callVars == <<state, pc, run, call, output>>

Commit ==
  /\ Len(log) < MaxLog
  /\ log' = Append(log, "write")
  /\ UNCHANGED <<tableVars, captured, upsets, callVars>>

Capture ==
  /\ captured < Len(log)
  /\ captured' = captured + 1
  /\ UNCHANGED <<tableVars, log, upsets, callVars>>

Cleanup(i, f) ==
  /\ i \in DOMAIN instances
  /\ instances[i].floor < f
  /\ f <= captured
  /\ instances' = [instances EXCEPT ![i].floor = f]
  /\ UNCHANGED <<columns, key, retired, logVars, upsets, callVars>>

Upset == upsets < MaxUpsets /\ upsets' = upsets + 1

InKey(n) == \E j \in DOMAIN key : key[j] = n

Retyped(cols, n, t) ==
  [j \in DOMAIN cols |-> IF cols[j].name = n THEN [cols[j] EXCEPT !.type = t] ELSE cols[j]]

AddColumn(c) ==
  /\ Upset
  /\ c.name \notin Names(columns)
  /\ c.name \in retired => ReAdd
  /\ columns' = Append(columns, c)
  /\ UNCHANGED <<key, instances, retired, logVars, callVars>>

\* The change tables keep a dropped column and have nothing to put in it from
\* then on, a later column of that name included.
DropColumn(d) ==
  /\ Upset
  /\ d \in DOMAIN columns
  /\ ~InKey(columns[d].name)
  /\ columns' = [j \in 1..(Len(columns) - 1) |-> columns[IF j < d THEN j ELSE j + 1]]
  /\ retired' = retired \cup {columns[d].name}
  /\ instances' = [i \in DOMAIN instances |->
                     [instances[i] EXCEPT !.records = @ \ {columns[d].name}]]
  /\ UNCHANGED <<key, logVars, callVars>>

\* ALTER COLUMN reaches the change tables that record the column.
AlterColumn(d, t) ==
  /\ Upset
  /\ d \in DOMAIN columns
  /\ <<columns[d].type, t>> \in Alterations
  /\ ~columns[d].computed /\ ~InKey(columns[d].name)
  /\ columns' = [columns EXCEPT ![d].type = t]
  /\ instances' =
       [i \in DOMAIN instances |->
          IF columns[d].name \in instances[i].records
          THEN [instances[i] EXCEPT !.columns = Retyped(@, columns[d].name, ChangeType[t])]
          ELSE instances[i]]
  /\ UNCHANGED <<key, retired, logVars, callVars>>

\* The primary key is dropped, or moved to another column.
Keys == {<<>>} \cup {<<n>> : n \in Name}

Rekey(k) ==
  /\ Upset
  /\ key # k
  /\ \A j \in DOMAIN k : k[j] \in Names(columns)
  /\ key' = k
  /\ UNCHANGED <<columns, instances, retired, logVars, callVars>>

\* A table has at most two instances.  Enabling one takes an LSN.
CreateInstance(i, p) ==
  /\ Upset
  /\ Len(log) < MaxLog
  /\ i \notin DOMAIN instances
  /\ Cardinality(DOMAIN instances) < 2
  /\ log' = Append(log, "other")
  /\ instances' = [j \in DOMAIN instances \cup {i} |->
                     IF j = i THEN Enabled(p, Len(log')) ELSE instances[j]]
  /\ UNCHANGED <<columns, key, retired, captured, callVars>>

DropInstance(i) ==
  /\ Upset
  /\ i \in DOMAIN instances
  /\ instances' = [j \in DOMAIN instances \ {i} |-> instances[j]]
  /\ UNCHANGED <<columns, key, retired, logVars, callVars>>

SchemaChange ==
  \/ \E c \in NewColumns : AddColumn(c)
  \/ \E d \in DOMAIN columns : DropColumn(d) \/ \E t \in Type : AlterColumn(d, t)
  \/ \E k \in Keys : Rekey(k)
  \/ \E i \in Instance : DropInstance(i) \/ \E p \in Picks : CreateInstance(i, p)

SourceNext ==
  \/ Commit
  \/ Capture
  \/ \E i \in Instance, f \in 1..MaxLog : Cleanup(i, f)
  \/ SchemaChange
-----------------------------------------------------------------------------
(* How a call ends early.                                                  *)

sourceVars == <<tableVars, logVars>>

\* ValueError, or whatever the driver raises: the caller keeps its state.
Raise ==
  /\ pc' = "rest"
  /\ run' = None
  /\ call' = NoCall
  /\ UNCHANGED <<sourceVars, state, output>>

\* CdcRetentionExpiredError and SchemaChangedError: the caller drops it.  What
\* it saved is still there until the new run's first save: a crash before that
\* goes on with the old run, for which the calls in between, which only read the
\* source, are one call that failed (CallFails).
DropRun ==
  /\ pc' = "rest"
  /\ run' = None
  /\ call' = NoCall
  /\ state' = None
  /\ UNCHANGED <<sourceVars, upsets, output>>

\* A connection lost, a value that does not cast, a wait that timed out.
CallFails ==
  /\ Upset
  /\ pc # "rest"
  /\ Raise
-----------------------------------------------------------------------------
(* inspect(): four queries and what they must agree on.                    *)

\* The call starts.  With a state, stale is what the clock makes of it.
Begin(stale) ==
  /\ pc = "rest"
  /\ state = None => stale
  /\ pc' = IF stale THEN "key" ELSE "retain"
  /\ run' = state
  /\ UNCHANGED <<sourceVars, upsets, state, call, output>>

InspectKey ==
  /\ pc = "key"
  /\ key # <<>>
  /\ pc' = "instance"
  /\ call' = [call EXCEPT !.draft.key = key]
  /\ UNCHANGED <<sourceVars, upsets, state, run, output>>

\* The first row the query happens to return.
InspectInstance ==
  /\ pc = "instance"
  /\ pc' = "columns"
  /\ \E i \in IF DOMAIN instances = {} THEN {NoInstance} ELSE DOMAIN instances :
       call' = [call EXCEPT !.draft.instance = i]
  /\ UNCHANGED <<sourceVars, upsets, state, run, output>>

InspectColumns ==
  /\ pc = "columns"
  /\ pc' = "captured"
  /\ call' = [call EXCEPT !.draft.columns = columns]
  /\ UNCHANGED <<sourceVars, upsets, state, run, output>>

\* Bug for the mutants: the change table's word for it, which knows no formula.
MarkComputedNot(captured_columns, cols) == captured_columns

MarkComputed(captured_columns, cols) ==
  LET computed == {cols[j].name : j \in {i \in DOMAIN cols : cols[i].computed}}
  IN  [j \in DOMAIN captured_columns |->
         [captured_columns[j] EXCEPT !.computed = captured_columns[j].name \in computed]]

\* _read_captured_columns: a change table that is gone has no columns.
CapturedColumns(i) == IF i \in DOMAIN instances THEN instances[i].columns ELSE <<>>

CapturedOf(draft) ==
  IF draft.instance = NoInstance THEN draft.columns
  ELSE MarkComputed(CapturedColumns(draft.instance), draft.columns)

\* The spec, once the change table's columns are read.
Fresh == [call.draft EXCEPT !.captured = CapturedOf(call.draft)]

\* validate(): every captured column is in the source under a type that reads
\* back the same, the key is captured and not computed, no column is named
\* like the log's own.
Valid(spec) ==
  /\ \A j \in DOMAIN spec.captured :
       /\ Arrow[spec.captured[j].type] # NoArrow
       /\ spec.captured[j].name \notin LogName
       /\ \E i \in DOMAIN spec.columns :
            /\ spec.columns[i].name = spec.captured[j].name
            /\ Arrow[spec.columns[i].type] = Arrow[spec.captured[j].type]
  /\ \A i \in DOMAIN spec.key : \E j \in DOMAIN spec.captured :
       spec.captured[j].name = spec.key[i] /\ ~spec.captured[j].computed

\* Bug for the mutants: _require_capture_instance is forgotten.
AdmissibleWithout(spec) == spec.instance = NoInstance \/ Valid(spec)

\* What inspect() returns and _require_capture_instance lets through.
Admissible(spec) == spec.instance # NoInstance /\ Valid(spec)

\* A table without a primary key, or a spec that is not admissible.
InspectRefused ==
  /\ \/ pc = "key" /\ key = <<>>
     \/ pc = "captured" /\ ~Admissible(Fresh)
  /\ Raise
  /\ UNCHANGED upsets
-----------------------------------------------------------------------------
(* _seed and _refresh_spec.                                                *)

SeedInspected ==
  /\ pc = "captured"
  /\ state = None
  /\ Admissible(Fresh)
  /\ pc' = "floor"
  /\ run' = [spec |-> Fresh, last_lsn |-> 0, short |-> FALSE, dump_done |-> FALSE]
  /\ call' = NoCall
  /\ UNCHANGED <<sourceVars, upsets, state, output>>

\* What list equality compares: names and types in order, not computed.
Signature(cols) == [j \in DOMAIN cols |-> <<cols[j].name, cols[j].type>>]

\* Bug for the mutants: only the names of the captured columns are compared.
MovedByName(was, is_now) ==
  \/ was.key # is_now.key
  \/ Names(was.captured) # Names(is_now.captured)

\* The frame schema moved under the run.
Moved(was, is_now) ==
  \/ was.key # is_now.key
  \/ Signature(was.captured) # Signature(is_now.captured)

SchemaChanged ==
  /\ pc = "captured"
  /\ state # None
  /\ Admissible(Fresh)
  /\ Moved(state.spec, Fresh)
  /\ DropRun

\* Bug for the mutants: the inspection is dated and its result thrown away.
RefreshedDateOnly ==
  /\ pc = "captured"
  /\ state # None
  /\ Admissible(Fresh)
  /\ ~Moved(state.spec, Fresh)
  /\ pc' = "retain"
  /\ call' = NoCall
  /\ UNCHANGED <<sourceVars, upsets, state, run, output>>

\* The columns of the source alone may differ: adopted, with a warning.
Refreshed ==
  /\ pc = "captured"
  /\ state # None
  /\ Admissible(Fresh)
  /\ ~Moved(state.spec, Fresh)
  /\ pc' = "retain"
  /\ run' = [state EXCEPT !.spec = Fresh]
  /\ call' = NoCall
  /\ UNCHANGED <<sourceVars, upsets, state, output>>
-----------------------------------------------------------------------------
(* Positions: get_min_lsn refuses an instance that is not there.           *)

Tracked == run.spec.instance \in DOMAIN instances

Floor == instances[run.spec.instance].floor

\* The position is not below what the instance retains.
Retained == Floor < run.last_lsn \/ (Floor = run.last_lsn /\ ~run.short)

NoFloor ==
  /\ pc \in {"floor", "retain"}
  /\ ~Tracked
  /\ Raise
  /\ UNCHANGED upsets

SeedFloor ==
  /\ pc = "floor"
  /\ Tracked
  /\ pc' = "opening"
  /\ run' = [run EXCEPT !.last_lsn = Floor]
  /\ UNCHANGED <<sourceVars, upsets, state, call, output>>

\* From here on the consumer is in a new run.
SeedOpening ==
  /\ pc = "opening"
  /\ pc' = "page"
  /\ run' = [run EXCEPT !.last_lsn = IF captured > @ THEN captured ELSE @]
  /\ output' = [NoOutput EXCEPT !.opened = run'.last_lsn]
  /\ UNCHANGED <<sourceVars, upsets, state, call>>

CheckRetention ==
  /\ pc = "retain"
  /\ Tracked /\ Retained
  /\ pc' = IF run.dump_done THEN "max" ELSE "page"
  /\ UNCHANGED <<sourceVars, upsets, state, run, call, output>>

\* Bug for the mutants: the position is moved up to what is still there.
RetentionClamped ==
  /\ pc = "retain"
  /\ Tracked /\ ~Retained
  /\ pc' = IF run.dump_done THEN "max" ELSE "page"
  /\ run' = [run EXCEPT !.last_lsn = Floor]
  /\ UNCHANGED <<sourceVars, upsets, state, call, output>>

RetentionExpired ==
  /\ pc = "retain"
  /\ Tracked /\ ~Retained
  /\ DropRun
-----------------------------------------------------------------------------
(* The two reads.  Each projects the spec's captured columns by name, and  *)
(* what comes back is cast to the spec's schema.                           *)

\* The columns a table read asks the source for; the others it reads as NULL.
Projected ==
  {run.spec.captured[j].name :
     j \in {i \in DOMAIN run.spec.captured : ~run.spec.captured[i].computed}}

\* row_schema and event_schema, the log's own fields left out.
FrameSchema(cols) == [j \in DOMAIN cols |-> <<cols[j].name, Arrow[cols[j].type]>>]

PageReadable == Projected \subseteq Names(columns)

\* A page: with rows or without, and in the first case the last or not.
ReadPage(rows, done) ==
  /\ pc = "page"
  /\ PageReadable
  /\ rows \/ done
  /\ pc' = "max"
  /\ run' = [run EXCEPT !.dump_done = done]
  /\ call' = [call EXCEPT !.page = rows]
  /\ UNCHANGED <<sourceVars, upsets, state, output>>

\* The source knows no such column.
PageRefused ==
  /\ pc = "page"
  /\ ~PageReadable
  /\ Raise
  /\ UNCHANGED upsets

LogReadable ==
  /\ Tracked
  /\ Retained
  /\ Names(run.spec.captured) \subseteq Names(instances[run.spec.instance].columns)

\* The frame goes out with the events of the window that ends at to.
Batch(to) ==
  LET writes == {i \in run.last_lsn..to : log[i] = "write"}
  IN  /\ pc' = "returned"
      /\ run' = [run EXCEPT !.last_lsn = to + 1,
                            !.short = IF run.last_lsn <= to THEN to + 1 \notin Adjacent ELSE @]
      /\ output' =
           [output EXCEPT
              !.writes = @ \cup writes,
              !.schemas = IF call.page \/ writes # {}
                          THEN @ \cup {FrameSchema(run.spec.captured)} ELSE @]

ReadMax ==
  /\ pc = "max"
  /\ run.last_lsn <= captured
  /\ pc' = "events"
  /\ call' = [call EXCEPT !.high = captured]
  /\ UNCHANGED <<sourceVars, upsets, state, run, output>>

NoWindow ==
  /\ pc = "max"
  /\ run.last_lsn > captured
  /\ Batch(run.last_lsn - 1)
  /\ UNCHANGED <<sourceVars, upsets, state, call>>

ReadWindow ==
  /\ pc = "events"
  /\ LogReadable
  /\ Batch(call.high)
  /\ UNCHANGED <<sourceVars, upsets, state, call>>

\* No such function, no such column, or a range below the floor.
WindowRefused ==
  /\ pc = "events"
  /\ ~LogReadable
  /\ Raise
  /\ UNCHANGED upsets
-----------------------------------------------------------------------------
(* The caller: it keeps the state it got back, unless it dies before.      *)

Return ==
  /\ pc = "returned"
  /\ pc' = "rest"
  /\ state' = run
  /\ run' = None
  /\ call' = NoCall
  /\ UNCHANGED <<sourceVars, upsets, output>>

Inspect ==
  \/ InspectKey \/ InspectInstance \/ InspectColumns \/ InspectRefused
  \/ SeedInspected \/ SchemaChanged \/ Refreshed

Read ==
  \/ NoFloor \/ SeedFloor \/ SeedOpening \/ CheckRetention \/ RetentionExpired
  \/ (\E rows, done \in BOOLEAN : ReadPage(rows, done)) \/ PageRefused
  \/ ReadMax \/ NoWindow \/ ReadWindow \/ WindowRefused

CallNext == (\E stale \in BOOLEAN : Begin(stale)) \/ Inspect \/ Read \/ Return

Next == SourceNext \/ CallNext \/ CallFails

RunSpec == Init /\ [][Next]_vars

\* The capture job captures, the loop calls, and now and then it does so with
\* a spec past its age.
Fairness ==
  /\ WF_vars(Capture)
  /\ WF_vars(CallNext)
  /\ SF_vars(Begin(TRUE))

FairSpec == RunSpec /\ Fairness
-----------------------------------------------------------------------------
PCs == {"rest", "key", "instance", "columns", "captured", "floor", "opening",
        "retain", "page", "max", "events", "returned"}

\* The state of a run that has a log to read.
Driven == {s \in RunState : s.spec.instance # NoInstance}

FieldSchema == Name \X {Arrow[t] : t \in Type}

SourceTypeOK ==
  /\ columns \in Columns
  /\ key \in Seq(Name)
  /\ instances \in [DOMAIN instances -> ChangeTable]
  /\ DOMAIN instances \subseteq Instance
  /\ \A i \in DOMAIN instances : instances[i].floor <= Len(log)
  /\ retired \subseteq Name
  /\ log \in Seq({"write", "other"}) /\ Len(log) <= MaxLog
  /\ captured \in 1..Len(log)

TypeOK ==
  /\ SourceTypeOK
  /\ upsets \in 0..MaxUpsets
  /\ pc \in PCs
  /\ state \in Driven \cup {None}
  /\ run \in Driven \cup {None}
  /\ pc \notin {"rest", "key", "instance", "columns", "captured"} => run # None
  /\ call \in [draft : TableSpec, page : BOOLEAN, high : Nat]
  /\ output \in [opened : Nat, writes : SUBSET Nat, schemas : SUBSET Seq(FieldSchema)]

\* The frames of a run all have one schema, whatever happened to the table
\* and its capture instances and however the inspections fell.
FramesStack == \A a, b \in output.schemas : a = b

\* A write after the run opened and before its position was in a frame: no
\* instance that came or went in between took it along.
NoWriteLost ==
  \A s \in {state, run} \ {None} :
    pc \notin {"floor", "opening"} =>
      \A i \in output.opened..(s.last_lsn - 1) :
        i \in DOMAIN log /\ log[i] = "write" => i \in output.writes

\* Where a page is read and its window can be, the dump row holds a value in
\* exactly the columns in which an event of the same row would.
TwoReadsAgree ==
  pc = "page" /\ PageReadable /\ LogReadable =>
    Projected = instances[run.spec.instance].records \cap Names(run.spec.captured)

\* The spec inspect() would build if nothing moved.
Current(i) ==
  [key |-> key, instance |-> i, columns |-> columns,
   captured |-> MarkComputed(instances[i].columns, columns)]

\* A key, one instance, and the table and it go together.
Settled ==
  /\ key # <<>>
  /\ \E i \in Instance : DOMAIN instances = {i} /\ Valid(Current(i))

\* Once the schema is left alone, the run is driven by the table as it is.
FollowsTable ==
  <>[]Settled => <>[](state # None /\ \E i \in Instance :
                         DOMAIN instances = {i} /\ state.spec = Current(i))
=============================================================================
