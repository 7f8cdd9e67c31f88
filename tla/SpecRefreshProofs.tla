------------------------- MODULE SpecRefreshProofs -------------------------
(***************************************************************************)
(* A run survives its table: its frames stack, no write is lost and, where *)
(* no column name is used twice, its two reads agree, for every table,     *)
(* every set of changes to it and whatever the clock says.                 *)
(***************************************************************************)
EXTENDS SpecRefresh, TLAPS
-----------------------------------------------------------------------------
(* Types.                                                                  *)

\* A pick maps the new columns to columns of the table.
LEMMA PickIsMap ==
  ASSUME columns \in Columns, NEW p \in Picks
  PROVE  \E n \in Nat : p \in [1..n -> DOMAIN columns]
<1>1. Len(columns) \in Nat /\ DOMAIN columns = 1..Len(columns)
  BY DEF Columns
<1>2. CASE p = [j \in DOMAIN columns |-> j]
  BY <1>1, <1>2
<1>3. ASSUME NEW d \in DOMAIN columns, Len(columns) > 1,
             p = [j \in 1..(Len(columns) - 1) |-> IF j < d THEN j ELSE j + 1]
      PROVE  p \in [1..(Len(columns) - 1) -> DOMAIN columns] /\ Len(columns) - 1 \in Nat
  BY <1>1, <1>3
<1>. QED
  BY <1>2, <1>3 DEF Picks

\* An instance enabled on columns of the table has a well-typed change table.
LEMMA EnabledType ==
  ASSUME columns \in Columns, NEW n \in Nat, NEW p \in [1..n -> DOMAIN columns],
         NEW f \in Nat \ {0}
  PROVE  Enabled(p, f) \in ChangeTable
<1>1. \A j \in 1..n : columns[p[j]] \in Column
  BY DEF Columns
<1>2. \A c \in Column : c.name \in Name /\ ChangeType[c.type] \in Type
  BY TypeAssumption DEF Column
<1> DEFINE cols == [j \in DOMAIN p |->
                      [name |-> columns[p[j]].name, type |-> ChangeType[columns[p[j]].type],
                       computed |-> FALSE]]
<1>3. cols \in [1..n -> Column]
  BY <1>1, <1>2 DEF Column
<1>4. cols \in Columns
  BY <1>3 DEF Columns
<1>5. {columns[p[j]].name : j \in {i \in DOMAIN p : ~columns[p[i]].computed}} \subseteq Name
  BY <1>1, <1>2
<1>. HIDE DEF cols
<1>. QED
  BY <1>4, <1>5 DEF Enabled, ChangeTable, cols

\* Retyping a column keeps the list's shape.
LEMMA RetypedType ==
  ASSUME NEW cols \in Columns, NEW m, NEW t \in Type
  PROVE  Retyped(cols, m, t) \in Columns
<1>1. cols \in [1..Len(cols) -> Column] /\ Len(cols) \in Nat /\ DOMAIN cols = 1..Len(cols)
  BY DEF Columns
<1>2. \A c \in Column : [c EXCEPT !.type = t] \in Column
  BY DEF Column
<1>3. Retyped(cols, m, t) \in [1..Len(cols) -> Column]
  BY <1>1, <1>2 DEF Retyped
<1>. QED
  BY <1>1, <1>3 DEF Columns

\* So does marking the computed ones.
LEMMA MarkedType ==
  ASSUME NEW cols \in Columns, NEW source \in Columns
  PROVE  MarkComputed(cols, source) \in Columns
<1>1. cols \in [1..Len(cols) -> Column] /\ Len(cols) \in Nat /\ DOMAIN cols = 1..Len(cols)
  BY DEF Columns
<1>2. \A c \in Column, b \in BOOLEAN : [c EXCEPT !.computed = b] \in Column
  BY DEF Column
<1>3. ASSUME NEW S
      PROVE  [j \in DOMAIN cols |-> [cols[j] EXCEPT !.computed = cols[j].name \in S]]
               \in [1..Len(cols) -> Column]
  <2>1. ASSUME NEW j \in DOMAIN cols
        PROVE  [cols[j] EXCEPT !.computed = cols[j].name \in S] \in Column
    <3> DEFINE b == cols[j].name \in S
    <3>1. b \in BOOLEAN /\ cols[j] \in Column
      BY <1>1
    <3>. HIDE DEF b
    <3>2. [cols[j] EXCEPT !.computed = b] \in Column
      BY <1>2, <3>1
    <3>. QED
      BY <3>2 DEF b
  <2>. QED
    BY <1>1, <2>1
<1>4. MarkComputed(cols, source) \in [1..Len(cols) -> Column]
  BY <1>3, Zenon DEF MarkComputed
<1>. QED
  BY <1>1, <1>4 DEF Columns

\* The source keeps its types, and its log what is in it.
LEMMA SourceStep ==
  ASSUME SourceTypeOK, upsets \in 0..MaxUpsets, SourceNext
  PROVE  /\ SourceTypeOK' /\ upsets' \in 0..MaxUpsets
         /\ UNCHANGED callVars
         /\ captured <= captured' /\ Len(log) <= Len(log')
         /\ \A i \in 1..Len(log) : log'[i] = log[i]
<1>. USE DEF SourceTypeOK, tableVars, logVars, callVars
<1>0. /\ MaxLog \in Nat /\ MaxUpsets \in Nat /\ Len(log) \in Nat
      /\ columns \in [1..Len(columns) -> Column] /\ Len(columns) \in Nat
      /\ DOMAIN columns = 1..Len(columns)
      /\ \A c \in Column : c.name \in Name /\ c.type \in Type
      /\ \A i \in DOMAIN instances :
           /\ instances[i].columns \in Columns /\ instances[i].records \in SUBSET Name
           /\ instances[i].floor \in Nat \ {0}
           /\ instances[i].floor <= Len(log)
  <2>1. \A t \in ChangeTable : /\ t.columns \in Columns /\ t.records \in SUBSET Name
                               /\ t.floor \in Nat \ {0}
    BY DEF ChangeTable
  <2>2. \A i \in DOMAIN instances : instances[i] \in ChangeTable
    OBVIOUS
  <2>3. /\ columns \in [1..Len(columns) -> Column] /\ Len(columns) \in Nat
        /\ DOMAIN columns = 1..Len(columns)
    BY DEF Columns
  <2>4. \A c \in Column : c.name \in Name /\ c.type \in Type
    BY DEF Column
  <2>. QED
    BY <2>1, <2>2, <2>3, <2>4, BoundsAssumption
<1>1. CASE Commit
  BY <1>0, <1>1 DEF Commit
<1>2. CASE Capture
  BY <1>0, <1>2 DEF Capture
<1>3. ASSUME NEW i \in Instance, NEW f \in 1..MaxLog, Cleanup(i, f)
      PROVE  /\ SourceTypeOK' /\ UNCHANGED <<upsets, callVars, log, captured>>
  <2>1. [instances[i] EXCEPT !.floor = f] \in ChangeTable
    <3>1. \A t \in ChangeTable : [t EXCEPT !.floor = f] \in ChangeTable
      <4>1. f \in Nat \ {0}
        BY <1>0
      <4>. QED
        BY <4>1 DEF ChangeTable
    <3>. QED
      BY <1>3, <3>1 DEF Cleanup
  <2>2. instances' \in [DOMAIN instances -> ChangeTable]
    BY <1>3, <2>1 DEF Cleanup
  <2>3. \A j \in DOMAIN instances : instances'[j].floor <= Len(log)
    <3>1. f <= Len(log)
      BY <1>0, <1>3 DEF Cleanup
    <3>2. \A j \in DOMAIN instances : j # i => instances'[j] = instances[j]
      BY <1>3 DEF Cleanup
    <3>3. instances'[i].floor = f
      BY <1>0, <1>3 DEF Cleanup, ChangeTable
    <3>. QED
      BY <1>0, <3>1, <3>2, <3>3
  <2>. QED
    BY <1>0, <1>3, <2>2, <2>3 DEF Cleanup
<1>4. ASSUME NEW c \in NewColumns, AddColumn(c)
      PROVE  SourceTypeOK'
  <2>1. c \in Column
    BY TableAssumption
  <2>. QED
    BY <1>4, <2>1 DEF AddColumn, Columns
<1>5. ASSUME NEW d \in DOMAIN columns, DropColumn(d)
      PROVE  SourceTypeOK'
  <2>1. columns' \in [1..(Len(columns) - 1) -> Column] /\ Len(columns) - 1 \in Nat
    BY <1>0, <1>5 DEF DropColumn
  <2>2. columns' \in Columns
    BY <2>1 DEF Columns
  <2>3. \A i \in DOMAIN instances :
          [instances[i] EXCEPT !.records = @ \ {columns[d].name}] \in ChangeTable
    BY <1>0 DEF ChangeTable
  <2>4. columns[d].name \in Name
    BY <1>0
  <2>5. instances' \in [DOMAIN instances -> ChangeTable]
    BY <1>5, <2>3 DEF DropColumn
  <2>6. \A i \in DOMAIN instances : instances'[i].floor = instances[i].floor
    BY <1>5 DEF DropColumn, ChangeTable
  <2>. QED
    BY <1>0, <1>5, <2>2, <2>4, <2>5, <2>6 DEF DropColumn
<1>6. ASSUME NEW d \in DOMAIN columns, NEW t \in Type, AlterColumn(d, t)
      PROVE  SourceTypeOK'
  <2>1. columns[d] \in Column /\ [columns[d] EXCEPT !.type = t] \in Column
    BY <1>0 DEF Column
  <2>2. columns' \in Columns
    BY <1>0, <1>6, <2>1 DEF AlterColumn, Columns
  <2>3. ChangeType[t] \in Type
    BY TypeAssumption
  <2>4. \A i \in DOMAIN instances :
          [instances[i] EXCEPT !.columns = Retyped(@, columns[d].name, ChangeType[t])]
            \in ChangeTable
    BY <1>0, <2>3, RetypedType DEF ChangeTable
  <2>5. \A i \in DOMAIN instances : instances'[i] \in ChangeTable /\ instances'[i].floor <= Len(log)
    BY <1>0, <1>6, <2>4 DEF AlterColumn, ChangeTable
  <2>. QED
    BY <1>0, <1>6, <2>2, <2>5 DEF AlterColumn
<1>7. ASSUME NEW m \in Keys, Rekey(m)
      PROVE  SourceTypeOK'
  <2>1. m = <<>> \/ \E n \in Name : m = <<n>>
    BY <1>7 DEF Keys
  <2>2. m \in Seq(Name)
    <3>1. CASE m = <<>>
      BY <3>1
    <3>2. ASSUME NEW n \in Name, m = <<n>> PROVE m \in Seq(Name)
      BY <3>2
    <3>. QED
      BY <2>1, <3>1, <3>2
  <2>. QED
    BY <1>7, <2>2 DEF Rekey
<1>8. ASSUME NEW i \in Instance, DropInstance(i)
      PROVE  SourceTypeOK'
  BY <1>8 DEF DropInstance
<1>9. ASSUME NEW i \in Instance, NEW p \in Picks, CreateInstance(i, p)
      PROVE  /\ SourceTypeOK' /\ Len(log) <= Len(log')
             /\ \A j \in 1..Len(log) : log'[j] = log[j]
  <2>1. log' = Append(log, "other") /\ Len(log) < MaxLog
    BY <1>9 DEF CreateInstance
  <2>2. /\ log' \in Seq({"write", "other"}) /\ Len(log') = Len(log) + 1
        /\ \A j \in 1..Len(log) : log'[j] = log[j]
    BY <1>0, <2>1
  <2>3. Enabled(p, Len(log')) \in ChangeTable
    <3>1. PICK n \in Nat : p \in [1..n -> DOMAIN columns]
      BY PickIsMap
    <3>2. Len(log') \in Nat \ {0} /\ columns \in Columns
      BY <1>0, <2>2
    <3>. QED
      BY <3>1, <3>2, EnabledType
  <2>4. Enabled(p, Len(log')).floor = Len(log')
    BY DEF Enabled
  <2>. HIDE DEF Enabled
  <2>. QED
    BY <1>0, <1>9, <2>2, <2>3, <2>4 DEF CreateInstance
<1>10. ASSUME SchemaChange
       PROVE  /\ SourceTypeOK' /\ upsets' \in 0..MaxUpsets /\ UNCHANGED <<captured, callVars>>
              /\ Len(log) <= Len(log') /\ \A j \in 1..Len(log) : log'[j] = log[j]
  <2>1. Upset => upsets' \in 0..MaxUpsets
    BY <1>0 DEF Upset
  <2>2. CASE \E i \in Instance, p \in Picks : CreateInstance(i, p)
    BY <1>9, <2>1, <2>2 DEF CreateInstance
  <2>3. CASE \E c \in NewColumns : AddColumn(c)
    BY <1>0, <1>4, <2>1, <2>3 DEF AddColumn
  <2>4. ASSUME NEW d \in DOMAIN columns, DropColumn(d)
        PROVE  Upset /\ UNCHANGED <<log, captured, callVars>>
    BY <2>4 DEF DropColumn
  <2>5. ASSUME NEW d \in DOMAIN columns, NEW t \in Type, AlterColumn(d, t)
        PROVE  Upset /\ UNCHANGED <<log, captured, callVars>>
    BY <2>5 DEF AlterColumn
  <2>6. CASE \E m \in Keys : Rekey(m)
    BY <1>0, <1>7, <2>1, <2>6 DEF Rekey
  <2>7. CASE \E i \in Instance : DropInstance(i)
    BY <1>0, <1>8, <2>1, <2>7 DEF DropInstance
  <2>8. CASE \E d \in DOMAIN columns : DropColumn(d)
    BY <1>0, <1>5, <2>1, <2>4, <2>8
  <2>9. CASE \E d \in DOMAIN columns, t \in Type : AlterColumn(d, t)
    BY <1>0, <1>6, <2>1, <2>5, <2>9
  <2>. QED
    BY <1>10, <2>2, <2>3, <2>6, <2>7, <2>8, <2>9 DEF SchemaChange
<1>. QED
  <2>1. CASE Commit
    BY <1>0, <1>1, <2>1 DEF Commit
  <2>2. CASE Capture
    BY <1>0, <1>2, <2>2 DEF Capture
  <2>3. CASE \E i \in Instance, f \in 1..MaxLog : Cleanup(i, f)
    BY <1>0, <1>3, <2>3
  <2>4. CASE SchemaChange
    BY <1>0, <1>10, <2>4
  <2>. QED
    BY <2>1, <2>2, <2>3, <2>4 DEF SourceNext

\* What inspect() has read so far, and what becomes of it, is a table spec.
LEMMA FreshType ==
  ASSUME SourceTypeOK, call \in [draft : TableSpec, page : BOOLEAN, high : Nat]
  PROVE  Fresh \in TableSpec
<1>1. call.draft \in TableSpec /\ call.draft.columns \in Columns
  BY DEF TableSpec
<1>2. \A i : CapturedColumns(i) \in Columns
  <2>1. <<>> \in Columns
    BY DEF Columns
  <2>2. \A i \in DOMAIN instances : instances[i].columns \in Columns
    BY DEF SourceTypeOK, ChangeTable
  <2>. QED
    BY <2>1, <2>2 DEF CapturedColumns
<1>3. CapturedOf(call.draft) \in Columns
  BY <1>1, <1>2, MarkedType DEF CapturedOf
<1>. QED
  BY <1>1, <1>3 DEF Fresh, TableSpec

\* The schema of a frame is a list of fields.
LEMMA SchemaType ==
  ASSUME NEW cols \in Columns
  PROVE  FrameSchema(cols) \in Seq(FieldSchema)
<1>1. cols \in [1..Len(cols) -> Column] /\ Len(cols) \in Nat /\ DOMAIN cols = 1..Len(cols)
  BY DEF Columns
<1>2. \A c \in Column : <<c.name, Arrow[c.type]>> \in FieldSchema
  BY DEF Column, FieldSchema
<1>. QED
  BY <1>1, <1>2 DEF FrameSchema

Locals == [draft : TableSpec, page : BOOLEAN, high : Nat]

Outputs == [opened : Nat, writes : SUBSET Nat, schemas : SUBSET Seq(FieldSchema)]

\* The locals of a call that has read nothing.
LEMMA NothingYet == NoCall \in Locals /\ NoOutput \in Outputs
<1>1. <<>> \in Columns /\ <<>> \in Seq(Name)
  BY DEF Columns
<1>2. NoSpec \in TableSpec
  BY <1>1 DEF NoSpec, TableSpec
<1>. QED
  BY <1>2 DEF NoCall, NoOutput, Locals, Outputs

\* The variables start out well typed.
LEMMA TypeInit == Init => TypeOK
<1>. SUFFICES ASSUME Init PROVE TypeOK
  OBVIOUS
<1>1. columns \in Columns /\ key \in Seq(Name)
  BY TableAssumption DEF Init
<1>2. Len(columns) \in Nat /\ [j \in DOMAIN columns |-> j] \in [1..Len(columns) -> DOMAIN columns]
  BY <1>1 DEF Columns
<1>3. Enabled([j \in DOMAIN columns |-> j], 1) \in ChangeTable
  BY <1>1, <1>2, EnabledType
<1>4. Enabled([j \in DOMAIN columns |-> j], 1).floor = 1
  BY DEF Enabled
<1>. HIDE DEF Enabled
<1>5. SourceTypeOK
  BY <1>1, <1>3, <1>4, BoundsAssumption, InstanceAssumption DEF Init, SourceTypeOK
<1>. QED
  BY <1>5, NothingYet, BoundsAssumption DEF Init, TypeOK, Locals, Outputs, PCs

\* What a call that goes on without the source changing leaves well typed.
LEMMA SourceQuiet ==
  ASSUME SourceTypeOK, UNCHANGED sourceVars
  PROVE  SourceTypeOK'
BY DEF SourceTypeOK, sourceVars, tableVars, logVars

\* A batch leaves the output and the run state well typed.
LEMMA TypeOfBatch ==
  ASSUME TypeOK, run # None, NEW to \in Nat, Batch(to)
  PROVE  run' \in Driven /\ output' \in Outputs
<1>1. run \in Driven /\ run.last_lsn \in Nat /\ run.spec.captured \in Columns
  BY DEF TypeOK, Driven, RunState, TableSpec
<1>2. run' \in Driven
  <2> DEFINE short == IF run.last_lsn <= to THEN to + 1 \notin Adjacent ELSE run.short
  <2>1. short \in BOOLEAN
    BY <1>1 DEF Driven, RunState
  <2>2. run' = [run EXCEPT !.last_lsn = to + 1, !.short = short]
    BY DEF Batch
  <2>. HIDE DEF short
  <2>3. to + 1 \in Nat /\ run'.spec = run.spec
    BY <1>1, <2>2 DEF Driven, RunState
  <2>. QED
    BY <1>1, <2>1, <2>2, <2>3 DEF Driven, RunState
<1> DEFINE writes == {i \in run.last_lsn..to : log[i] = "write"}
           schemas == IF call.page \/ writes # {}
                      THEN output.schemas \cup {FrameSchema(run.spec.captured)}
                      ELSE output.schemas
<1>3. writes \subseteq Nat /\ FrameSchema(run.spec.captured) \in Seq(FieldSchema)
  BY <1>1, SchemaType
<1>4. output' = [output EXCEPT !.writes = @ \cup writes, !.schemas = schemas]
  BY DEF Batch
<1>5. output \in Outputs
  BY DEF TypeOK, Outputs
<1>6. schemas \subseteq Seq(FieldSchema)
  BY <1>3, <1>5 DEF Outputs
<1>. HIDE DEF writes, schemas
<1>. QED
  BY <1>2, <1>3, <1>4, <1>5, <1>6 DEF Outputs

\* Everything keeps its type.
LEMMA TypeStep == TypeOK /\ [Next]_vars => TypeOK'
<1>. SUFFICES ASSUME TypeOK, [Next]_vars PROVE TypeOK'
  OBVIOUS
<1>. USE DEF TypeOK, PCs
<1>0. /\ call \in Locals /\ output \in Outputs /\ captured \in Nat /\ Len(log) \in Nat
      /\ upsets \in Nat /\ MaxUpsets \in Nat /\ Fresh \in TableSpec
      /\ None \notin Driven
  BY FreshType, BoundsAssumption, NoneAssumption DEF Locals, Outputs, SourceTypeOK, Driven
<1>1. CASE SourceNext
  BY <1>1, SourceStep DEF callVars
<1>2. CASE \E stale \in BOOLEAN : Begin(stale)
  BY <1>2, SourceQuiet DEF Begin
<1>3. CASE InspectKey \/ InspectInstance \/ InspectColumns
  <2>1. call' \in Locals
    <3>1. CASE InspectKey
      BY <1>0, <3>1 DEF InspectKey, Locals, TableSpec, SourceTypeOK
    <3>2. CASE InspectInstance
      <4>1. PICK i \in IF DOMAIN instances = {} THEN {NoInstance} ELSE DOMAIN instances :
              call' = [call EXCEPT !.draft.instance = i]
        BY <3>2 DEF InspectInstance
      <4>2. i \in Instance \cup {NoInstance}
        BY <4>1 DEF SourceTypeOK
      <4>. QED
        BY <1>0, <4>1, <4>2 DEF Locals, TableSpec
    <3>3. CASE InspectColumns
      BY <1>0, <3>3 DEF InspectColumns, Locals, TableSpec, SourceTypeOK
    <3>. QED
      BY <1>3, <3>1, <3>2, <3>3
  <2>. QED
    BY <1>3, <2>1, SourceQuiet DEF InspectKey, InspectInstance, InspectColumns, Locals
<1>4. ASSUME Raise, UNCHANGED upsets \/ Upset
      PROVE  TypeOK'
  BY <1>0, <1>4, NothingYet, SourceQuiet DEF Raise, Upset, Locals
<1>5. CASE CallFails \/ InspectRefused \/ NoFloor \/ PageRefused \/ WindowRefused
  BY <1>4, <1>5 DEF CallFails, InspectRefused, NoFloor, PageRefused, WindowRefused
<1>6. CASE SchemaChanged \/ RetentionExpired
  BY <1>6, NothingYet, SourceQuiet DEF SchemaChanged, RetentionExpired, DropRun, Locals
<1>7. CASE SeedInspected
  <2>1. run' \in Driven
    BY <1>0, <1>7 DEF SeedInspected, Driven, RunState, Admissible
  <2>. QED
    BY <1>0, <1>7, <2>1, NothingYet, SourceQuiet DEF SeedInspected, Locals
<1>8. CASE Refreshed
  <2>1. pc' = "retain" /\ Admissible(Fresh) /\ state # None /\ run' = [state EXCEPT !.spec = Fresh]
    BY <1>8 DEF Refreshed
  <2>. QED
    BY <1>0, <1>8, <2>1, NothingYet, SourceQuiet DEF Refreshed, Locals, Driven, RunState, Admissible
<1>9. CASE SeedFloor \/ SeedOpening
  <2>1. run \in Driven /\ captured \in Nat
    BY <1>0, <1>9 DEF SeedFloor, SeedOpening
  <2>2. pc = "floor" /\ SeedFloor => Floor \in Nat
    BY DEF SeedFloor, Tracked, Floor, SourceTypeOK, ChangeTable
  <2>3. run' \in Driven
    BY <1>9, <2>1, <2>2 DEF SeedFloor, SeedOpening, Driven, RunState
  <2>4. run'.last_lsn \in Nat
    BY <2>3 DEF Driven, RunState
  <2>5. output' \in Outputs
    BY <1>0, <1>9, <2>4, NothingYet DEF SeedFloor, SeedOpening, Outputs
  <2>. QED
    BY <1>0, <1>9, <2>3, <2>5, SourceQuiet DEF SeedFloor, SeedOpening, Outputs
<1>10. CASE CheckRetention
  BY <1>10, SourceQuiet DEF CheckRetention
<1>11. ASSUME NEW rows \in BOOLEAN, NEW done \in BOOLEAN, ReadPage(rows, done)
       PROVE  TypeOK'
  <2>1. run \in Driven
    BY <1>11 DEF ReadPage
  <2>. QED
    BY <1>0, <1>11, <2>1, SourceQuiet DEF ReadPage, Driven, RunState, Locals
<1>12. CASE ReadMax
  BY <1>0, <1>12, SourceQuiet DEF ReadMax, Locals
<1>13. CASE NoWindow \/ ReadWindow
  <2>1. run # None /\ run.last_lsn \in Nat
    BY <1>13 DEF NoWindow, ReadWindow, Driven, RunState
  <2>2. PICK to \in Nat : Batch(to)
    <3>1. run.last_lsn > captured => run.last_lsn - 1 \in Nat
      BY <1>0, <2>1
    <3>2. call.high \in Nat
      OBVIOUS
    <3>. QED
      BY <1>13, <3>1, <3>2 DEF NoWindow, ReadWindow
  <2>3. run' \in Driven /\ output' \in Outputs /\ pc' = "returned"
    BY <2>1, <2>2, TypeOfBatch DEF Batch
  <2>. QED
    BY <1>0, <1>13, <2>3, SourceQuiet DEF NoWindow, ReadWindow, Outputs
<1>14. CASE Return
  BY <1>0, <1>14, NothingYet, SourceQuiet DEF Return, Locals
<1>15. CASE UNCHANGED vars
  <2>1. UNCHANGED sourceVars
    BY <1>15 DEF vars, sourceVars
  <2>. QED
    BY <1>15, <2>1, SourceQuiet DEF vars
<1>. QED
  BY <1>1, <1>2, <1>3, <1>5, <1>6, <1>7, <1>8, <1>9, <1>10, <1>11, <1>12, <1>13, <1>14, <1>15
     DEF Next, CallNext, Inspect, Read

\* Every variable keeps its type: a run state always has a spec with a log to
\* read, through every inspection, re-creation and failure.
THEOREM TypeCorrect == RunSpec => []TypeOK
BY TypeInit, TypeStep, PTL DEF RunSpec
-----------------------------------------------------------------------------
(* Frames stack and no write is lost.                                      *)

\* A run is being opened, and what is in the output is of the one before.
Opening == pc \in {"floor", "opening"}

\* The run state that counts at pc is the call's own or the caller's.
Seeding == Opening => state = None

\* The caller's run state and the call's have one schema, and so have the
\* frames so far.
SchemaInv ==
  /\ state # None =>
       \A a \in output.schemas : a = FrameSchema(state.spec.captured)
  /\ run # None /\ ~Opening =>
       \A a \in output.schemas : a = FrameSchema(run.spec.captured)
  /\ state # None /\ run # None =>
       FrameSchema(state.spec.captured) = FrameSchema(run.spec.captured)

StackInv == FramesStack /\ Seeding /\ SchemaInv

\* Lists of columns with one signature give one schema.
LEMMA SignatureDecides ==
  ASSUME NEW was \in Columns, NEW is_now \in Columns,
         Signature(was) = Signature(is_now)
  PROVE  FrameSchema(was) = FrameSchema(is_now)
<1>1. DOMAIN was = DOMAIN is_now
  BY DEF Signature
<1>2. \A j \in DOMAIN was : was[j].name = is_now[j].name /\ was[j].type = is_now[j].type
  BY <1>1 DEF Signature
<1>. QED
  BY <1>1, <1>2 DEF FrameSchema

\* The frames of a run go on stacking.
LEMMA StackStep == TypeOK /\ StackInv /\ [Next]_vars => StackInv'
<1>. SUFFICES ASSUME TypeOK, StackInv, [Next]_vars PROVE StackInv'
  OBVIOUS
<1>. USE DEF StackInv, SchemaInv, Seeding, Opening, FramesStack
<1>0. /\ None \notin Driven /\ state \in Driven \cup {None} /\ run \in Driven \cup {None}
      /\ \A s \in Driven : s.spec.captured \in Columns
      /\ Fresh \in TableSpec /\ Fresh.captured \in Columns
  BY FreshType, NoneAssumption DEF TypeOK, Driven, RunState, TableSpec
<1>1. CASE SourceNext
  BY <1>1, SourceStep DEF callVars, TypeOK
<1>2. CASE \E stale \in BOOLEAN : Begin(stale)
  BY <1>2 DEF Begin
<1>3. CASE InspectKey \/ InspectInstance \/ InspectColumns
  BY <1>3 DEF InspectKey, InspectInstance, InspectColumns
<1>4. CASE CallFails \/ InspectRefused \/ NoFloor \/ PageRefused \/ WindowRefused
  BY <1>4 DEF CallFails, InspectRefused, NoFloor, PageRefused, WindowRefused, Raise
<1>5. CASE SchemaChanged \/ RetentionExpired
  BY <1>5 DEF SchemaChanged, RetentionExpired, DropRun
<1>6. CASE SeedInspected
  BY <1>6 DEF SeedInspected
<1>7. CASE Refreshed
  <2>1. /\ state # None /\ pc' = "retain" /\ run' = [state EXCEPT !.spec = Fresh]
        /\ UNCHANGED <<state, output>> /\ ~Moved(state.spec, Fresh)
    BY <1>7 DEF Refreshed
  <2>2. run'.spec = Fresh /\ Signature(state.spec.captured) = Signature(Fresh.captured)
    BY <1>0, <2>1 DEF Moved, Driven, RunState
  <2>3. FrameSchema(state.spec.captured) = FrameSchema(Fresh.captured)
    BY <1>0, <2>1, <2>2, SignatureDecides
  <2>. QED
    BY <2>1, <2>2, <2>3
<1>8. CASE SeedFloor
  BY <1>0, <1>8 DEF SeedFloor, Driven, RunState
<1>9. CASE SeedOpening
  BY <1>0, <1>9 DEF SeedOpening, NoOutput, TypeOK
<1>10. CASE CheckRetention
  BY <1>10 DEF CheckRetention
<1>11. CASE \E rows, done \in BOOLEAN : ReadPage(rows, done)
  <2>1. run # None /\ run'.spec = run.spec /\ UNCHANGED <<state, output>> /\ pc = "page" /\ pc' = "max"
    BY <1>0, <1>11 DEF ReadPage, Driven, RunState, TypeOK
  <2>. QED
    BY <2>1
<1>12. CASE ReadMax
  BY <1>12 DEF ReadMax
<1>13. CASE NoWindow \/ ReadWindow
  <2>1. /\ run # None /\ pc' = "returned" /\ UNCHANGED state /\ run'.spec = run.spec /\ ~Opening
    BY <1>0, <1>13 DEF NoWindow, ReadWindow, Batch, Driven, RunState, TypeOK
  <2>2. output'.schemas \in {output.schemas, output.schemas \cup {FrameSchema(run.spec.captured)}}
    BY <1>13 DEF NoWindow, ReadWindow, Batch, TypeOK
  <2>. QED
    BY <2>1, <2>2
<1>14. CASE Return
  BY <1>14 DEF Return, TypeOK
<1>15. CASE UNCHANGED vars
  BY <1>15 DEF vars
<1>. QED
  BY <1>1, <1>2, <1>3, <1>4, <1>5, <1>6, <1>7, <1>8, <1>9, <1>10, <1>11, <1>12, <1>13, <1>14, <1>15
     DEF Next, CallNext, Inspect, Read

\* All the frames of a run have one schema, whatever happens to the table and
\* its capture instances and however often the spec is read again.
THEOREM FramesAlwaysStack == RunSpec => []FramesStack
<1>1. Init => StackInv
  BY DEF Init, NoOutput, StackInv, FramesStack, SchemaInv, Seeding, Opening
<1>2. StackInv => FramesStack
  BY DEF StackInv
<1>. QED
  BY <1>1, <1>2, StackStep, TypeCorrect, PTL DEF RunSpec
-----------------------------------------------------------------------------
\* A run state's position is at most one past the end of log l, and every write
\* from the opening up to it is in output o.
Delivered(s, l, o) ==
  /\ s.last_lsn <= Len(l) + 1
  /\ \A i \in o.opened..(s.last_lsn - 1) :
       i \in DOMAIN l /\ l[i] = "write" => i \in o.writes

DeliveryInv ==
  /\ Seeding
  /\ state # None => Delivered(state, log, output)
  /\ run # None => run.last_lsn <= Len(log) + 1
  /\ run # None /\ ~Opening => Delivered(run, log, output)
  /\ pc = "events" => run.last_lsn <= call.high /\ call.high <= captured

\* What was delivered stays so while the log grows past the position.
LEMMA DeliveredStays ==
  ASSUME TypeOK, SourceNext, NEW s \in Driven, Delivered(s, log, output)
  PROVE  Delivered(s, log', output')
<1>1. /\ Len(log) \in Nat /\ Len(log') \in Nat /\ s.last_lsn \in Nat /\ output.opened \in Nat
      /\ Len(log) <= Len(log') /\ \A i \in 1..Len(log) : log'[i] = log[i]
      /\ output' = output /\ DOMAIN log = 1..Len(log) /\ DOMAIN log' = 1..Len(log')
  BY SourceStep DEF TypeOK, SourceTypeOK, Driven, RunState, callVars
<1>. QED
  BY <1>1 DEF Delivered

\* A batch delivers the writes of its window, and moves the position past it.
LEMMA DeliveredByBatch ==
  ASSUME TypeOK, run # None, Delivered(run, log, output), NEW to \in Nat, to <= Len(log),
         run.last_lsn <= to + 1, Batch(to)
  PROVE  /\ Delivered(run', log, output')
         /\ \A s \in Driven : Delivered(s, log, output) => Delivered(s, log, output')
<1>1. /\ run.last_lsn \in Nat /\ run' = [run EXCEPT !.last_lsn = to + 1,
                 !.short = IF run.last_lsn <= to THEN to + 1 \notin Adjacent ELSE @]
      /\ output.opened \in Nat /\ Len(log) \in Nat /\ run'.last_lsn = to + 1
  BY DEF TypeOK, SourceTypeOK, Driven, RunState, Batch
<1>2. /\ output'.opened = output.opened
      /\ output'.writes = output.writes \cup {i \in run.last_lsn..to : log[i] = "write"}
  BY DEF TypeOK, Batch
<1>3. \A s \in Driven : Delivered(s, log, output) => Delivered(s, log, output')
  BY <1>2 DEF Delivered
<1>4. ASSUME NEW i \in output.opened..to, log[i] = "write", i \in DOMAIN log
      PROVE  i \in output'.writes
  <2>1. i \in Nat
    BY <1>1
  <2>2. CASE i <= run.last_lsn - 1
    BY <1>1, <1>2, <1>4, <2>1, <2>2 DEF Delivered
  <2>3. CASE run.last_lsn <= i
    BY <1>1, <1>2, <1>4, <2>1, <2>3
  <2>. QED
    BY <1>1, <2>1, <2>2, <2>3
<1>. QED
  BY <1>1, <1>2, <1>3, <1>4 DEF Delivered

\* The writes up to a run state's position go on being delivered.
LEMMA DeliveryStep == TypeOK /\ DeliveryInv /\ [Next]_vars => DeliveryInv'
<1>. SUFFICES ASSUME TypeOK, DeliveryInv, [Next]_vars PROVE DeliveryInv'
  OBVIOUS
<1>. USE DEF DeliveryInv, Seeding, Opening
<1>0. /\ None \notin Driven /\ state \in Driven \cup {None} /\ run \in Driven \cup {None}
      /\ \A s \in Driven : s.last_lsn \in Nat
      /\ captured \in Nat /\ Len(log) \in Nat /\ captured <= Len(log)
      /\ DOMAIN log = 1..Len(log) /\ output \in Outputs /\ output.opened \in Nat
      /\ call \in Locals /\ call.high \in Nat
  BY NoneAssumption DEF TypeOK, SourceTypeOK, Driven, RunState, Outputs, Locals
<1>1. CASE SourceNext
  <2>1. /\ UNCHANGED callVars /\ captured <= captured' /\ Len(log) <= Len(log')
        /\ captured' \in Nat /\ Len(log') \in Nat
    BY <1>1, SourceStep DEF TypeOK, SourceTypeOK
  <2>2. state # None => Delivered(state, log', output')
    BY <1>0, <1>1, DeliveredStays
  <2>3. run # None /\ ~Opening => Delivered(run, log', output')
    BY <1>0, <1>1, DeliveredStays
  <2>4. run # None => run.last_lsn <= Len(log') + 1
    BY <1>0, <2>1
  <2>. QED
    BY <1>0, <2>1, <2>2, <2>3, <2>4 DEF callVars
<1>2. CASE \E stale \in BOOLEAN : Begin(stale)
  <2>1. state # None => state.last_lsn <= Len(log) + 1
    BY DEF Delivered
  <2>. QED
    BY <1>2, <2>1 DEF Begin, sourceVars, logVars
<1>3. CASE InspectKey \/ InspectInstance \/ InspectColumns
  BY <1>3 DEF InspectKey, InspectInstance, InspectColumns, sourceVars, logVars
<1>4. CASE CallFails \/ InspectRefused \/ NoFloor \/ PageRefused \/ WindowRefused
  BY <1>4 DEF CallFails, InspectRefused, NoFloor, PageRefused, WindowRefused, Raise,
     sourceVars, logVars
<1>5. CASE SchemaChanged \/ RetentionExpired
  BY <1>5 DEF SchemaChanged, RetentionExpired, DropRun, sourceVars, logVars
<1>6. CASE SeedInspected
  <2>1. run'.last_lsn = 0
    BY <1>6 DEF SeedInspected
  <2>. QED
    BY <1>0, <1>6, <2>1 DEF SeedInspected, sourceVars, logVars
<1>7. CASE Refreshed
  <2>1. run'.last_lsn = state.last_lsn /\ state # None
    BY <1>0, <1>7 DEF Refreshed, Driven, RunState
  <2>2. Delivered(run', log, output)
    BY <2>1 DEF Delivered
  <2>3. state.last_lsn <= Len(log) + 1
    BY <2>1 DEF Delivered
  <2>. QED
    BY <1>7, <2>1, <2>2, <2>3 DEF Refreshed, sourceVars, logVars
<1>8. CASE SeedFloor
  <2>1. Floor <= Len(log) /\ Floor \in Nat
    BY <1>8 DEF SeedFloor, Tracked, Floor, TypeOK, SourceTypeOK, ChangeTable
  <2>2. run'.last_lsn = Floor /\ run # None
    BY <1>0, <1>8 DEF SeedFloor, Driven, RunState, TypeOK
  <2>. QED
    BY <1>0, <1>8, <2>1, <2>2 DEF SeedFloor, sourceVars, logVars
<1>9. CASE SeedOpening
  <2>1. run \in Driven /\ run.last_lsn <= Len(log) + 1 /\ run.last_lsn \in Nat
    BY <1>0, <1>9 DEF SeedOpening, TypeOK
  <2>2. run'.last_lsn \in {captured, run.last_lsn}
    BY <2>1, <1>9 DEF SeedOpening, Driven, RunState
  <2>3. run'.last_lsn <= Len(log) + 1 /\ run'.last_lsn \in Nat
    BY <1>0, <2>1, <2>2
  <2>4. output'.opened = run'.last_lsn
    BY <1>9 DEF SeedOpening, NoOutput
  <2>5. Delivered(run', log, output')
    BY <2>3, <2>4 DEF Delivered
  <2>. QED
    BY <1>9, <2>3, <2>5 DEF SeedOpening, sourceVars, logVars
<1>10. CASE CheckRetention
  BY <1>10 DEF CheckRetention, sourceVars, logVars
<1>11. CASE \E rows, done \in BOOLEAN : ReadPage(rows, done)
  <2>1. run # None /\ run'.last_lsn = run.last_lsn /\ UNCHANGED <<state, output>>
    BY <1>0, <1>11 DEF ReadPage, Driven, RunState, TypeOK
  <2>2. Delivered(run, log, output)
    BY <1>11, <2>1 DEF ReadPage
  <2>3. Delivered(run', log, output)
    BY <2>1, <2>2 DEF Delivered
  <2>. QED
    BY <1>11, <2>1, <2>3 DEF ReadPage, sourceVars, logVars
<1>12. CASE ReadMax
  <2>1. call'.high = captured /\ run.last_lsn <= captured
    BY <1>0, <1>12 DEF ReadMax, Locals
  <2>. QED
    BY <1>0, <1>12, <2>1 DEF ReadMax, sourceVars, logVars
<1>13. CASE NoWindow \/ ReadWindow
  <2>1. /\ run # None /\ run.last_lsn \in Nat /\ Delivered(run, log, output)
        /\ run.last_lsn <= Len(log) + 1
    BY <1>0, <1>13 DEF NoWindow, ReadWindow, TypeOK
  <2>2. PICK to \in Nat : Batch(to) /\ to <= Len(log) /\ run.last_lsn <= to + 1
    <3>1. CASE NoWindow
      <4>1. run.last_lsn - 1 \in Nat /\ Batch(run.last_lsn - 1)
        BY <1>0, <2>1, <3>1 DEF NoWindow
      <4>. QED
        BY <1>0, <2>1, <4>1
    <3>2. CASE ReadWindow
      BY <1>0, <2>1, <3>2 DEF ReadWindow
    <3>. QED
      BY <1>13, <3>1, <3>2
  <2>3. /\ Delivered(run', log, output')
        /\ state # None => Delivered(state, log, output')
    BY <1>0, <2>1, <2>2, DeliveredByBatch
  <2>4. run'.last_lsn <= Len(log) + 1
    BY <2>3 DEF Delivered
  <2>. QED
    BY <1>13, <2>2, <2>3, <2>4 DEF NoWindow, ReadWindow, Batch, sourceVars, logVars
<1>14. CASE Return
  BY <1>0, <1>14 DEF Return, sourceVars, logVars, TypeOK
<1>15. CASE UNCHANGED vars
  BY <1>15 DEF vars, logVars
<1>. QED
  BY <1>1, <1>2, <1>3, <1>4, <1>5, <1>6, <1>7, <1>8, <1>9, <1>10, <1>11, <1>12, <1>13, <1>14, <1>15
     DEF Next, CallNext, Inspect, Read

\* A write committed after a run opened is in one of its frames before its
\* position passes it, whatever instances are dropped, created or cleaned up
\* on the way and whichever of them the run reads.
THEOREM WritesAreNotLost == RunSpec => []NoWriteLost
<1>1. Init => DeliveryInv
  BY DEF Init, DeliveryInv, Seeding, Opening
<1>2. DeliveryInv => NoWriteLost
  BY DEF DeliveryInv, NoWriteLost, Opening, Seeding, Delivered
<1>. QED
  BY <1>1, <1>2, DeliveryStep, TypeCorrect, PTL DEF RunSpec
-----------------------------------------------------------------------------
(* The two reads, where no column name is used twice.                      *)

\* Every column of cols was dropped since or is in the table, computed or not
\* as it was.
Traced(cols) ==
  \A j \in DOMAIN cols :
    \/ cols[j].name \in retired
    \/ \E i \in DOMAIN columns :
         columns[i].name = cols[j].name /\ columns[i].computed = cols[j].computed

\* The names of the columns that hold a value of their own.
Stored == {columns[j].name : j \in {i \in DOMAIN columns : ~columns[i].computed}}

TableInv == Distinct(columns) /\ Names(columns) \cap retired = {}

\* A change table has no column the table never had, and records the values of
\* those that are still there and hold any.
RecordsInv(t) ==
  \A n \in Names(t.columns) :
    /\ n \in Names(columns) \cup retired
    /\ n \in t.records <=> n \in Stored

InstancesInv == \A i \in DOMAIN instances : RecordsInv(instances[i])

CapturedInv ==
  /\ Traced(call.draft.columns)
  /\ state # None => Traced(state.spec.captured)
  /\ run # None => Traced(run.spec.captured)

ReadsInv == TableInv /\ InstancesInv /\ CapturedInv

\* Where a spec's columns are traced and its page can be read, the columns the
\* page asks for are the stored ones.
LEMMA ProjectedAreStored ==
  ASSUME TableInv, NEW cols, Traced(cols),
         {cols[j].name : j \in {i \in DOMAIN cols : ~cols[i].computed}} \subseteq Names(columns)
  PROVE  {cols[j].name : j \in {i \in DOMAIN cols : ~cols[i].computed}} = Names(cols) \cap Stored
<1> DEFINE asked == {cols[j].name : j \in {i \in DOMAIN cols : ~cols[i].computed}}
<1>1. ASSUME NEW j \in DOMAIN cols, ~cols[j].computed
      PROVE  cols[j].name \in Names(cols) \cap Stored
  <2>1. cols[j].name \in Names(columns) /\ cols[j].name \notin retired
    BY <1>1 DEF TableInv
  <2>2. PICK i \in DOMAIN columns :
          columns[i].name = cols[j].name /\ columns[i].computed = cols[j].computed
    BY <2>1 DEF Traced
  <2>. QED
    BY <1>1, <2>2 DEF Names, Stored
<1>2. ASSUME NEW j \in DOMAIN cols, cols[j].name \in Stored
      PROVE  cols[j].name \in asked
  <2>1. PICK k \in DOMAIN columns : columns[k].name = cols[j].name /\ ~columns[k].computed
    BY <1>2 DEF Stored
  <2>2. cols[j].name \notin retired
    BY <2>1 DEF TableInv, Names
  <2>3. PICK i \in DOMAIN columns :
          columns[i].name = cols[j].name /\ columns[i].computed = cols[j].computed
    BY <2>2 DEF Traced
  <2>4. i = k
    BY <2>1, <2>3 DEF TableInv, Distinct
  <2>. QED
    BY <2>1, <2>3, <2>4
<1>. QED
  BY <1>1, <1>2 DEF Names

\* The invariant is what makes the two reads agree.
LEMMA ReadsAgree == TypeOK /\ ReadsInv => TwoReadsAgree
<1>. SUFFICES ASSUME TypeOK, ReadsInv, pc = "page", PageReadable, LogReadable
              PROVE  Projected = instances[run.spec.instance].records
                                   \cap Names(run.spec.captured)
  BY DEF TwoReadsAgree
<1>0. run # None
  BY DEF TypeOK
<1>1. Projected = Names(run.spec.captured) \cap Stored
  BY <1>0, ProjectedAreStored DEF ReadsInv, CapturedInv, Projected, PageReadable
<1>2. \A n \in Names(run.spec.captured) :
        n \in instances[run.spec.instance].records <=> n \in Stored
  BY DEF LogReadable, Tracked, ReadsInv, InstancesInv, RecordsInv
<1>. QED
  BY <1>1, <1>2

\* Retyping a column leaves its name.
LEMMA RetypedNames ==
  ASSUME NEW cols \in Columns, NEW m, NEW t
  PROVE  Names(Retyped(cols, m, t)) = Names(cols)
<1>1. \A c \in Column : [c EXCEPT !.type = t].name = c.name
  BY DEF Column
<1>2. \A j \in DOMAIN cols : cols[j] \in Column
  BY DEF Columns
<1>3. DOMAIN Retyped(cols, m, t) = DOMAIN cols
  BY DEF Retyped
<1>4. \A j \in DOMAIN cols : Retyped(cols, m, t)[j].name = cols[j].name
  BY <1>1, <1>2 DEF Retyped
<1>. QED
  BY <1>3, <1>4 DEF Names

\* A new change table records what its columns hold.
LEMMA EnabledRecords ==
  ASSUME columns \in Columns, Distinct(columns), NEW n \in Nat,
         NEW p \in [1..n -> DOMAIN columns], NEW f
  PROVE  RecordsInv(Enabled(p, f))
<1> DEFINE t == Enabled(p, f)
<1>1. /\ Names(t.columns) = {columns[p[j]].name : j \in DOMAIN p}
      /\ t.records = {columns[p[j]].name : j \in {i \in DOMAIN p : ~columns[p[i]].computed}}
  BY DEF Enabled, Names
<1>2. \A j \in DOMAIN p : p[j] \in DOMAIN columns
  OBVIOUS
<1>. HIDE DEF t
<1>3. ASSUME NEW m \in Names(t.columns)
      PROVE  m \in Names(columns) /\ (m \in t.records <=> m \in Stored)
  <2>1. PICK j \in DOMAIN p : m = columns[p[j]].name
    BY <1>1
  <2>2. m \in t.records => m \in Stored
    BY <1>1, <1>2 DEF Stored
  <2>3. ASSUME m \in Stored PROVE m \in t.records
    <3>1. PICK i \in DOMAIN columns : m = columns[i].name /\ ~columns[i].computed
      BY <2>3 DEF Stored
    <3>2. p[j] = i
      BY <1>2, <2>1, <3>1 DEF Distinct
    <3>. QED
      BY <1>1, <2>1, <3>1, <3>2
  <2>. QED
    BY <1>2, <2>1, <2>2, <2>3 DEF Names
<1>. QED
  BY <1>3 DEF RecordsInv, t

\* A table with one more column: what the change tables and the specs say of
\* the others stays true.
LEMMA ReadsAdd ==
  ASSUME TypeOK, ReadsInv, ~ReAdd, NEW c \in NewColumns, AddColumn(c)
  PROVE  ReadsInv'
<1>1. /\ columns' = Append(columns, c) /\ UNCHANGED <<instances, retired, callVars>>
      /\ c.name \notin Names(columns) /\ c.name \notin retired
  BY DEF AddColumn
<1>2. /\ Len(columns) \in Nat /\ DOMAIN columns = 1..Len(columns)
      /\ DOMAIN columns' = 1..(Len(columns) + 1)
      /\ \A j \in DOMAIN columns : columns'[j] = columns[j]
      /\ columns'[Len(columns) + 1] = c
  BY <1>1, TableAssumption DEF TypeOK, SourceTypeOK, Columns
<1>3. Names(columns') = Names(columns) \cup {c.name}
  BY <1>2 DEF Names
<1>4. Distinct(columns')
  BY <1>1, <1>2 DEF ReadsInv, TableInv, Distinct, Names
<1>5. \A m : m # c.name => (m \in Stored' <=> m \in Stored)
  BY <1>2 DEF Stored
<1>6. \A t : RecordsInv(t) => RecordsInv(t)'
  BY <1>1, <1>3, <1>5 DEF RecordsInv
<1>7. ASSUME NEW cols, Traced(cols) PROVE Traced(cols)'
  BY <1>1, <1>2, <1>7 DEF Traced
<1>. QED
  BY <1>1, <1>3, <1>4, <1>6, <1>7 DEF ReadsInv, TableInv, InstancesInv, CapturedInv, callVars

\* A table with one column less: its values are gone from the change tables.
LEMMA ReadsDrop ==
  ASSUME TypeOK, ReadsInv, NEW d \in DOMAIN columns, DropColumn(d)
  PROVE  ReadsInv'
<1> DEFINE gone == columns[d].name
<1>1. /\ columns' = [j \in 1..(Len(columns) - 1) |-> columns[IF j < d THEN j ELSE j + 1]]
      /\ retired' = retired \cup {gone}
      /\ DOMAIN instances' = DOMAIN instances
      /\ UNCHANGED callVars
  BY DEF DropColumn
<1>2. Len(columns) \in Nat /\ DOMAIN columns = 1..Len(columns)
  BY DEF TypeOK, SourceTypeOK, Columns
<1>3. \A i \in DOMAIN instances :
        /\ instances'[i].columns = instances[i].columns
        /\ instances'[i].records = instances[i].records \ {gone}
  BY DEF DropColumn, TypeOK, SourceTypeOK, ChangeTable
<1>4. \A j \in DOMAIN columns' : \E i \in DOMAIN columns : i # d /\ columns'[j] = columns[i]
  BY <1>1, <1>2
<1>5. \A i \in DOMAIN columns : i # d => \E j \in DOMAIN columns' : columns'[j] = columns[i]
  <2>1. ASSUME NEW i \in DOMAIN columns, i < d
        PROVE  i \in DOMAIN columns' /\ columns'[i] = columns[i]
    BY <1>1, <1>2, <2>1
  <2>2. ASSUME NEW i \in DOMAIN columns, i > d
        PROVE  i - 1 \in DOMAIN columns' /\ columns'[i - 1] = columns[i]
    BY <1>1, <1>2, <2>2
  <2>. QED
    BY <1>2, <2>1, <2>2
<1>6. \A i \in DOMAIN columns : columns[i].name = gone => i = d
  BY DEF ReadsInv, TableInv, Distinct
<1>7. Names(columns') = Names(columns) \ {gone}
  BY <1>4, <1>5, <1>6 DEF Names
<1>8. Distinct(columns')
  <2>1. SUFFICES ASSUME NEW i \in DOMAIN columns', NEW j \in DOMAIN columns',
                        columns'[i].name = columns'[j].name
                 PROVE  i = j
    BY DEF Distinct
  <2> DEFINE from(k) == IF k < d THEN k ELSE k + 1
  <2>2. /\ from(i) \in DOMAIN columns /\ from(j) \in DOMAIN columns
        /\ columns'[i] = columns[from(i)] /\ columns'[j] = columns[from(j)]
    BY <1>1, <1>2
  <2>3. from(i) = from(j)
    BY <2>1, <2>2 DEF ReadsInv, TableInv, Distinct
  <2>. QED
    BY <1>1, <1>2, <2>3
<1>9. Stored' = Stored \ {gone}
  BY <1>4, <1>5, <1>6 DEF Stored
<1>10. InstancesInv'
  <2>1. ASSUME NEW i \in DOMAIN instances PROVE RecordsInv(instances[i])'
    <3>1. RecordsInv(instances[i])
      BY DEF ReadsInv, InstancesInv
    <3>. QED
      BY <1>1, <1>3, <1>7, <1>9, <3>1 DEF RecordsInv
  <2>. QED
    BY <1>1, <2>1 DEF InstancesInv
<1>11. ASSUME NEW cols, Traced(cols) PROVE Traced(cols)'
  BY <1>1, <1>5, <1>11 DEF Traced
<1>12. CapturedInv'
  BY <1>1, <1>11 DEF ReadsInv, CapturedInv, callVars
<1>13. TableInv'
  BY <1>1, <1>7, <1>8 DEF ReadsInv, TableInv
<1>. QED
  BY <1>10, <1>12, <1>13 DEF ReadsInv

\* A column of another type is the same column.
LEMMA ReadsAlter ==
  ASSUME TypeOK, ReadsInv, NEW d \in DOMAIN columns, NEW t \in Type, AlterColumn(d, t)
  PROVE  ReadsInv'
<1>1. /\ columns' = [columns EXCEPT ![d].type = t]
      /\ DOMAIN instances' = DOMAIN instances /\ UNCHANGED <<retired, callVars>>
  BY DEF AlterColumn
<1>2. /\ DOMAIN columns' = DOMAIN columns
      /\ \A j \in DOMAIN columns : /\ columns'[j].name = columns[j].name
                                   /\ columns'[j].computed = columns[j].computed
  BY <1>1 DEF TypeOK, SourceTypeOK, Columns, Column
<1>3. \A i \in DOMAIN instances :
        /\ Names(instances'[i].columns) = Names(instances[i].columns)
        /\ instances'[i].records = instances[i].records
  <2>1. SUFFICES ASSUME NEW i \in DOMAIN instances
                 PROVE  /\ Names(instances'[i].columns) = Names(instances[i].columns)
                        /\ instances'[i].records = instances[i].records
    OBVIOUS
  <2>2. instances[i] \in ChangeTable /\ instances[i].columns \in Columns
    BY DEF TypeOK, SourceTypeOK, ChangeTable
  <2>3. instances'[i] \in
          {instances[i],
           [instances[i] EXCEPT !.columns = Retyped(@, columns[d].name, ChangeType[t])]}
    BY DEF AlterColumn
  <2>4. instances'[i].columns \in
          {instances[i].columns, Retyped(instances[i].columns, columns[d].name, ChangeType[t])}
    BY <2>2, <2>3 DEF ChangeTable
  <2>5. instances'[i].records = instances[i].records
    BY <2>2, <2>3 DEF ChangeTable
  <2>. QED
    BY <2>2, <2>4, <2>5, RetypedNames
<1>4. Names(columns') = Names(columns) /\ Stored' = Stored
  BY <1>2 DEF Names, Stored
<1>5. InstancesInv'
  BY <1>1, <1>3, <1>4 DEF ReadsInv, InstancesInv, RecordsInv
<1>6. ASSUME NEW cols, Traced(cols) PROVE Traced(cols)'
  BY <1>1, <1>2, <1>6 DEF Traced
<1>7. CapturedInv'
  BY <1>1, <1>6 DEF ReadsInv, CapturedInv, callVars
<1>8. TableInv'
  BY <1>1, <1>2, <1>4 DEF ReadsInv, TableInv, Distinct
<1>. QED
  BY <1>5, <1>7, <1>8 DEF ReadsInv

\* The source, whatever it does, stays in step with its change tables.
LEMMA ReadsSource ==
  ASSUME TypeOK, ReadsInv, ~ReAdd, SourceNext
  PROVE  ReadsInv'
<1>1. ASSUME UNCHANGED <<columns, retired, callVars>>, InstancesInv'
      PROVE  ReadsInv'
  BY <1>1 DEF ReadsInv, TableInv, CapturedInv, Traced, Distinct, Names, callVars
<1>2. CASE Commit \/ Capture \/ \E m \in Keys : Rekey(m)
  BY <1>1, <1>2 DEF Commit, Capture, Rekey, tableVars, ReadsInv, InstancesInv, RecordsInv,
     Names, Stored, callVars
<1>3. ASSUME NEW i \in Instance, NEW f \in 1..MaxLog, Cleanup(i, f)
      PROVE  ReadsInv'
  <2>1. \A j \in DOMAIN instances : /\ instances'[j].columns = instances[j].columns
                                    /\ instances'[j].records = instances[j].records
    BY <1>3 DEF Cleanup, TypeOK, SourceTypeOK, ChangeTable
  <2>2. /\ DOMAIN instances' = DOMAIN instances
        /\ UNCHANGED <<columns, retired, callVars>>
    BY <1>3 DEF Cleanup
  <2>. QED
    BY <1>1, <2>1, <2>2 DEF ReadsInv, InstancesInv, RecordsInv, Names, Stored
<1>4. ASSUME NEW i \in Instance, DropInstance(i)
      PROVE  ReadsInv'
  BY <1>1, <1>4 DEF DropInstance, ReadsInv, InstancesInv, RecordsInv, Names, Stored, callVars
<1>5. ASSUME NEW i \in Instance, NEW p \in Picks, CreateInstance(i, p)
      PROVE  ReadsInv'
  <2>1. columns \in Columns /\ Distinct(columns)
    BY DEF TypeOK, SourceTypeOK, ReadsInv, TableInv
  <2>2. RecordsInv(Enabled(p, Len(log')))
    BY <2>1, PickIsMap, EnabledRecords
  <2>3. /\ DOMAIN instances' = DOMAIN instances \cup {i}
        /\ \A j \in DOMAIN instances' :
             instances'[j] = IF j = i THEN Enabled(p, Len(log')) ELSE instances[j]
        /\ UNCHANGED <<columns, retired, callVars>>
    BY <1>5 DEF CreateInstance
  <2>4. \A j \in DOMAIN instances' : RecordsInv(instances'[j])
    BY <2>2, <2>3 DEF ReadsInv, InstancesInv
  <2>5. InstancesInv'
    BY <2>3, <2>4 DEF InstancesInv, RecordsInv, Names, Stored
  <2>. QED
    BY <1>1, <2>3, <2>5
<1>. QED
  BY <1>2, <1>3, <1>4, <1>5, ReadsAdd, ReadsDrop, ReadsAlter DEF SourceNext, SchemaChange

\* A spec that validate() lets through has captured columns that are traced,
\* the source's having been.
LEMMA AdoptedIsTraced ==
  ASSUME call.draft.columns \in Columns, CapturedColumns(call.draft.instance) \in Columns,
         Traced(call.draft.columns), call.draft \in TableSpec, Admissible(Fresh)
  PROVE  Traced(Fresh.captured)
<1> DEFINE read == CapturedColumns(call.draft.instance)
           cols == call.draft.columns
           computed == {cols[j].name : j \in {i \in DOMAIN cols : cols[i].computed}}
<1>1. Fresh.columns = cols /\ Fresh.instance = call.draft.instance
  BY DEF Fresh, TableSpec
<1>2. Fresh.captured = [j \in DOMAIN read |->
                          [read[j] EXCEPT !.computed = read[j].name \in computed]]
  BY <1>1 DEF Fresh, CapturedOf, MarkComputed, Admissible, TableSpec
<1>3. \A j \in DOMAIN read : read[j] \in Column
  BY DEF Columns
<1>3a. \A i \in DOMAIN cols : cols[i].computed \in BOOLEAN
  <2>1. \A c \in Column : c.computed \in BOOLEAN
    BY DEF Column
  <2>2. \A i \in DOMAIN cols : cols[i] \in Column
    BY DEF Columns
  <2>. QED
    BY <2>1, <2>2
<1>3b. \A j \in DOMAIN Fresh.captured :
        \E i \in DOMAIN cols : cols[i].name = Fresh.captured[j].name
  BY <1>1 DEF Admissible, Valid
<1>. HIDE DEF computed, read, cols
<1>4. SUFFICES ASSUME NEW j \in DOMAIN read
               PROVE  \/ Fresh.captured[j].name \in retired
                      \/ \E i \in DOMAIN columns :
                           /\ columns[i].name = Fresh.captured[j].name
                           /\ columns[i].computed = Fresh.captured[j].computed
  BY <1>2 DEF Traced
<1>5. Fresh.captured[j].name = read[j].name
  BY <1>2, <1>3 DEF Column
<1>6. Fresh.captured[j].computed = (read[j].name \in computed)
  BY <1>2, <1>3 DEF Column
<1>7. \E i \in DOMAIN cols : /\ cols[i].name = read[j].name
                             /\ cols[i].computed = (read[j].name \in computed)
  <2>1. PICK i \in DOMAIN cols : cols[i].name = read[j].name
    BY <1>2, <1>5, <1>3b
  <2>2. cols[i].computed \in BOOLEAN
    BY <1>3a
  <2>3. CASE read[j].name \in computed
    <3>1. PICK k \in DOMAIN cols : cols[k].name = read[j].name /\ cols[k].computed
      BY <2>3 DEF computed
    <3>2. cols[k].computed \in BOOLEAN
      BY <1>3a
    <3>. QED
      BY <2>3, <3>1, <3>2
  <2>4. CASE read[j].name \notin computed
    <3>1. ~cols[i].computed
      BY <2>1, <2>4 DEF computed
    <3>. QED
      BY <2>1, <2>2, <2>4, <3>1
  <2>. QED
    BY <2>3, <2>4
<1>. QED
  BY <1>5, <1>6, <1>7 DEF Traced, cols

\* What the two reads rely on is kept by every step.
LEMMA ReadsStep == TypeOK /\ ReadsInv /\ ~ReAdd /\ [Next]_vars => ReadsInv'
<1>. SUFFICES ASSUME TypeOK, ReadsInv, ~ReAdd, [Next]_vars PROVE ReadsInv'
  OBVIOUS
<1>0. /\ None \notin Driven /\ state \in Driven \cup {None} /\ run \in Driven \cup {None}
      /\ Fresh \in TableSpec /\ call \in Locals
      /\ call.draft \in TableSpec /\ call.draft.columns \in Columns
      /\ CapturedColumns(call.draft.instance) \in Columns
  <2>1. call \in Locals /\ Fresh \in TableSpec
    BY FreshType DEF TypeOK, Locals
  <2>2. call.draft \in TableSpec /\ call.draft.columns \in Columns
    BY <2>1 DEF Locals, TableSpec
  <2>3. <<>> \in Columns
    BY DEF Columns
  <2>4. CapturedColumns(call.draft.instance) \in Columns
    BY <2>3 DEF CapturedColumns, TypeOK, SourceTypeOK, ChangeTable
  <2>. QED
    BY <2>1, <2>2, <2>4, NoneAssumption DEF TypeOK, Driven, RunState
\* A step of the call: it is enough to look at its three specs.
<1>1. ASSUME UNCHANGED sourceVars, CapturedInv' PROVE ReadsInv'
  BY <1>1 DEF ReadsInv, TableInv, InstancesInv, RecordsInv, Distinct, Names, Stored,
     sourceVars, tableVars
<1>2. ASSUME NEW cols, Traced(cols), UNCHANGED sourceVars PROVE Traced(cols)'
  BY <1>2 DEF Traced, sourceVars, tableVars
<1>3. Traced(NoCall.draft.columns) /\ Traced(columns)
  BY DEF Traced, NoCall, NoSpec
<1>4. /\ Traced(call.draft.columns)
      /\ state # None => Traced(state.spec.captured)
      /\ run # None => Traced(run.spec.captured)
  BY DEF ReadsInv, CapturedInv
<1>5. CASE SourceNext
  BY <1>5, ReadsSource
<1>6. CASE \E stale \in BOOLEAN : Begin(stale)
  BY <1>1, <1>2, <1>4, <1>6 DEF Begin, CapturedInv
<1>7. CASE InspectKey \/ InspectInstance \/ InspectColumns
  <2>1. UNCHANGED <<sourceVars, state, run>>
    BY <1>7 DEF InspectKey, InspectInstance, InspectColumns
  <2>2. call'.draft.columns \in {call.draft.columns, columns}
    BY <1>0, <1>7 DEF InspectKey, InspectInstance, InspectColumns, Locals, TableSpec
  <2>. QED
    BY <1>1, <1>2, <1>3, <1>4, <2>1, <2>2 DEF CapturedInv
<1>8. CASE CallFails \/ InspectRefused \/ NoFloor \/ PageRefused \/ WindowRefused
           \/ SchemaChanged \/ RetentionExpired
  <2>1. UNCHANGED sourceVars /\ state' \in {state, None} /\ run' = None /\ call' = NoCall
    BY <1>8 DEF CallFails, InspectRefused, NoFloor, PageRefused, WindowRefused, Raise,
       SchemaChanged, RetentionExpired, DropRun
  <2>. QED
    BY <1>1, <1>2, <1>3, <1>4, <2>1 DEF CapturedInv
<1>9. CASE SeedInspected \/ Refreshed
  <2>1. /\ UNCHANGED <<sourceVars, state>> /\ call' = NoCall /\ Admissible(Fresh)
        /\ run'.spec = Fresh
    BY <1>0, <1>9 DEF SeedInspected, Refreshed, Driven, RunState
  <2>2. Traced(Fresh.captured)
    BY <1>0, <1>4, <2>1, AdoptedIsTraced
  <2>. QED
    BY <1>1, <1>2, <1>3, <1>4, <2>1, <2>2 DEF CapturedInv
<1>10. CASE \/ SeedFloor \/ SeedOpening \/ CheckRetention \/ ReadMax \/ NoWindow \/ ReadWindow
            \/ \E rows, done \in BOOLEAN : ReadPage(rows, done)
  <2>1. /\ UNCHANGED <<sourceVars, state>> /\ run # None
        /\ run'.spec = run.spec /\ call'.draft = call.draft
    BY <1>0, <1>10 DEF SeedFloor, SeedOpening, CheckRetention, ReadMax, NoWindow, ReadWindow,
       ReadPage, Batch, Driven, RunState, Locals, TypeOK
  <2>. QED
    BY <1>1, <1>2, <1>4, <2>1 DEF CapturedInv
<1>11. CASE Return
  <2>1. UNCHANGED sourceVars /\ state' = run /\ run' = None /\ call' = NoCall
    BY <1>11 DEF Return
  <2>. QED
    BY <1>1, <1>2, <1>3, <1>4, <2>1 DEF CapturedInv
<1>12. CASE UNCHANGED vars
  <2>1. UNCHANGED <<sourceVars, state, run, call>>
    BY <1>12 DEF vars, sourceVars
  <2>. QED
    BY <1>1, <1>2, <1>4, <2>1 DEF CapturedInv
<1>. QED
  BY <1>5, <1>6, <1>7, <1>8, <1>9, <1>10, <1>11, <1>12 DEF Next, CallNext, Inspect, Read

\* Where no column's name is used again for another, a dump row and an event
\* of one row have values in the same columns, whatever else the source's
\* administrators do to the table between one inspection and the next.
THEOREM ReadsAlwaysAgree == ~ReAdd => (RunSpec => []TwoReadsAgree)
<1>. SUFFICES ASSUME ~ReAdd PROVE RunSpec => []TwoReadsAgree
  OBVIOUS
<1>1. Init => ReadsInv
  <2>. SUFFICES ASSUME Init PROVE ReadsInv
    OBVIOUS
  <2>1. columns \in Columns /\ Distinct(columns) /\ retired = {} /\ TypeOK
    BY TableAssumption, TypeInit DEF Init
  <2>2. Len(columns) \in Nat
        /\ [j \in DOMAIN columns |-> j] \in [1..Len(columns) -> DOMAIN columns]
    BY <2>1 DEF Columns
  <2>3. RecordsInv(Enabled([j \in DOMAIN columns |-> j], 1))
    BY <2>1, <2>2, EnabledRecords
  <2>4. InstancesInv
    BY <2>3 DEF Init, InstancesInv
  <2>5. CapturedInv
    BY DEF Init, CapturedInv, NoCall, NoSpec, Traced
  <2>. QED
    BY <2>1, <2>4, <2>5 DEF ReadsInv, TableInv
<1>2. TypeOK /\ ReadsInv /\ [Next]_vars => ReadsInv'
  BY ReadsStep
<1>. QED
  BY <1>1, <1>2, ReadsAgree, TypeCorrect, PTL DEF RunSpec
=============================================================================
