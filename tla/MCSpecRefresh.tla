--------------------------- MODULE MCSpecRefresh ---------------------------
(***************************************************************************)
(* SpecRefresh on a small table, for TLC: a key, a plain column and a      *)
(* computed one.  A rowversion may be added, which a change table holds as *)
(* a binary, and a column named like one of the log's own.                 *)
(***************************************************************************)
EXTENDS SpecRefresh

Plain(n, t) == [name |-> n, type |-> t, computed |-> FALSE]

MCChangeType == [t \in Type |-> IF t = "rowversion" THEN "binary" ELSE t]

MCArrow == [t \in Type |->
              CASE t = "int" -> "int32"
                [] t = "bigint" -> "int64"
                [] t \in {"rowversion", "binary"} -> "large_binary"
                [] t = "sql_variant" -> NoArrow]

MCColumns == <<Plain("id", "int"), Plain("a", "int"),
               [name |-> "c", type |-> "int", computed |-> TRUE]>>

MCKey == <<"id">>

RowVersion == {Plain("row", "rowversion")}

OddlyNamed == {Plain("start_lsn", "int")}

TheSameAgain == {Plain("a", "int")}

\* To a type that reads back as another one, and to one that has none.
Widening == {<<"int", "bigint">>}

MCAlterations == Widening \cup {<<"int", "sql_variant">>}
=============================================================================
