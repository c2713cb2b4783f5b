------------------------------ MODULE MCCatalog ------------------------------
(* Two databases and a system one, a table of each kind; patterns that match *)
(* all, some and nothing; every way SQLTables is dispatched; every pattern   *)
(* of three characters that ends in a wildcard.                              *)
EXTENDS Catalog

Col(name, type, bytes) == [name |-> name, type |-> type, bytes |-> bytes]
Table(db, name, kind, p, cols) == [db |-> db, name |-> name, kind |-> kind, p |-> p, cols |-> cols]
ts == <<"t", "s">>   v == <<"v">>   g == <<"g">>   d1 == <<"d", "1">>
MCServer == <<
  Table(d1, <<"m", "_">>, "STABLE", 1, <<Col(ts, "TIMESTAMP", 8), Col(v, "UINT", 4), Col(g, "NCHAR", 20)>>),
  Table(d1, <<"m", "s", "m">>, "CHILD",  1, <<Col(ts, "TIMESTAMP", 8), Col(v, "BOOL", 1)>>),
  Table(<<"d", "2">>, <<"m", "_">>, "NORMAL", 2, <<Col(ts, "TIMESTAMP", 8), Col(v, "GEOMETRY", 9)>>),
  Table(<<"i">>, <<"u">>, "SYSTEM", 0, <<Col(v, "VARCHAR", 24), Col(g, "DECIMAL", 8)>>),
  Table(d1, <<"s">>, "VIEW", 1, <<Col(v, "DOUBLE", 8)>>)>>
MCCurrentDb == d1

Null  == [given |-> FALSE, text |-> <<>>]
Arg(text) == [given |-> TRUE, text |-> text]
Empty == Arg(<<>>)
Anything == Arg(<<"%">>)
Ms    == Arg(<<"m", "\\", "_">>)       \* exactly m_
None  == Arg(<<"n">>)

Ask(fn, catalog, schema, table, types, column, t) ==
  [fn |-> fn, catalog |-> catalog, schema |-> schema, table |-> table, types |-> types, column |-> column, data_type |-> t]
TablesAsks ==
  {Ask("tables", c, s, t, ty, Null, "ALL") :
     c \in {Null, Anything}, s \in {Null, Anything}, t \in {Empty, Ms},
     ty \in {Null, Arg(<<" ", "VIEW">>), Arg(<<"SYSTEM TABLE", ",", " ", "TABLE">>)}}
  \cup {Ask("tables", Empty, s, Null, ty, Null, "ALL") : s \in {Null, Anything}, ty \in {Null, Arg(<<"%">>)}}
\* SQLPrimaryKeys is told of no column
ColumnsAsks ==
  {Ask("columns", c, Null, t, Arg(<<"TABLE", ",", "VIEW">>), Null, "ALL") : c \in {Null, Anything}, t \in {Anything, Ms}}
  \cup {Ask("columns", Null, Null, t, Arg(<<"TABLE", ",", "VIEW">>), Arg(v), "ALL") : t \in {Anything, None}}
  \cup {Ask("primarykeys", c, Null, Anything, Arg(<<"TABLE">>), Null, "ALL") : c \in {Null, Anything}}
  \cup {Ask("primarykeys", Null, Null, t, Arg(<<"TABLE">>), Null, "ALL") : t \in {Ms, None}}
\* exact names that no other name continues, and whatever ends in a wildcard
Wildcards == {p \in UNION {[1..n -> {"m", "%", "_", "\\"}] : n \in 1..3} :
                p[Len(p)] \in {"%", "_"} /\ (Len(p) = 1 \/ p[Len(p) - 1] # "\\")}
PatternAsks == {Ask("tables", Anything, Null, Arg(p), Null, Null, "ALL") : p \in Wildcards}
               \cup {Ask("tables", Anything, Null, Null, Arg(<<"\\", "VIEW">>), Null, "ALL")}
TypeAsks == {Ask("typesinfo", Null, Null, Null, Null, Null, t) : t \in {"ALL", "INTEGER", "DATE"}}
MCNoAsk == Ask("none", Null, Null, Null, Null, Null, "ALL")
MCAsks == TablesAsks \cup ColumnsAsks \cup PatternAsks \cup TypeAsks

\* the calls are ones the driver answers as ODBC means them (utils.c wildexec)
ASSUME MCExactAsks == ExactAsks
=============================================================================
