------------------------------- MODULE Catalog -------------------------------
(***************************************************************************)
(* The catalog functions: result sets the driver makes itself of several   *)
(* server queries.  SQLTables lists one query through filters; SQLColumns  *)
(* and SQLPrimaryKeys walk that list and, table by table, ask the server   *)
(* for `desc` and (SQLColumns) for an empty select that tells the          *)
(* precision of timestamps; SQLGetTypeInfo lists records of the driver.    *)
(* Between any two queries a table may be dropped and any query may fail.  *)
(*                                                                         *)
(* A name and a pattern are sequences of characters (module Wild), a list  *)
(* of table types one of words, commas and spaces; a query is answered     *)
(* from one snapshot.                                                      *)
(***************************************************************************)
EXTENDS ColumnMeta, Wild, FiniteSets

CONSTANTS
  Server,      \* the tables, in the order of the query: [db, name, kind, cols, p]
  CurrentDb,   \* of the connection
  NoAsk,       \* no call
  MaxDrops,    \* bound: tables dropped
  Asks         \* the calls an application makes: [fn, catalog, schema, table, types, column, data_type]

Kinds == {"STABLE", "NORMAL", "CHILD", "SYSTEM", "VIEW"}
Names == Seq(STRING)
Args  == [given : BOOLEAN, text : Seq(STRING)]
\* A table has columns, each with a name of its own.  SQLColumns opens tables with
\* "TABLE,VIEW", SQLPrimaryKeys with "TABLE".
ASSUME CatalogAssumption ==
  /\ Server \in Seq([db : Names, name : Names, kind : Kinds, p : 0..2,
                     cols : Seq([name : Names, type : STRING, bytes : Nat]) \ {<<>>}])
  /\ \A i \in DOMAIN Server : \A j, k \in DOMAIN Server[i].cols :
       Server[i].cols[j].name = Server[i].cols[k].name => j = k
  /\ Asks \subseteq [fn : {"tables", "columns", "primarykeys", "typesinfo"}, data_type : STRING,
                     catalog : Args, schema : Args, table : Args, types : Args, column : Args]
  /\ \A a \in Asks : /\ a.fn = "columns" => a.types.text = <<"TABLE", ",", "VIEW">>
                     /\ a.fn = "primarykeys" => a.types.text = <<"TABLE">>

VARIABLES
  cfg,        \* conn->cfg
  exists,     \* the tables (indices of Server) the server has
  base,       \* stmt->base: which source the statement reads, "none" of these
  ask,        \* the call being answered
  pc,         \* where the driver is
  opening,    \* it is there on behalf of the call that opens
  tables,     \* tables->stmt: cursor over rows
  desc,       \* columns->desc, primarykeys->desc: cursor over the columns of a table
  current,    \* the table desc is of (current_catalog .. current_table_type)
  query,      \* columns->query: "none", "failed", or the select of `current` stands
  ordinal,    \* ordinal_order
  pos,        \* typesinfo->pos
  ret,        \* what the last call returned
  got,        \* rows handed out since the call that opened
  pos0        \* typesinfo->pos when that call was made
catalog_vars == <<cfg, exists, base, ask, pc, opening, tables, desc, current, query, ordinal, pos, ret, got, pos0>>

(***************************************************************************)
(* Cursors of the server's results (external): rows in order, the end, or  *)
(* an error for ever.                                                      *)
(***************************************************************************)
Cursor(rows, fails) == [rows |-> rows, pos |-> 0, fails |-> fails]
Closed    == Cursor(<<>>, TRUE)
AtEnd(c)  == ~c.fails /\ c.pos = Len(c.rows)
HasRow(c) == ~c.fails /\ c.pos < Len(c.rows)
Advance(c) == [c EXCEPT !.pos = @ + 1]
Row(c)    == c.rows[c.pos]
Results(rows) == {Cursor(rows, fails) : fails \in BOOLEAN}

(***************************************************************************)
(* tables.c                                                                *)
(***************************************************************************)
Listed(i) == (cfg.conn_mode = 1 => Server[i].kind \notin {"CHILD", "SYSTEM"}) /\ i \in exists
TABLE_TYPE(i) == IF Server[i].kind = "VIEW" THEN "VIEW" ELSE "TABLE"
\* the members of s that pass
Sifted(s, Passes(_)) ==
  LET passing == {k \in DOMAIN s : Passes(s[k])}
  IN  FlattenSeq([k \in DOMAIN s |-> IF k \in passing THEN <<s[k]>> ELSE <<>>])
Everything == Sifted([i \in DOMAIN Server |-> i], Listed)

SystemDbs == {Server[i].db : i \in {k \in DOMAIN Server : Server[k].kind = "SYSTEM"}}
Dbs == {d \in {Server[i].db : i \in DOMAIN Server} : cfg.conn_mode = 1 => d \notin SystemDbs}
_tables_open_catalogs == SetToSeq(Dbs)
_tables_open_schemas  == <<>>
_tables_open_tabletypes == <<"CHILD TABLE", "SUPER TABLE", "SYSTEM TABLE", "TABLE", "VIEW">>

Blank(arg)    == arg.text = <<>>     \* NULL or empty
Percent(arg)  == arg.text # <<>> /\ Head(arg.text) = "%"
tables_type(a) ==
  CASE Percent(a.catalog) /\ Blank(a.schema) /\ Blank(a.table) /\ Blank(a.types)  -> "catalogs"
    [] Percent(a.schema) /\ Blank(a.catalog) /\ Blank(a.table) /\ Blank(a.types)  -> "schemas"
    [] Percent(a.types) /\ Blank(a.catalog) /\ Blank(a.schema) /\ Blank(a.table)  -> "tabletypes"
    [] OTHER                                                                      -> "generic"

tables_open(a) ==
  CASE tables_type(a) = "catalogs"   -> _tables_open_catalogs
    [] tables_type(a) = "schemas"    -> _tables_open_schemas
    [] tables_type(a) = "tabletypes" -> _tables_open_tabletypes
    [] OTHER                         -> Everything

\* a pattern that does not compile; the list of types is compiled, too
BadPattern(a) == \E arg \in {a.catalog, a.schema, a.table, a.types, a.column} : wildcomp_fails(arg.text)

\* between commas, without the spaces before a word (those behind it stay)
_tables_add_table_type(words, t) ==
  CASE t = ","                        -> Append(words, <<>>)
    [] t = " " /\ Last(words) = <<>> -> words
    [] OTHER                          -> [words EXCEPT ![Len(words)] = Append(@, t)]
_tables_parse_table_type(text) ==
  Range(FoldLeft(_tables_add_table_type, <<<<>>>>, text)) \ {<<>>}

_match(a, i)  == <<TABLE_TYPE(i)>> \in _tables_parse_table_type(a.types.text)
Matches(arg, name) == arg.given => wildexec(arg.text, name)

_fetch_row_with_tsdb(a, i) ==
  /\ IF a.catalog.given THEN wildexec(a.catalog.text, Server[i].db) ELSE Server[i].db = CurrentDb
  /\ Matches(a.schema, <<>>)
  /\ Matches(a.table, Server[i].name)
  /\ ~Blank(a.types) => _match(a, i)

(***************************************************************************)
(* columns.c: what is said of a column (the answers that vary).            *)
(***************************************************************************)
Answered(i, name, data_type, type_name, column_size, position) ==
  [table |-> i, name |-> name, data_type |-> data_type, type_name |-> type_name,
   column_size |-> column_size, position |-> position]
\* Mutant: a timestamp is a timestamp, whatever the connection says.
DATA_TYPE_AsIs(t) == _col_bind_map[t].sql

DATA_TYPE(t) == IF AsText(cfg, t) THEN "WVARCHAR" ELSE _col_bind_map[t].sql

\* a type or a width not known: every SQLGetData of the row is refused
Unsupported(col) ==
  col.type \notin Types \/ (col.type \notin VarTypes /\ col.bytes # _col_bind_map[col.type].octet)

columns_get_data(i, col) ==
  IF Unsupported(col) THEN Answered(i, col.name, "none", "none", 0, 0)
  ELSE Answered(i, col.name, DATA_TYPE(col.type),
                IF AsText(cfg, col.type) THEN "NCHAR" ELSE col.type,
                IF AsText(cfg, col.type) THEN TextOfTimestamp(IF query = "ok" THEN Server[i].p ELSE 0) ELSE col.bytes,
                ordinal')

primarykeys_get_data(i, col) == [table |-> i, name |-> col.name]

(***************************************************************************)
(* typesinfo.c                                                             *)
(***************************************************************************)
_records == <<"VARCHAR", "WVARCHAR", "INTEGER", "BINARY">>   \* their DATA_TYPE
OfType(t) == {r \in DOMAIN _records : t \in {"ALL", _records[r]}}

(***************************************************************************)
(* Calls.                                                                  *)
(***************************************************************************)
CatalogInit ==
  /\ cfg \in [conn_mode : 0..1, timestamp_as_is : BOOLEAN, unsigned_promotion : BOOLEAN]
  /\ exists = DOMAIN Server
  /\ base = "none" /\ ask = NoAsk /\ pc = "idle" /\ opening = FALSE
  /\ tables = Closed /\ desc = Closed /\ current = 0 /\ query = "none"
  /\ ordinal = 0 /\ pos = 0 /\ ret = "none" /\ got = <<>> /\ pos0 = 0

Return(r) == ret' = r /\ pc' = "idle" /\ opening' = FALSE
Goto(l)   == pc' = l /\ UNCHANGED <<ret, opening>>

\* a call that opens and fails leaves the statement without a catalog source (_stmt_reset_X)
OpenFails ==
  /\ Return("error") /\ ask' = NoAsk /\ base' = "none" /\ tables' = Closed /\ desc' = Closed
  /\ current' = 0 /\ query' = "none" /\ ordinal' = 0

Begin(a) ==
  /\ pc = "idle" /\ base = "none" /\ got' = <<>>
  /\ pos0' = IF a.fn = "typesinfo" THEN pos ELSE 0
  /\ UNCHANGED <<cfg, exists, pos>>

SQLTables(a) ==
  /\ a.fn = "tables" /\ Begin(a)
  /\ \/ /\ tables_type(a) = "generic" => ~BadPattern(a)
        /\ \E c \in Results(tables_open(a)) :
             tables' = c /\ ask' = a /\ base' = "tables" /\ Return("ok")
        /\ UNCHANGED <<desc, current, query, ordinal>>
     \/ OpenFails

SQLColumns(a) ==
  /\ a.fn \in {"columns", "primarykeys"} /\ Begin(a)
  /\ \/ /\ ~BadPattern(a) /\ \E c \in Results(tables_open(a)) : tables' = c
        /\ ask' = a /\ desc' = Closed /\ current' = 0 /\ query' = "none" /\ ordinal' = 0
        /\ pc' = "tables" /\ opening' = TRUE /\ UNCHANGED <<base, ret>>
     \/ OpenFails

SQLGetTypeInfo(a) ==
  /\ a.fn = "typesinfo" /\ Begin(a)
  /\ ask' = a /\ base' = "typesinfo" /\ Return("ok")
  /\ UNCHANGED <<tables, desc, current, query, ordinal>>

\* tables.c _fetch_row, called for SQLFetch
FetchTable ==
  /\ pc = "idle" /\ base = "tables"
  /\ LET passes(k) == tables_type(ask) # "generic" \/ _fetch_row_with_tsdb(ask, tables.rows[k])
         next == {k \in tables.pos + 1 .. Len(tables.rows) : passes(k)}
         k    == CHOOSE k \in next : \A l \in next : k <= l
     IN  \/ tables.fails /\ Return("error") /\ UNCHANGED <<tables, got>>
         \/ ~tables.fails /\ next = {} /\ Return("nodata")
            /\ tables' = [tables EXCEPT !.pos = Len(tables.rows)] /\ UNCHANGED got
         \/ ~tables.fails /\ next # {} /\ Return("ok")
            /\ tables' = [tables EXCEPT !.pos = k] /\ got' = Append(got, tables.rows[k])
  /\ UNCHANGED <<cfg, exists, base, ask, desc, current, query, ordinal, pos, pos0>>

FetchType ==
  /\ pc = "idle" /\ base = "typesinfo"
  /\ LET next == {r \in OfType(ask.data_type) : r > pos}
     IN  \/ /\ next = {} /\ Return("nodata")
            /\ pos' = Len(_records) /\ UNCHANGED got
         \/ \E r \in next : /\ \A s \in next : r <= s
                            /\ pos' = r /\ got' = Append(got, r) /\ Return("ok")
  /\ UNCHANGED <<cfg, exists, base, ask, tables, desc, current, query, ordinal, pos0>>

Fetch ==
  /\ pc = "idle" /\ base \in {"columns", "primarykeys"}
  /\ IF base = "primarykeys" /\ ordinal = 1 THEN Return("nodata") ELSE Goto("desc_row")
  /\ UNCHANGED <<cfg, exists, base, ask, tables, desc, current, query, ordinal, pos, got, pos0>>

(***************************************************************************)
(* columns.c, primarykeys.c: _fetch_row_with_tsdb and                      *)
(* _fetch_and_desc_next_table, from one server query to the next.          *)
(***************************************************************************)
Fails(r) == IF opening THEN OpenFails ELSE Return(r) /\ UNCHANGED <<ask, base, tables, desc, current, query, ordinal>>
TableOpened   == IF opening THEN base' = ask.fn /\ Return("ok") ELSE Goto("desc_row") /\ UNCHANGED base

\* Mutant: a table that does not match is looked at again.
NextTable_Stays ==
  /\ pc = "tables"
  /\ \/ ~HasRow(tables) /\ Fails(IF tables.fails THEN "error" ELSE "nodata")
     \/ /\ HasRow(tables)
        /\ LET i == tables.rows[tables.pos + 1]
           IN  IF _fetch_row_with_tsdb(ask, i) THEN tables' = Advance(tables) /\ Goto("desc") /\ current' = i
               ELSE Goto("tables") /\ UNCHANGED <<tables, current>>
        /\ UNCHANGED <<ask, base, desc, query, ordinal>>
  /\ UNCHANGED <<cfg, exists, pos, got, pos0>>

\* an open that finds no table is told SQL_NO_DATA and answers SQL_ERROR (stmt.c:8849)
NextTable ==
  /\ pc = "tables"
  /\ \/ ~HasRow(tables) /\ Fails(IF tables.fails THEN "error" ELSE "nodata")
     \/ /\ HasRow(tables)
        /\ tables' = Advance(tables)
        /\ LET i == tables.rows[tables.pos + 1]
           IN  IF _fetch_row_with_tsdb(ask, i) THEN Goto("desc") /\ current' = i
               ELSE Goto("tables") /\ UNCHANGED current
        /\ UNCHANGED <<ask, base, desc, query, ordinal>>
  /\ UNCHANGED <<cfg, exists, pos, got, pos0>>

\* Mutant: the columns of a table that cannot be described are none.
DescTable_Skips ==
  /\ pc = "desc" /\ query' = "none"
  /\ desc' = IF current \in exists THEN Cursor(Server[current].cols, FALSE) ELSE Cursor(<<>>, FALSE)
  /\ IF ask.fn = "columns" THEN Goto("select") /\ UNCHANGED base ELSE TableOpened
  /\ UNCHANGED <<cfg, exists, ask, tables, current, ordinal, pos, got, pos0>>

\* desc `db`.`table`.  One that fails keeps its failed result, or none if it fails before
\* the query is made (tsdb.c:640-645): what the library answers for that, an error, is not
\* under src/.
DescTable ==
  /\ pc = "desc"
  /\ \/ /\ IF opening THEN OpenFails
           ELSE /\ Return("error") /\ desc' = Closed /\ query' = "none"
                /\ UNCHANGED <<ask, base, tables, current, ordinal>>
     \/ /\ current \in exists
        /\ \E c \in Results(Server[current].cols) : desc' = c
        /\ query' = "none"
        /\ IF ask.fn = "columns" THEN Goto("select") /\ UNCHANGED base ELSE TableOpened
        /\ UNCHANGED <<ask, tables, current, ordinal>>
  /\ UNCHANGED <<cfg, exists, pos, got, pos0>>

\* select * from `db`.`table` where 1=2: for the precision only
SelectTable ==
  /\ pc = "select"
  /\ \/ /\ IF opening THEN OpenFails
           ELSE Return("error") /\ query' = "failed" /\ UNCHANGED <<ask, base, tables, desc, current, ordinal>>
     \/ current \in exists /\ query' = "ok" /\ TableOpened /\ UNCHANGED <<ask, tables, desc, current, ordinal>>
  /\ UNCHANGED <<cfg, exists, pos, got, pos0>>

\* the next column of the table, the next table, or the end
DescRow ==
  /\ pc = "desc_row"
  /\ \/ desc.fails /\ Return("error") /\ UNCHANGED <<desc, ordinal, got>>
     \/ AtEnd(desc) /\ Goto("tables") /\ UNCHANGED <<desc, ordinal, got>>
     \/ /\ HasRow(desc) /\ desc' = Advance(desc)
        /\ LET col == Row(desc')
           IN  CASE base = "columns" /\ ~Matches(ask.column, col.name) ->
                      Goto("desc_row") /\ UNCHANGED <<ordinal, got>>
                 [] base = "columns" /\ Matches(ask.column, col.name) ->
                      /\ ordinal' = ordinal + 1 /\ Return("ok")
                      /\ got' = Append(got, columns_get_data(current, col))
                 [] OTHER ->
                      /\ ordinal' = ordinal + 1
                      /\ IF col.type = "TIMESTAMP"
                         THEN Return("ok") /\ got' = Append(got, primarykeys_get_data(current, col))
                         ELSE Return("nodata") /\ UNCHANGED got
  /\ UNCHANGED <<cfg, exists, base, ask, tables, current, query, pos, pos0>>

\* _stmt_close_result: typesinfo_reset resets nothing
SQLCloseCursor ==
  /\ pc = "idle" /\ base # "none" /\ base' = "none" /\ got' = <<>> /\ Return("none")
  /\ tables' = Closed /\ desc' = Closed /\ query' = "none" /\ ordinal' = 0 /\ current' = 0
  /\ ask' = NoAsk /\ pos0' = 0
  /\ UNCHANGED <<cfg, exists, pos>>

Drop(i) ==
  /\ i \in exists /\ Cardinality(exists) > Len(Server) - MaxDrops /\ exists' = exists \ {i}
  /\ UNCHANGED <<cfg, base, ask, pc, opening, tables, desc, current, query, ordinal, pos, ret, got, pos0>>

Driver == NextTable \/ DescTable \/ SelectTable \/ DescRow
CatalogNext ==
  \/ \E a \in Asks : SQLTables(a) \/ SQLColumns(a) \/ SQLGetTypeInfo(a)
  \/ FetchTable \/ FetchType \/ Fetch \/ Driver \/ SQLCloseCursor
  \/ \E i \in DOMAIN Server : Drop(i)
CatalogSpec == CatalogInit /\ [][CatalogNext]_catalog_vars /\ WF_catalog_vars(Driver)

(***************************************************************************)
(* Properties.                                                             *)
(***************************************************************************)
\* What the open call promises of the tables there were when it asked.
Named(arg, name) == arg.given => Like(arg.text, name)
Wanted(a, i) ==
  /\ IF a.catalog.given THEN Like(a.catalog.text, Server[i].db) ELSE Server[i].db = CurrentDb
  /\ Named(a.schema, <<>>) /\ Named(a.table, Server[i].name)
  /\ ~Blank(a.types) => \E k \in DOMAIN a.types.text : a.types.text[k] = TABLE_TYPE(i)
TablesWanted == Sifted(tables.rows, LAMBDA i : Wanted(ask, i))
NamesOf(i) ==
  LET names == [k \in DOMAIN Server[i].cols |-> <<i, Server[i].cols[k].name>>]
  IN  Sifted(names, LAMBDA n : Named(ask.column, n[2]))
Expected ==
  CASE base = "tables"      -> IF tables_type(ask) = "generic" THEN TablesWanted ELSE tables.rows
    [] base = "columns"     ->
         LET wanted == {k \in DOMAIN tables.rows : Wanted(ask, tables.rows[k])}
         IN  FlattenSeq([k \in DOMAIN tables.rows |-> IF k \in wanted THEN NamesOf(tables.rows[k]) ELSE <<>>])
    [] base = "primarykeys" ->
         LET i == Head(TablesWanted)
         IN  IF Server[i].cols[1].type = "TIMESTAMP" THEN <<<<i, Server[i].cols[1].name>>>> ELSE <<>>
    [] OTHER -> LET after(r) == r > pos0 /\ r \in OfType(ask.data_type)
                IN  Sifted([r \in DOMAIN _records |-> r], after)

Listing == IF base \in {"columns", "primarykeys"} THEN [k \in DOMAIN got |-> <<got[k].table, got[k].name>>] ELSE got

\* The names the patterns of a call are run through.
ServerNames ==
  [catalog |-> {Server[i].db : i \in DOMAIN Server}, schema |-> {<<>>},
   table |-> {Server[i].name : i \in DOMAIN Server},
   column |-> UNION {{Server[i].cols[k].name : k \in DOMAIN Server[i].cols} : i \in DOMAIN Server}]
\* A pattern that ends in plain characters is one for every name that goes on behind
\* them: it is exact if there is no such name.
Exact(arg, names) ==
  arg.given => /\ arg.text # <<>> => Last(arg.text) # "\\"
               /\ EndsWild(arg.text) \/ \A n \in names : Like(Append(arg.text, "%"), n) => Like(arg.text, n)
\* Of a list of types, each is followed by a comma (the spaces behind a word are part of it).
Divider(t) == t \in {",", " "}
Listlike(text) == \A k \in DOMAIN text : ~Divider(text[k]) => k = Len(text) \/ text[k + 1] = ","
ExactAsk(a) ==
  /\ Exact(a.catalog, ServerNames.catalog) /\ Exact(a.schema, ServerNames.schema) /\ Exact(a.table, ServerNames.table)
  /\ a.fn = "columns" => Exact(a.column, ServerNames.column)
  /\ Listlike(a.types.text)
\* The calls whose patterns the driver runs as ODBC means them.
ExactAsks == \A a \in Asks : (tables_type(a) = "generic" /\ ~BadPattern(a)) => ExactAsk(a)

\* Through filters, tables and queries that fail in between, the rows handed out are
\* those asked for, each once and in order.
ListedInOrder == base # "none" => IsPrefix(Listing, Expected)

\* SQL_NO_DATA is never said of a list that is not whole: a table that was dropped
\* meanwhile is an error, not an end.
EndIsComplete == (base # "none" /\ pc = "idle" /\ ret = "nodata") => Listing = Expected

\* With UNSIGNED_PROMOTION the descriptor names another type (stmt.c:1103-1107), and
\* SQLColumns never looks at the flag (columns.c:547-592).
PromotedApart(t) == cfg.unsigned_promotion /\ _col_bind_map[t].promoted # _col_bind_map[t].sql

\* SQLColumns says of a column what the descriptor of a select will say (stmt.c:811),
\* whatever the flags, if the select that tells the precision did not fail.  Exempt is the
\* DATA_TYPE of a type that UNSIGNED_PROMOTION promotes, where the two disagree; COLUMN_SIZE
\* of the other types than text is not compared (SQLColumns says bytes, SQLDescribeCol digits).
ColumnsAgreeWithSelect ==
  (base = "columns" /\ pc = "idle" /\ ret = "ok" /\ query = "ok" /\ got # <<>> /\ Last(got).data_type # "none") =>
    LET r == Last(got)
        t == Server[r.table]
        col == CHOOSE c \in Range(t.cols) : c.name = r.name
        ird == IRDRecord(cfg, t.p, [type |-> col.type, bytes |-> col.bytes])
    IN  /\ PromotedApart(col.type) \/ r.data_type = ird.concise
        /\ r.type_name = ird.type_name
        /\ (r.data_type \in {"VARCHAR", "WVARCHAR", "VARBINARY"}) => r.column_size = ird.length

\* However many tables and columns are passed over, and whatever fails, a call returns.
EveryCallReturns == (pc # "idle") ~> (pc = "idle")
=============================================================================
