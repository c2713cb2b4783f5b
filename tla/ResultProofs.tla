----------------------------- MODULE ResultProofs -----------------------------
(***************************************************************************)
(* Proofs about how a result reaches the application: by Fetch, for        *)
(* results, blocks and rowsets of any size and any outcome of the          *)
(* conversions; and by Describe, for any values the types can hold and any *)
(* results of any columns.                                                 *)
(*                                                                         *)
(* Fetch.  Between two calls the properties speak of the finished rowset;  *)
(* within a call nothing of them remains.  The inductive invariant IInv    *)
(* therefore adds what holds while a rowset is being filled: the cursor is *)
(* i_row rows after the place the call began at, and the first i_row       *)
(* places have the rows from there on.                                     *)
(*                                                                         *)
(* Describe.  The properties compare an answer with the description it was *)
(* asked by; the invariant DescribeInv adds that the descriptor is the one *)
(* made of the present result and the row one of it, so that the answer is *)
(* a conversion of a value that its type can hold.  The rest is arithmetic *)
(* on the driver's table: the C type of each column type has room for all  *)
(* of its values, and the sizes told are those of the texts.               *)
(***************************************************************************)
EXTENDS Fetch, Describe, SequenceTheorems, TLAPS

(***************************************************************************)
(* Fetch.                                                                  *)
(***************************************************************************)
\* Where the cursor stands, by the place of the call.
CursorInv ==
  /\ nr <= fetched
  /\ pc = "idle" => Current = taken /\ processed <= taken
  /\ pc = "row" => Current = taken + i_row
  /\ pc = "fill" => Current = taken + i_row + 1 /\ pos >= 1
  /\ pc # "idle" => i_row < row_array_size

\* The end is reached between calls, and a call after it fills no row.
EofInv ==
  /\ eof => fetched = Rows /\ nr = 0
  /\ eof => pc # "fill"
  /\ eof /\ pc = "row" => i_row = 0
  /\ ret = "no_data" => eof

\* The rowset so far.
FillInv ==
  pc # "idle" => \A i \in 1..i_row : buffer[i] = taken + i /\ status[i] = Outcome[taken + i]

IInv == TypeOK /\ CursorInv /\ EofInv /\ FillInv /\ RowsetIsNextRows /\ StatusTells

\* The first call finds no block, no row and no status.
LEMMA InitIInv == Init => IInv
  <1> SUFFICES ASSUME Init PROVE IInv
    OBVIOUS
  <1>1. eof \in BOOLEAN
    BY DEF Init
  <1> QED
    BY <1>1, ConstAssumption
       DEF Init, IInv, TypeOK, CursorInv, EofInv, FillInv, RowsetIsNextRows, StatusTells,
           Current, Places

\* eof is a Boolean after every step (on its own: a leaf for Zenon).
LEMMA StepEof == eof \in BOOLEAN /\ [Next]_vars => eof' \in BOOLEAN
  <1> SUFFICES ASSUME eof \in BOOLEAN, [Next]_vars PROVE eof' \in BOOLEAN
    OBVIOUS
  <1>1. eof' = eof \/ eof' = FALSE \/ eof' = TRUE
    BY DEF Next, Driver, _stmt_set_row_array_size, Reopen, SQLFetch, NextInBlock, FetchBlock,
           FetchEnd, FetchFail, _stmt_fill_row, vars, blockVars
  <1> QED BY <1>1

\* One step per action.
LEMMA StepIInv == IInv /\ [Next]_vars => IInv'
  <1> SUFFICES ASSUME IInv, [Next]_vars PROVE IInv'
    OBVIOUS
  <1>0. eof \in BOOLEAN /\ eof' \in BOOLEAN
    BY StepEof DEF IInv, TypeOK
  <1> USE ConstAssumption
      DEF IInv, TypeOK, CursorInv, EofInv, FillInv, RowsetIsNextRows, StatusTells,
          Current, Places, blockVars, outVars
  <1>1. ASSUME NEW n \in Places, _stmt_set_row_array_size(n) PROVE IInv'
    BY <1>0, <1>1 DEF _stmt_set_row_array_size
  <1>2. CASE Reopen
    BY <1>0, <1>2 DEF Reopen
  <1>3. CASE SQLFetch
    BY <1>0, <1>3 DEF SQLFetch
  <1>4. CASE NextInBlock
    BY <1>0, <1>4 DEF NextInBlock
  <1>5. CASE FetchBlock
    BY <1>0, <1>5 DEF FetchBlock, AskServer
  <1>6. CASE FetchEnd
    <2>1. TypeOK'
      BY <1>0, <1>6 DEF FetchEnd, AskServer, Return
    <2>2. CursorInv' /\ EofInv' /\ FillInv'
      BY <1>0, <1>6 DEF FetchEnd, AskServer, Return
    <2>3. RowsetIsNextRows' /\ StatusTells'
      BY <1>0, <1>6 DEF FetchEnd, AskServer, Return
    <2> QED BY <2>1, <2>2, <2>3
  <1>7. CASE FetchFail
    <2>1. TypeOK'
      BY <1>0, <1>7 DEF FetchFail, AskServer, Return
    <2>2. CursorInv' /\ EofInv' /\ FillInv'
      BY <1>0, <1>7 DEF FetchFail, AskServer, Return
    <2>3. RowsetIsNextRows' /\ StatusTells'
      BY <1>0, <1>7 DEF FetchFail, AskServer, Return
    <2> QED BY <2>1, <2>2, <2>3
  <1>8. CASE _stmt_fill_row
    <2>1. /\ pc = "fill" /\ i_row \in Nat /\ i_row + 1 \in Places
          /\ Current = taken + i_row + 1
          /\ Current \in 1..Rows /\ Outcome[Current] \in {"success", "with_info", "error"}
      BY <1>8 DEF _stmt_fill_row
    <2>2. /\ buffer' = [buffer EXCEPT ![i_row + 1] = Current]
          /\ i_row' = i_row + 1
          /\ UNCHANGED <<row_array_size, fetched, nr, pos, eof>>
      BY <1>8 DEF _stmt_fill_row, Return
    <2>3. buffer' \in [Places -> 0..Rows]
      BY <2>1, <2>2
    <2>4. ASSUME NEW i \in 1..(i_row + 1) PROVE buffer'[i] = taken + i
      <3>1. CASE i = i_row + 1
        BY <2>1, <2>2, <3>1
      <3>2. CASE i \in 1..i_row
        BY <2>1, <2>2, <3>2
      <3> QED BY <2>1, <3>1, <3>2
    <2>5. ASSUME NEW i \in 1..(i_row + 1)
          PROVE [status EXCEPT ![i_row + 1] = Outcome[Current]][i] = Outcome[taken + i]
      <3>1. CASE i = i_row + 1
        BY <2>1, <3>1
      <3>2. CASE i \in 1..i_row
        BY <2>1, <3>2
      <3> QED BY <2>1, <3>1, <3>2
    <2>6. CASE i_row + 1 < row_array_size
      <3>1. /\ pc' = "row"
            /\ status' = [status EXCEPT ![i_row + 1] = Outcome[Current]]
            /\ UNCHANGED <<processed, ret, taken>>
        BY <1>8, <2>6 DEF _stmt_fill_row
      <3>2. status' \in [Places -> {"success", "with_info", "error", "norow"}]
        BY <2>1, <3>1
      <3>3. TypeOK'
        BY <1>0, <2>2, <2>3, <2>6, <3>1, <3>2
      <3>4. CursorInv' /\ EofInv'
        BY <1>0, <2>1, <2>2, <2>6, <3>1
      <3>5. FillInv' /\ RowsetIsNextRows' /\ StatusTells'
        BY <2>2, <2>4, <2>5, <3>1
      <3> QED BY <3>3, <3>4, <3>5
    <2>7. CASE ~(i_row + 1 < row_array_size)
      <3>1. /\ pc' = "idle" /\ ret' = "success"
            /\ processed' = i_row + 1 /\ taken' = Current
            /\ status' = [i \in Places |->
                 IF i_row + 1 < i /\ i <= row_array_size THEN "norow"
                 ELSE [status EXCEPT ![i_row + 1] = Outcome[Current]][i]]
        BY <1>8, <2>7 DEF _stmt_fill_row, Return
      <3>2. [status EXCEPT ![i_row + 1] = Outcome[Current]]
              \in [Places -> {"success", "with_info", "error", "norow"}]
        BY <2>1
      <3>3. status' \in [Places -> {"success", "with_info", "error", "norow"}]
        BY <3>1, <3>2
      <3>4. ASSUME NEW i \in 1..(i_row + 1) PROVE status'[i] = Outcome[taken + i]
        <4>1. i \in Places /\ ~(i_row + 1 < i)
          BY <2>1
        <4> QED BY <2>5, <3>1, <4>1
      <3>5. TypeOK'
        BY <1>0, <2>1, <2>2, <2>3, <3>1, <3>3
      <3>6. CursorInv' /\ EofInv' /\ FillInv'
        BY <1>0, <2>1, <2>2, <3>1
      <3>7. RowsetIsNextRows'
        <4>1. taken' - processed' = taken
          BY <2>1, <3>1
        <4> QED BY <2>4, <3>1, <4>1
      <3>8. StatusTells'
        BY <2>4, <3>1, <3>4
      <3> QED BY <3>5, <3>6, <3>7, <3>8
    <2> QED BY <2>6, <2>7
  <1>9. CASE UNCHANGED vars
    BY <1>0, <1>9 DEF vars
  <1> QED
    BY <1>1, <1>2, <1>3, <1>4, <1>5, <1>6, <1>7, <1>8, <1>9 DEF Next, Driver

\* The inductive invariant holds in every reachable state.
THEOREM Invariance == Spec => []IInv
  BY InitIInv, StepIInv, PTL DEF Spec

\* The variables of the fetch loop keep their types; in particular no row is put
\* beyond the last place of the application's arrays.
THEOREM TypeCorrect == Spec => []TypeOK
  <1>1. IInv => TypeOK
    BY DEF IInv
  <1> QED BY <1>1, Invariance, PTL

\* A rowset is the next rows of the result, however blocks and rowsets overlap.
THEOREM RowsetSound == Spec => []RowsetIsNextRows
  <1>1. IInv => RowsetIsNextRows
    BY DEF IInv
  <1> QED BY <1>1, Invariance, PTL

\* The status of each row of a rowset is the outcome of its conversion.
THEOREM StatusSound == Spec => []StatusTells
  <1>1. IInv => StatusTells
    BY DEF IInv
  <1> QED BY <1>1, Invariance, PTL

\* After SQL_NO_DATA the server is asked no more.
THEOREM EndFinal == Spec => EndIsFinal
  <1>1. IInv /\ [Next]_vars =>
          [ret = "no_data" => \/ ret' = "no_data" /\ fetched' = fetched
                              \/ taken' = 0 /\ ret' = "none"]_vars
    BY DEF IInv, TypeOK, EofInv, Next, Driver, _stmt_set_row_array_size, Reopen, SQLFetch,
           NextInBlock, FetchBlock, AskServer, FetchEnd, FetchFail, _stmt_fill_row, Return,
           vars, blockVars, outVars
  <1> QED BY <1>1, Invariance, PTL DEF Spec, EndIsFinal

\* Every call leaves each place with the outcome of its row, or marked as empty.
THEOREM StatusArraySound == Spec => StatusArrayTells
  <1>1. IInv /\ [Next]_vars =>
          [pc # "idle" /\ pc' = "idle" =>
             \A i \in 1..row_array_size :
               status'[i] = IF i <= processed' THEN Outcome[buffer'[i]] ELSE "norow"]_vars
    <2> SUFFICES ASSUME IInv, Next, pc # "idle", pc' = "idle", NEW i \in 1..row_array_size
                 PROVE status'[i] = IF i <= processed' THEN Outcome[buffer'[i]] ELSE "norow"
      BY DEF vars
    <2>1. FetchEnd \/ FetchFail \/ _stmt_fill_row
      BY DEF Next, Driver, _stmt_set_row_array_size, Reopen, SQLFetch, NextInBlock, FetchBlock
    <2>2. \E r, n, st : Return(r, n, st)
      BY <2>1 DEF FetchEnd, FetchFail, _stmt_fill_row
    <2>3. IInv' /\ i \in Places /\ processed' \in Nat
      <3>1. IInv'
        BY StepIInv
      <3>2. processed' \in Nat
        BY <3>1 DEF IInv, TypeOK
      <3>3. i \in Places
        BY ConstAssumption DEF IInv, TypeOK, Places
      <3> QED BY <3>1, <3>2, <3>3
    <2>4. CASE i > processed'
      <3>1. status'[i] = "norow"
        BY <2>2, <2>3, <2>4 DEF Return
      <3> QED BY <2>3, <2>4, <3>1
    <2>5. CASE ~(i > processed')
      <3>1. i \in 1..processed'
        BY <2>3, <2>5
      <3>2. status'[i] = Outcome[buffer'[i]]
        BY <2>3, <3>1 DEF IInv, StatusTells
      <3> QED BY <3>1, <3>2
    <2> QED BY <2>4, <2>5
  <1> QED BY <1>1, Invariance, PTL DEF Spec, StatusArrayTells

\* The fetch loop implements the cursor over the whole result: a call is one
\* step of the cursor at its return, everything else leaves it alone.
THEOREM Refinement == Spec => ImplementsCursor
  <1>1. Init => Cursor!Init
    BY DEF Init, Cursor!Init
  <1>2. IInv /\ [Next]_vars => [Cursor!Next]_Cursor!vars
    <2> SUFFICES ASSUME IInv, [Next]_vars PROVE [Cursor!Next]_Cursor!vars
      OBVIOUS
    <2> USE ConstAssumption
        DEF IInv, TypeOK, CursorInv, EofInv, Current, Places, blockVars, outVars, Cursor!vars
    <2>1. ASSUME NEW n \in Places, _stmt_set_row_array_size(n) PROVE Cursor!SetSize(n)
      BY <2>1 DEF _stmt_set_row_array_size, Cursor!SetSize
    <2>2. CASE Reopen
      BY <2>2 DEF Reopen, Cursor!Next, Cursor!Reopen
    <2>3. CASE SQLFetch \/ NextInBlock \/ FetchBlock
      BY <2>3 DEF SQLFetch, NextInBlock, FetchBlock
    <2>4. CASE FetchEnd
      <3>1. i_row \in 0..(row_array_size - 1) /\ taken + i_row = Rows /\ Current = taken + i_row
        BY <2>4 DEF FetchEnd, AskServer
      <3> QED
        BY <2>4, <3>1 DEF FetchEnd, Return, Cursor!Next, Cursor!FetchRest, Cursor!Take
    <2>5. CASE FetchFail
      <3>1. i_row \in 0..(row_array_size - 1) /\ Current = taken + i_row /\ Current <= Rows
        BY <2>5 DEF FetchFail, AskServer
      <3> QED
        BY <2>5, <3>1 DEF FetchFail, Return, Cursor!Next, Cursor!FetchError, Cursor!Take
    <2>6. CASE _stmt_fill_row
      <3>1. Current = taken + i_row + 1 /\ Current <= Rows /\ i_row < row_array_size
        BY <2>6 DEF _stmt_fill_row
      <3>2. CASE i_row + 1 < row_array_size
        BY <2>6, <3>2 DEF _stmt_fill_row
      <3>3. CASE ~(i_row + 1 < row_array_size)
        BY <2>6, <3>1, <3>3
           DEF _stmt_fill_row, Return, Cursor!Next, Cursor!FetchFull, Cursor!Take
      <3> QED BY <3>2, <3>3
    <2>7. CASE UNCHANGED vars
      BY <2>7 DEF vars
    <2> QED
      BY <2>1, <2>2, <2>3, <2>4, <2>5, <2>6, <2>7 DEF Next, Driver, Cursor!Next
  <1> QED
    BY <1>1, <1>2, Invariance, PTL DEF Spec, ImplementsCursor, Cursor!Spec

(***************************************************************************)
(* Describe.                                                               *)
(*                                                                         *)
(* What the table says: the types it knows, and the entries of each that   *)
(* the description of a column goes by.                                    *)
(***************************************************************************)
\* The types of the table, and those whose size is that of the field.
LEMMA TypesAre ==
  /\ Types = {"TIMESTAMP", "BOOL", "TINYINT", "SMALLINT", "INT", "BIGINT", "FLOAT", "DOUBLE", "VARCHAR", "NCHAR",
              "JSON", "UTINYINT", "USMALLINT", "UINT", "UBIGINT", "VARBINARY", "GEOMETRY"}
  /\ VarTypes = {"VARCHAR", "NCHAR", "JSON", "VARBINARY", "GEOMETRY"}
  <1>1. Types = {"TIMESTAMP", "BOOL", "TINYINT", "SMALLINT", "INT", "BIGINT", "FLOAT", "DOUBLE", "VARCHAR", "NCHAR",
                 "JSON", "UTINYINT", "USMALLINT", "UINT", "UBIGINT", "VARBINARY", "GEOMETRY"}
    BY DEF Types, _col_bind_map, _col_bind_map_numbers, _col_bind_map_rest, Both
  <1> QED BY <1>1 DEF VarTypes, _col_bind_map, _col_bind_map_numbers, _col_bind_map_rest, Both, Entry

\* The entries of the table that the description of a column goes by.
Row(t, sql, promoted, unsigned, length, display) ==
  LET e == _col_bind_map[t]
  IN  /\ e.sql = sql /\ e.promoted = promoted /\ e.unsigned = unsigned
      /\ e.length = length /\ e.display = display

\* The entries of the numbers and the timestamp: SQL type, promoted one, sign, length, display size.
LEMMA NumberRows ==
  /\ Row("BOOL", "BIT", "BIT", TRUE, 1, 1)
  /\ Row("TINYINT", "TINYINT", "SMALLINT", FALSE, 3, 4)
  /\ Row("SMALLINT", "SMALLINT", "SMALLINT", FALSE, 5, 6)
  /\ Row("INT", "INTEGER", "INTEGER", FALSE, 10, 11)
  /\ Row("BIGINT", "BIGINT", "BIGINT", FALSE, 19, 20)
  /\ Row("FLOAT", "REAL", "REAL", FALSE, 7, 14)
  /\ Row("DOUBLE", "DOUBLE", "DOUBLE", FALSE, 15, 24)
  /\ Row("TIMESTAMP", "TYPE_TIMESTAMP", "TYPE_TIMESTAMP", TRUE, 0, 8)
  <1>1. \A t \in DOMAIN _col_bind_map_numbers : _col_bind_map[t] = _col_bind_map_numbers[t]
    BY DEF _col_bind_map, _col_bind_map_numbers, _col_bind_map_rest, Both
  <1>2. /\ Row("BOOL", "BIT", "BIT", TRUE, 1, 1)
        /\ Row("TINYINT", "TINYINT", "SMALLINT", FALSE, 3, 4)
        /\ Row("SMALLINT", "SMALLINT", "SMALLINT", FALSE, 5, 6)
        /\ Row("INT", "INTEGER", "INTEGER", FALSE, 10, 11)
        /\ Row("BIGINT", "BIGINT", "BIGINT", FALSE, 19, 20)
    BY <1>1 DEF Row, _col_bind_map_numbers, Entry
  <1>3. /\ Row("FLOAT", "REAL", "REAL", FALSE, 7, 14)
        /\ Row("DOUBLE", "DOUBLE", "DOUBLE", FALSE, 15, 24)
        /\ Row("TIMESTAMP", "TYPE_TIMESTAMP", "TYPE_TIMESTAMP", TRUE, 0, 8)
    BY <1>1 DEF Row, _col_bind_map_numbers, Entry
  <1> QED BY <1>2, <1>3

\* The entries of the texts, the bytes and the unsigned integers.
LEMMA RestRows ==
  /\ Row("UTINYINT", "TINYINT", "TINYINT", TRUE, 3, 3)
  /\ Row("USMALLINT", "SMALLINT", "INTEGER", TRUE, 5, 5)
  /\ Row("UINT", "INTEGER", "BIGINT", TRUE, 10, 10)
  /\ Row("UBIGINT", "BIGINT", "BIGINT", TRUE, 20, 20)
  /\ Row("VARCHAR", "VARCHAR", "VARCHAR", TRUE, -1, -1)
  /\ Row("NCHAR", "WVARCHAR", "WVARCHAR", TRUE, -1, -2)
  /\ Row("JSON", "WVARCHAR", "WVARCHAR", TRUE, -1, -2)
  /\ Row("VARBINARY", "VARBINARY", "BINARY", TRUE, -1, -1)
  /\ Row("GEOMETRY", "VARBINARY", "BINARY", TRUE, -1, -1)
  <1>1. \A t \in DOMAIN _col_bind_map_rest : _col_bind_map[t] = _col_bind_map_rest[t]
    BY DEF _col_bind_map, _col_bind_map_numbers, _col_bind_map_rest, Both
  <1>2. /\ Row("UTINYINT", "TINYINT", "TINYINT", TRUE, 3, 3)
        /\ Row("USMALLINT", "SMALLINT", "INTEGER", TRUE, 5, 5)
        /\ Row("UINT", "INTEGER", "BIGINT", TRUE, 10, 10)
        /\ Row("UBIGINT", "BIGINT", "BIGINT", TRUE, 20, 20)
    BY <1>1 DEF Row, _col_bind_map_rest, Entry
  <1>3. /\ Row("VARCHAR", "VARCHAR", "VARCHAR", TRUE, -1, -1)
        /\ Row("NCHAR", "WVARCHAR", "WVARCHAR", TRUE, -1, -2)
        /\ Row("JSON", "WVARCHAR", "WVARCHAR", TRUE, -1, -2)
    BY <1>1 DEF Row, _col_bind_map_rest, Entry
  <1>4. /\ Row("VARBINARY", "VARBINARY", "BINARY", TRUE, -1, -1)
        /\ Row("GEOMETRY", "VARBINARY", "BINARY", TRUE, -1, -1)
    BY <1>1 DEF Row, _col_bind_map_rest, Entry
  <1> QED BY <1>2, <1>3, <1>4

\* The C type an application takes for an SQL type.
CFor(type, u) ==
  CASE type = "TINYINT"  -> Either(u, "UTINYINT", "STINYINT")
    [] type = "SMALLINT" -> Either(u, "USHORT", "SSHORT")
    [] type = "INTEGER"  -> Either(u, "ULONG", "SLONG")
    [] type = "BIGINT"   -> Either(u, "UBIGINT", "SBIGINT")
    [] type = "REAL"     -> "FLOAT"
    [] type = "VARCHAR"  -> "CHAR"
    [] type = "WVARCHAR" -> "WCHAR"
    [] type \in {"VARBINARY", "BINARY"} -> "BINARY"
    [] OTHER             -> type

\* What the record of a column tells.
Tells(rec, g, p, f) ==
  LET e == _col_bind_map[f.type]
  IN  /\ DefaultC(rec) = CFor(_stmt_col_DESC_CONCISE_TYPE(g, f.type), e.unsigned)
      /\ SignedC(rec) = CFor(_stmt_col_DESC_CONCISE_TYPE(g, f.type), FALSE)
      /\ rec.length = _stmt_col_DESC_LENGTH(p, f)
      /\ rec.display = _stmt_col_DESC_DISPLAY_SIZE(g, p, f)

\* A record of the descriptor has what _stmt_fill_IRD computes for the column; the
\* application finds the C type by the concise type and the sign.
LEMMA RecordTells ==
  ASSUME NEW g, NEW p, NEW f
  PROVE  Tells(IRDRecord(g, p, f), g, p, f)
  <1> DEFINE r == IRDRecord(g, p, f)
             s == [r EXCEPT !.unsigned = FALSE]
  <1>1. /\ r.concise = _stmt_col_DESC_CONCISE_TYPE(g, f.type) /\ r.unsigned = _col_bind_map[f.type].unsigned
        /\ r.length = _stmt_col_DESC_LENGTH(p, f) /\ r.display = _stmt_col_DESC_DISPLAY_SIZE(g, p, f)
        /\ s.concise = r.concise /\ s.unsigned = FALSE
    BY DEF IRDRecord
  <1>2. \A x : DefaultC(x) = CFor(x.concise, x.unsigned)
    BY DEF DefaultC, CFor, stmt_describe_col, stmt_col_attribute
  <1>3. SignedC(r) = DefaultC(s)
    BY DEF SignedC
  <1> HIDE DEF r, s
  <1> QED BY <1>1, <1>2, <1>3 DEF Tells, r

\* The C type of each column type: promoted if it is to be, a timestamp as text or as such.
DefaultOf(g, t) ==
  CASE t = "BOOL"      -> "BIT"
    [] t = "TINYINT"   -> IF g.unsigned_promotion THEN "SSHORT" ELSE "STINYINT"
    [] t = "SMALLINT"  -> "SSHORT"
    [] t = "INT"       -> "SLONG"
    [] t = "BIGINT"    -> "SBIGINT"
    [] t = "UTINYINT"  -> "UTINYINT"
    [] t = "USMALLINT" -> IF g.unsigned_promotion THEN "ULONG" ELSE "USHORT"
    [] t = "UINT"      -> IF g.unsigned_promotion THEN "UBIGINT" ELSE "ULONG"
    [] t = "UBIGINT"   -> "UBIGINT"
    [] t = "FLOAT"     -> "FLOAT"
    [] t = "DOUBLE"    -> "DOUBLE"
    [] t = "TIMESTAMP" -> IF g.timestamp_as_is THEN "TYPE_TIMESTAMP" ELSE "WCHAR"
    [] t = "VARCHAR"   -> "CHAR"
    [] t \in {"NCHAR", "JSON"} -> "WCHAR"
    [] t \in {"VARBINARY", "GEOMETRY"} -> "BINARY"

Config == [timestamp_as_is : BOOLEAN, unsigned_promotion : BOOLEAN]

\* ... which comes to one C type for each column type and choice of flags.
LEMMA DefaultIs ==
  ASSUME NEW g \in Config, NEW p, NEW f, f.type \in Types
  PROVE  /\ DefaultC(IRDRecord(g, p, f)) = DefaultOf(g, f.type)
         /\ g.unsigned_promotion /\ f.type \in {"USMALLINT", "UINT"} =>
              SignedC(IRDRecord(g, p, f)) = IF f.type = "UINT" THEN "SBIGINT" ELSE "SLONG"
  <1> DEFINE r == IRDRecord(g, p, f)
             t == f.type
             e == _col_bind_map[t]
             concise == _stmt_col_DESC_CONCISE_TYPE(g, t)
  <1>1. DefaultC(r) = CFor(concise, e.unsigned) /\ SignedC(r) = CFor(concise, FALSE)
    BY RecordTells DEF Tells
  <1>2. g.timestamp_as_is \in BOOLEAN /\ g.unsigned_promotion \in BOOLEAN
    BY DEF Config
  <1>3. concise = IF t = "TIMESTAMP" /\ ~g.timestamp_as_is THEN "WVARCHAR"
                  ELSE IF g.unsigned_promotion THEN e.promoted ELSE e.sql
    BY DEF _stmt_col_DESC_CONCISE_TYPE, AsText
  <1>4. t \in Types
    OBVIOUS
  <1> DEFINE goal == /\ DefaultC(r) = DefaultOf(g, t)
                     /\ g.unsigned_promotion /\ t \in {"USMALLINT", "UINT"} =>
                          SignedC(r) = IF t = "UINT" THEN "SBIGINT" ELSE "SLONG"
  <1> SUFFICES goal
    OBVIOUS
  <1> HIDE DEF r, concise, t
  <1>5. CASE t \in {"BOOL", "TINYINT", "SMALLINT", "INT", "BIGINT"}
    BY <1>1, <1>2, <1>3, <1>5, NumberRows DEF Row, DefaultOf, CFor, Either
  <1>6. CASE t \in {"FLOAT", "DOUBLE", "TIMESTAMP"}
    BY <1>1, <1>2, <1>3, <1>6, NumberRows DEF Row, DefaultOf, CFor, Either
  <1>7. CASE t \in {"UTINYINT", "USMALLINT", "UINT", "UBIGINT"}
    BY <1>1, <1>2, <1>3, <1>7, RestRows DEF Row, DefaultOf, CFor, Either
  <1>8. CASE t \in {"VARCHAR", "NCHAR", "JSON", "VARBINARY", "GEOMETRY"}
    BY <1>1, <1>2, <1>3, <1>8, RestRows DEF Row, DefaultOf, CFor, Either
  <1> QED BY <1>4, <1>5, <1>6, <1>7, <1>8, TypesAre

-----------------------------------------------------------------------------
(* What a value can be.                                                    *)

Ints == DOMAIN Bits

\* The parts of a value, by the type of its column.
LEMMA Stored ==
  ASSUME NEW t \in Types, NEW v \in Storable(t)
  PROVE  /\ t \in Ints => /\ v = <<"int", v[2], v[3]>> /\ v[2] \in {"+", "-"} /\ v[3] \in 0..Bits[t]
                          /\ t \notin SignedTypes => v[2] = "+"
         /\ t = "FLOAT" => v[1] = "flt" /\ v[2] \in 1..9
         /\ t = "DOUBLE" => v[1] = "flt" /\ v[2] \in 1..17
         /\ t = "TIMESTAMP" => v[1] = "ts" /\ v[2] \in Int /\ v[3] \in Int
         /\ t \in VarTypes => v[1] = "text" /\ v[2] \in Nat
  <1>1. /\ Ints = {"BOOL", "TINYINT", "SMALLINT", "INT", "BIGINT", "UTINYINT", "USMALLINT", "UINT", "UBIGINT"}
        /\ SignedTypes \subseteq Ints
    BY DEF Ints, Bits, SignedTypes
  <1>2. CASE t \in SignedTypes
    <2>1. t # "FLOAT" /\ t # "DOUBLE" /\ t # "TIMESTAMP" /\ t \notin VarTypes
      BY <1>2, TypesAre DEF SignedTypes
    <2>2. Storable(t) = {"int"} \X {"+", "-"} \X (0..Bits[t])
      BY <1>2, <2>1 DEF Storable
    <2>3. v = <<"int", v[2], v[3]>> /\ v[2] \in {"+", "-"} /\ v[3] \in 0..Bits[t]
      BY <2>2
    <2> QED BY <1>2, <2>1, <2>3
  <1>3. CASE t \in Ints \ SignedTypes
    <2>1. t # "FLOAT" /\ t # "DOUBLE" /\ t # "TIMESTAMP" /\ t \notin VarTypes
      BY <1>1, <1>3, TypesAre
    <2>2. Storable(t) = {"int"} \X {"+"} \X (0..Bits[t])
      BY <1>3, <2>1 DEF Storable, Ints
    <2>3. v = <<"int", v[2], v[3]>> /\ v[2] = "+" /\ v[3] \in 0..Bits[t]
      BY <2>2
    <2> QED BY <2>1, <2>3
  <1>4. CASE t = "FLOAT"
    <2>1. v \in {"flt"} \X (1..9)
      BY <1>4, <1>1, TypesAre DEF Storable, Ints
    <2> QED BY <1>1, <1>4, <2>1, TypesAre
  <1>5. CASE t = "DOUBLE"
    <2>1. v \in {"flt"} \X (1..17)
      BY <1>5, <1>1, TypesAre DEF Storable, Ints
    <2> QED BY <1>1, <1>5, <2>1, TypesAre
  <1>6. CASE t = "TIMESTAMP"
    <2>1. v \in {"ts"} \X Int \X Int
      BY <1>6, <1>1, TypesAre DEF Storable, Ints
    <2> QED BY <1>1, <1>6, <2>1, TypesAre
  <1>7. CASE t \in VarTypes
    <2>1. v \in {"text"} \X Nat
      BY <1>7, <1>1, TypesAre DEF Storable, Ints
    <2> QED BY <1>1, <1>7, <2>1, TypesAre
  <1> QED BY <1>1, <1>2, <1>3, <1>4, <1>5, <1>6, <1>7, TypesAre

-----------------------------------------------------------------------------
(* One value, read as the C type that its description calls for.           *)

\* An integer into a C type that has room for it.
Takes(b, v) == v[3] <= (IF b.signed THEN b.bits - 1 ELSE b.bits) /\ (v[2] = "-" => b.signed)

\* The integer C types, their widths and signs.
LEMMA IntegralIs ==
  /\ DOMAIN Integral = {"STINYINT", "TINYINT", "UTINYINT", "SSHORT", "SHORT", "USHORT", "SLONG", "LONG", "ULONG",
                        "SBIGINT", "UBIGINT"}
  /\ \A c \in DOMAIN Integral : Integral[c].bits \in {8, 16, 32, 64} /\ Integral[c].signed \in BOOLEAN
  <1>1. DOMAIN Integral = {"STINYINT", "TINYINT", "UTINYINT", "SSHORT", "SHORT", "USHORT", "SLONG", "LONG", "ULONG",
                           "SBIGINT", "UBIGINT"}
    BY DEF Integral
  <1>2. \A c \in DOMAIN Integral : Integral[c].bits \in {8, 16, 32, 64}
    BY <1>1 DEF Integral, CInt
  <1>3. /\ \A c \in {"STINYINT", "TINYINT", "SSHORT", "SHORT", "SLONG", "LONG", "SBIGINT"} : Integral[c].signed = TRUE
        /\ \A c \in {"UTINYINT", "USHORT", "ULONG", "UBIGINT"} : Integral[c].signed = FALSE
    BY DEF Integral, CInt
  <1> QED BY <1>1, <1>2, <1>3

\* An integer is read unchanged as a C integer that has room for it.
LEMMA IntRead ==
  ASSUME NEW t \in Ints \ {"BOOL"}, NEW v, v[2] \in {"+", "-"}, v[3] \in Nat, NEW p, NEW c \in DOMAIN Integral,
         Takes(Integral[c], v)
  PROVE  _stmt_get_data_copy(t, v, p, c) = Gives(v)
  <1>1. Cast(v, Integral[c]) = v
    <2> DEFINE b == Integral[c]
    <2>1. b.bits \in {8, 16, 32, 64} /\ b.signed \in BOOLEAN
      BY IntegralIs
    <2>2. Takes(b, v)
      OBVIOUS
    <2> HIDE DEF b
    <2>3. Cast(v, b) = v
      BY <2>1, <2>2 DEF Cast, Takes, IsNegative
    <2> QED BY <2>3 DEF b
  <1>2. c \notin Chars /\ c # "BIT"
    BY IntegralIs DEF Chars
  <1>3. t \in {"TINYINT", "SMALLINT", "INT", "BIGINT", "UTINYINT", "USMALLINT", "UINT", "UBIGINT"}
    BY DEF Ints, Bits
  <1>4. CASE t \in SignedTypes
    <2>1. _stmt_get_data_copy(t, v, p, c) = _stmt_get_data_copy_int64(v, c)
      BY <1>2, <1>3, <1>4, TypesAre DEF _stmt_get_data_copy, SignedTypes
    <2>2. _stmt_get_data_copy_int64(v, c) = Gives(Cast(v, Integral[c]))
      BY <1>2, IntegralIs DEF _stmt_get_data_copy_int64
    <2> QED BY <1>1, <2>1, <2>2
  <1>5. CASE t \notin SignedTypes
    <2>1. _stmt_get_data_copy(t, v, p, c) = _stmt_get_data_copy_uint64(v, c)
      BY <1>2, <1>3, <1>5, TypesAre DEF _stmt_get_data_copy, SignedTypes
    <2>2. _stmt_get_data_copy_uint64(v, c) = Gives(Cast(v, Integral[c]))
      BY <1>2, IntegralIs DEF _stmt_get_data_copy_uint64
    <2> QED BY <1>1, <2>1, <2>2
  <1> QED BY <1>4, <1>5

\* Nothing but a text is cut.
LEMMA Delivered ==
  ASSUME NEW r, NEW room \in Int, r.ret = "ok", r.val[1] = "chars" => r.val[2] \in Int /\ r.val[2] <= room
  PROVE  Deliver(r, room) = r
  <1>1. ~(r.ret = "ok" /\ r.val[1] = "chars" /\ r.val[2] > room)
    OBVIOUS
  <1> QED BY <1>1 DEF Deliver

\* What a successful conversion answers.
LEMMA GivesIs ==
  \A v : Gives(v).ret = "ok" /\ Gives(v).val = v
  BY DEF Gives

\* A BOOL is read unchanged as SQL_C_BIT.
LEMMA BoolRead ==
  ASSUME NEW v, v = <<"int", "+", v[3]>>, v[3] \in 0..1, NEW p
  PROVE  _stmt_get_data_copy("BOOL", v, p, "BIT") = Gives(v)
  <1>1. _stmt_get_data_copy("BOOL", v, p, "BIT") = _stmt_get_data_copy_uint64(v, "BIT")
    BY TypesAre DEF _stmt_get_data_copy, Chars
  <1>2. _stmt_get_data_copy_uint64(v, "BIT") = Truth(v)
    BY IntegralIs DEF _stmt_get_data_copy_uint64
  <1>3. (IF v[3] = 0 /\ ~IsNegative(v) THEN 0 ELSE 1) = v[3]
    BY DEF IsNegative
  <1>4. Truth(v) = Gives(<<"int", "+", v[3]>>)
    BY <1>3 DEF Truth
  <1> QED BY <1>1, <1>2, <1>4

\* A floating value is read unchanged as its own C type.
LEMMA FloatRead ==
  ASSUME NEW t \in {"FLOAT", "DOUBLE"}, NEW v, v[2] \in Nat, t = "FLOAT" => v[2] <= 9, NEW p
  PROVE  _stmt_get_data_copy(t, v, p, t) = Gives(v)
  <1>1. _stmt_get_data_copy(t, v, p, t) = _stmt_get_data_copy_double(v, t)
    BY TypesAre DEF _stmt_get_data_copy, Chars
  <1>2. ~(t = "FLOAT" /\ v[2] > 9)
    OBVIOUS
  <1>3. _stmt_get_data_copy_double(v, t) = Gives(v)
    BY <1>2 DEF _stmt_get_data_copy_double, Plain
  <1> QED BY <1>1, <1>3

\* A text is read whole as characters, bytes as bytes.
LEMMA TextRead ==
  ASSUME NEW t \in VarTypes, NEW v, NEW p, NEW c \in Chars, t \in {"VARBINARY", "GEOMETRY"} => c = "BINARY"
  PROVE  _stmt_get_data_copy(t, v, p, c) = Gives(<<"chars", v[2], v>>)
  <1>1. _stmt_get_data_copy(t, v, p, c) = Text(t, v, p)
    BY DEF _stmt_get_data_copy
  <1>2. t \notin {"BOOL", "TIMESTAMP", "FLOAT", "DOUBLE"}
    BY TypesAre
  <1>3. Text(t, v, p) = Gives(<<"chars", v[2], v>>)
    BY <1>2 DEF Text
  <1> QED BY <1>1, <1>3

\* From the epoch on, the split of a timestamp finds the seconds and what is left.
LEMMA SplitIs ==
  ASSUME NEW p \in 0..2, NEW a \in Nat, NEW b \in Nat, b < Unit(p)
  PROVE  /\ Unit(p) \in {10, 100, 1000}
         /\ _tsdb_timestamp_to_tm_local(a * Unit(p) + b, p) = [tt |-> a, fraction |-> b]
         /\ ~Unsplittable([tt |-> a, fraction |-> b])
  <1>1. 10^1 = 10 /\ 10^2 = 100 /\ 10^3 = 1000
    OBVIOUS
  <1>2. Unit(p) \in {10, 100, 1000}
    <2>1. Unit(0) = 10^1 /\ Unit(1) = 10^2 /\ Unit(2) = 10^3
      BY DEF Unit
    <2>2. p = 0 \/ p = 1 \/ p = 2
      OBVIOUS
    <2> QED BY <1>1, <2>1, <2>2
  <1> DEFINE u == Unit(p)
  <1>3. Quot(a * u + b, u) = a
    <2>1. u \in {10, 100, 1000} /\ b < u
      BY <1>2
    <2> HIDE DEF u
    <2>2. a * u + b >= 0 /\ (a * u + b) \div u = a
      <3>1. CASE u = 10
        BY <2>1, <3>1
      <3>2. CASE u = 100
        BY <2>1, <3>2
      <3>3. CASE u = 1000
        BY <2>1, <3>3
      <3> QED BY <2>1, <3>1, <3>2, <3>3
    <2>3. a * u + b \in Int
      BY <2>1
    <2> QED BY <2>2, <2>3 DEF Quot
  <1>4. Rem(a * u + b, u) = b
    BY <1>2, <1>3 DEF Rem
  <1>5. _tsdb_timestamp_to_tm_local(a * u + b, p) = [tt |-> a, fraction |-> b]
    BY <1>3, <1>4 DEF _tsdb_timestamp_to_tm_local
  <1>6. ~Unsplittable([tt |-> a, fraction |-> b])
    BY DEF Unsplittable
  <1> QED BY <1>2, <1>5, <1>6

\* An instant from the epoch on is read to its last digit, as text or as structure.
LEMMA InstantRead ==
  ASSUME NEW p \in 0..2, NEW v, v[2] \in Nat, v[3] \in Nat, v[3] < Unit(p)
  PROVE  /\ \A c \in Chars : _stmt_get_data_copy("TIMESTAMP", v, p, c)
                               = Gives(<<"chars", TextOfTimestamp(p), Instant(v, p)>>)
         /\ _stmt_get_data_copy("TIMESTAMP", v, p, "TYPE_TIMESTAMP") = Gives(<<"struct", Instant(v, p)[1], Instant(v, p)[2]>>)
  <1> DEFINE tm == _tsdb_timestamp_to_tm_local(Count(v, p), p)
  <1>1. tm.tt = v[2] /\ tm.fraction = v[3] /\ ~Unsplittable(tm)
    <2>1. /\ _tsdb_timestamp_to_tm_local(v[2] * Unit(p) + v[3], p) = [tt |-> v[2], fraction |-> v[3]]
          /\ ~Unsplittable([tt |-> v[2], fraction |-> v[3]])
      BY SplitIs
    <2>2. tm = [tt |-> v[2], fraction |-> v[3]]
      BY <2>1 DEF Count
    <2> QED BY <2>1, <2>2
  <1> HIDE DEF tm
  <1>2. ASSUME NEW c \in Chars
        PROVE  _stmt_get_data_copy("TIMESTAMP", v, p, c) = Gives(<<"chars", TextOfTimestamp(p), Instant(v, p)>>)
    <2>1. _stmt_get_data_copy("TIMESTAMP", v, p, c) = Text("TIMESTAMP", v, p)
      BY DEF _stmt_get_data_copy
    <2>2. Text("TIMESTAMP", v, p) = tsdb_timestamp_to_string(Count(v, p), p)
      BY TypesAre DEF Text
    <2>3. 20 + 3 * (p + 1) = TextOfTimestamp(p)
      BY DEF TextOfTimestamp
    <2>4. tsdb_timestamp_to_string(Count(v, p), p) = Gives(<<"chars", 20 + 3 * (p + 1), <<tm.tt, tm.fraction * 10^(2 - p)>>>>)
      BY <1>1 DEF tsdb_timestamp_to_string, tm
    <2> QED BY <1>1, <2>1, <2>2, <2>3, <2>4 DEF Instant
  <1>3. _stmt_get_data_copy("TIMESTAMP", v, p, "TYPE_TIMESTAMP") = Gives(<<"struct", Instant(v, p)[1], Instant(v, p)[2]>>)
    <2>1. _stmt_get_data_copy("TIMESTAMP", v, p, "TYPE_TIMESTAMP") = _stmt_get_data_copy_timestamp(v, p, "TYPE_TIMESTAMP")
      BY TypesAre DEF _stmt_get_data_copy, Chars
    <2>2. _stmt_get_data_copy_timestamp(v, p, "TYPE_TIMESTAMP") = tsdb_timestamp_to_SQL_C_TYPE_TIMESTAMP(Count(v, p), p)
      BY DEF _stmt_get_data_copy_timestamp, Plain
    <2>3. tsdb_timestamp_to_SQL_C_TYPE_TIMESTAMP(Count(v, p), p) = Gives(<<"struct", tm.tt, tm.fraction * 10^(2 - p)>>)
      BY <1>1 DEF tsdb_timestamp_to_SQL_C_TYPE_TIMESTAMP, tm
    <2> QED BY <1>1, <2>1, <2>2, <2>3 DEF Instant
  <1> QED BY <1>2, <1>3

-----------------------------------------------------------------------------
(* The first column of a result, and the values that arrive for it.        *)

\* What is known of the first column of a result.
LEMMA SourceIs ==
  ASSUME NEW s \in Sources
  PROVE  /\ s.base \in {"tsdb", "topic", "catalog"} /\ s.p \in 0..2 /\ s # NoSource
         /\ 1 \in DOMAIN s.fields /\ s.fields[1].type \in Types /\ s.fields[1].bytes \in Nat /\ s.as[1] \in Types
         /\ s.base # "catalog" => s.as[1] = s.fields[1].type /\ ~s.raw
         /\ s.base = "catalog" => /\ s.fields[1].type \in {"VARCHAR", "SMALLINT", "INT"}
                                  /\ s.fields[1].type = "VARCHAR" => s.as[1] = "VARCHAR"
                                  /\ s.fields[1].type # "VARCHAR" => s.as[1] \in {"SMALLINT", "INT", "BIGINT"}
  <1>1. /\ s.base \in {"tsdb", "topic", "catalog"} /\ s.p \in 0..2
        /\ s.fields # <<>> /\ s.fields \in Seq([type : Types, bytes : Nat])
        /\ s.base # "catalog" => ~s.raw
    BY DescribeAssumption
  <1>2. \A i \in DOMAIN s.fields :
          IF s.base # "catalog" THEN s.as[i] = s.fields[i].type
          ELSE /\ s.fields[i].type \in {"VARCHAR", "SMALLINT", "INT"}
               /\ s.as[i] = s.fields[i].type \/ (s.fields[i].type # "VARCHAR" /\ s.as[i] \in {"INT", "BIGINT"})
    BY DescribeAssumption
  <1>3. 1 \in DOMAIN s.fields /\ s.fields[1] \in [type : Types, bytes : Nat]
    <2>1. ASSUME NEW set, NEW x \in Seq(set), x # <<>>
          PROVE  1 \in DOMAIN x /\ x[1] \in set
      BY <2>1
    <2> QED BY <1>1, <2>1
  <1>4. s # NoSource
    BY <1>1 DEF NoSource
  <1>5. s.base # "catalog" => s.as[1] = s.fields[1].type
    BY <1>2, <1>3
  <1>6. s.base = "catalog" => /\ s.fields[1].type \in {"VARCHAR", "SMALLINT", "INT"}
                              /\ s.as[1] = s.fields[1].type \/ (s.fields[1].type # "VARCHAR" /\ s.as[1] \in {"INT", "BIGINT"})
    BY <1>2, <1>3
  <1>7. s.as[1] \in Types
    BY <1>3, <1>5, <1>6, TypesAre
  <1> QED BY <1>1, <1>3, <1>4, <1>5, <1>6, <1>7

\* A NULL_FIELD handed out as a number.
Placed(s, v) == s.raw /\ v = NULL_FIELD

\* A value that has arrived for a column of type t.
Arrived(s, t, v) ==
  /\ t \in Ints => /\ v = <<"int", v[2], v[3]>> /\ v[2] \in {"+", "-"} /\ v[3] \in 0..Bits[t]
                   /\ t \notin SignedTypes => v[2] = "+"
                   /\ s.base = "catalog" => v[3] <= Bits[s.fields[1].type] \/ Placed(s, v)
  /\ t \in {"FLOAT", "DOUBLE"} => v[1] = "flt" /\ v[2] \in 1..17 /\ (t = "FLOAT" => v[2] <= 9)
  /\ t = "TIMESTAMP" => v[2] \in Int /\ v[3] \in Int /\ -Unit(s.p) < v[3] /\ v[3] < Unit(s.p)
  /\ t \in VarTypes => v[1] = "text" /\ v[2] \in 0..s.fields[1].bytes

\* A value that arrives is one of its type, and no larger than its field.
LEMMA ArrivingIs ==
  ASSUME NEW s \in Sources, NEW v \in Arriving(s)
  PROVE  Arrived(s, s.as[1], v)
  <1> DEFINE t == s.as[1]
  <1>1. v \in Values[t] /\ (v[1] = "text" => v[2] <= s.fields[1].bytes)
        /\ (v[1] = "ts" => -Unit(s.p) < v[3] /\ v[3] < Unit(s.p))
        /\ (s.base = "catalog" /\ v[1] = "int" => v[3] <= Bits[s.fields[1].type] \/ Placed(s, v))
    BY DEF Arriving, Placed
  <1>2. t \in Types /\ s.fields[1].bytes \in Nat
    BY SourceIs
  <1>3. v \in Storable(t)
    BY <1>1, <1>2, DescribeAssumption
  <1> HIDE DEF t
  <1>4. /\ t \in Ints => /\ v = <<"int", v[2], v[3]>> /\ v[2] \in {"+", "-"} /\ v[3] \in 0..Bits[t]
                         /\ t \notin SignedTypes => v[2] = "+"
        /\ t = "FLOAT" => v[1] = "flt" /\ v[2] \in 1..9
        /\ t = "DOUBLE" => v[1] = "flt" /\ v[2] \in 1..17
        /\ t = "TIMESTAMP" => v[1] = "ts" /\ v[2] \in Int /\ v[3] \in Int
        /\ t \in VarTypes => v[1] = "text" /\ v[2] \in Nat
    BY <1>2, <1>3, Stored
  <1>5. t \in Ints => /\ v = <<"int", v[2], v[3]>> /\ v[2] \in {"+", "-"} /\ v[3] \in 0..Bits[t]
                      /\ t \notin SignedTypes => v[2] = "+"
                      /\ s.base = "catalog" => v[3] <= Bits[s.fields[1].type] \/ Placed(s, v)
    BY <1>1, <1>4
  <1>6. t \in {"FLOAT", "DOUBLE"} => v[1] = "flt" /\ v[2] \in 1..17 /\ (t = "FLOAT" => v[2] <= 9)
    BY <1>4
  <1>7. t = "TIMESTAMP" => v[2] \in Int /\ v[3] \in Int /\ -Unit(s.p) < v[3] /\ v[3] < Unit(s.p)
    BY <1>1, <1>4
  <1>8. t \in VarTypes => v[1] = "text" /\ v[2] \in 0..s.fields[1].bytes
    BY <1>1, <1>2, <1>4
  <1> QED BY <1>5, <1>6, <1>7, <1>8 DEF Arrived, t

-----------------------------------------------------------------------------
(* The column read as it is described.                                     *)

\* What an application may want as text.
Numbers == {"TINYINT", "SMALLINT", "INT", "BIGINT", "UTINYINT", "USMALLINT", "UINT", "UBIGINT", "FLOAT", "DOUBLE"}

\* The numbers of the table that a buffer is made by.
LEMMA SizesAre ==
  ASSUME NEW g \in Config, NEW p \in 0..2, NEW f, f.type \in Types, f.bytes \in Nat
  PROVE  LET rec == IRDRecord(g, p, f)
         IN  /\ f.type = "TIMESTAMP" => rec.length = TextOfTimestamp(p)
             /\ f.type \in VarTypes => rec.length = f.bytes
             /\ f.type = "TIMESTAMP" /\ ~g.timestamp_as_is => rec.display = TextOfTimestamp(p)
             /\ f.type \in Numbers =>
                  rec.display = _col_bind_map[f.type].display
             /\ rec.length \in Int /\ rec.display \in Int
  <1> DEFINE rec == IRDRecord(g, p, f)
             e == _col_bind_map[f.type]
  <1> USE DEF Numbers
  <1>1. rec.length = _stmt_col_DESC_LENGTH(p, f) /\ rec.display = _stmt_col_DESC_DISPLAY_SIZE(g, p, f)
    BY RecordTells DEF Tells
  <1>2. TextOfTimestamp(p) \in Int
    BY DEF TextOfTimestamp
  <1>3. /\ e.length \in Int /\ e.display \in Int
        /\ f.type \in VarTypes => e.length = -1
        /\ f.type \in Numbers =>
             e.display >= 0
    <2>1. CASE f.type \in {"BOOL", "TINYINT", "SMALLINT", "INT", "BIGINT", "FLOAT", "DOUBLE", "TIMESTAMP"}
      BY <2>1, NumberRows, TypesAre DEF Row
    <2>2. CASE f.type \in {"UTINYINT", "USMALLINT", "UINT", "UBIGINT", "VARCHAR", "NCHAR", "JSON", "VARBINARY", "GEOMETRY"}
      BY <2>2, RestRows, TypesAre DEF Row
    <2> QED BY <2>1, <2>2, TypesAre
  <1> HIDE DEF rec, e
  <1>4. Scaled(e.length, f.bytes) \in Int /\ Scaled(e.display, f.bytes) \in Int
    BY <1>3 DEF Scaled
  <1>5. f.type \in VarTypes => Scaled(e.length, f.bytes) = f.bytes
    BY <1>3 DEF Scaled
  <1>6. f.type \in Numbers =>
          Scaled(e.display, f.bytes) = e.display
    BY <1>3 DEF Scaled
  <1>7. rec.length = IF f.type = "TIMESTAMP" THEN TextOfTimestamp(p) ELSE Scaled(e.length, f.bytes)
    BY <1>1 DEF _stmt_col_DESC_LENGTH, e
  <1>8. rec.display = IF f.type = "TIMESTAMP" /\ ~g.timestamp_as_is THEN TextOfTimestamp(p) ELSE Scaled(e.display, f.bytes)
    BY <1>1 DEF _stmt_col_DESC_DISPLAY_SIZE, AsText, e
  <1>9. f.type \in VarTypes => f.type # "TIMESTAMP"
    BY TypesAre
  <1> QED BY <1>2, <1>4, <1>5, <1>6, <1>7, <1>8, <1>9 DEF rec, e

\* The C integer of a column has room for what arrives in it.
LEMMA IntTaken ==
  ASSUME NEW g \in Config, NEW s \in Sources, NEW v, s.as[1] \in Ints \ {"BOOL"}, Arrived(s, s.as[1], v),
         ~Placed(s, v),
         NEW c, \/ c = DefaultOf(g, s.fields[1].type)
                \/ s.as[1] = "USMALLINT" /\ c = "SLONG"
                \/ s.as[1] = "UINT" /\ c = "SBIGINT"
  PROVE  c \in DOMAIN Integral /\ Takes(Integral[c], v)
  <1> DEFINE t == s.as[1]
             f == s.fields[1]
  <1>1. /\ v[2] \in {"+", "-"} /\ v[3] \in 0..Bits[t]
        /\ t \notin SignedTypes => v[2] = "+"
        /\ s.base = "catalog" => v[3] <= Bits[f.type]
    BY DEF Arrived
  <1>2. t \in {"TINYINT", "SMALLINT", "INT", "BIGINT", "UTINYINT", "USMALLINT", "UINT", "UBIGINT"}
    BY DEF Ints, Bits
  <1>3. /\ Bits["TINYINT"] = 7 /\ Bits["SMALLINT"] = 15 /\ Bits["INT"] = 31 /\ Bits["BIGINT"] = 63
        /\ Bits["UTINYINT"] = 8 /\ Bits["USMALLINT"] = 16 /\ Bits["UINT"] = 32 /\ Bits["UBIGINT"] = 64
    BY DEF Bits
  <1>4. /\ Integral["STINYINT"] = CInt(8, TRUE) /\ Integral["SSHORT"] = CInt(16, TRUE)
        /\ Integral["SLONG"] = CInt(32, TRUE) /\ Integral["SBIGINT"] = CInt(64, TRUE)
        /\ Integral["UTINYINT"] = CInt(8, FALSE) /\ Integral["USHORT"] = CInt(16, FALSE)
        /\ Integral["ULONG"] = CInt(32, FALSE) /\ Integral["UBIGINT"] = CInt(64, FALSE)
    BY DEF Integral
  <1>5. s.base # "catalog" => t = f.type
    BY SourceIs
  <1>6. s.base = "catalog" => f.type \in {"SMALLINT", "INT"} /\ t \in {"SMALLINT", "INT", "BIGINT"}
    BY <1>2, SourceIs
  <1>7. c = DefaultOf(g, f.type) \/ (t = "USMALLINT" /\ c = "SLONG") \/ (t = "UINT" /\ c = "SBIGINT")
    OBVIOUS
  <1>8. /\ Takes(Integral["STINYINT"], v) <=> v[3] <= 7
        /\ Takes(Integral["SSHORT"], v) <=> v[3] <= 15
        /\ Takes(Integral["SLONG"], v) <=> v[3] <= 31
        /\ Takes(Integral["SBIGINT"], v) <=> v[3] <= 63
        /\ Takes(Integral["UTINYINT"], v) <=> v[3] <= 8 /\ v[2] # "-"
        /\ Takes(Integral["USHORT"], v) <=> v[3] <= 16 /\ v[2] # "-"
        /\ Takes(Integral["ULONG"], v) <=> v[3] <= 32 /\ v[2] # "-"
        /\ Takes(Integral["UBIGINT"], v) <=> v[3] <= 64 /\ v[2] # "-"
    <2>1. /\ Takes(CInt(8, TRUE), v) <=> v[3] <= 7
          /\ Takes(CInt(16, TRUE), v) <=> v[3] <= 15
          /\ Takes(CInt(32, TRUE), v) <=> v[3] <= 31
          /\ Takes(CInt(64, TRUE), v) <=> v[3] <= 63
      BY <1>1 DEF Takes, CInt
    <2>2. /\ Takes(CInt(8, FALSE), v) <=> v[3] <= 8 /\ v[2] # "-"
          /\ Takes(CInt(16, FALSE), v) <=> v[3] <= 16 /\ v[2] # "-"
          /\ Takes(CInt(32, FALSE), v) <=> v[3] <= 32 /\ v[2] # "-"
          /\ Takes(CInt(64, FALSE), v) <=> v[3] <= 64 /\ v[2] # "-"
      BY <1>1 DEF Takes, CInt
    <2>3. /\ Takes(Integral["STINYINT"], v) <=> v[3] <= 7
          /\ Takes(Integral["SSHORT"], v) <=> v[3] <= 15
          /\ Takes(Integral["SLONG"], v) <=> v[3] <= 31
          /\ Takes(Integral["SBIGINT"], v) <=> v[3] <= 63
      BY <1>4, <2>1, Zenon
    <2>4. /\ Takes(Integral["UTINYINT"], v) <=> v[3] <= 8 /\ v[2] # "-"
          /\ Takes(Integral["USHORT"], v) <=> v[3] <= 16 /\ v[2] # "-"
          /\ Takes(Integral["ULONG"], v) <=> v[3] <= 32 /\ v[2] # "-"
          /\ Takes(Integral["UBIGINT"], v) <=> v[3] <= 64 /\ v[2] # "-"
      BY <1>4, <2>2, Zenon
    <2> QED BY <2>3, <2>4
  <1> HIDE DEF t, f
  <1>9. CASE s.base = "catalog"
    <2>1. \/ f.type = "SMALLINT" /\ c = "SSHORT"
          \/ f.type = "INT" /\ c = "SLONG"
      BY <1>6, <1>7, <1>9 DEF DefaultOf
    <2>2. v[3] \in Nat /\ v[3] <= Bits[f.type]
      BY <1>1, <1>2, <1>3, <1>9
    <2> QED BY <1>3, <1>8, <2>1, <2>2, IntegralIs
  <1>10. CASE s.base # "catalog" /\ t \in {"TINYINT", "SMALLINT", "INT", "BIGINT"}
    <2>1. \/ t = "TINYINT" /\ c \in {"SSHORT", "STINYINT"}
          \/ t = "SMALLINT" /\ c = "SSHORT"
          \/ t = "INT" /\ c = "SLONG"
          \/ t = "BIGINT" /\ c = "SBIGINT"
      BY <1>5, <1>7, <1>10 DEF DefaultOf
    <2>2. v[3] \in Nat /\ v[3] <= Bits[t]
      BY <1>1, <1>2, <1>3
    <2> QED BY <1>3, <1>8, <2>1, <2>2, IntegralIs
  <1>11. CASE s.base # "catalog" /\ t \in {"UTINYINT", "USMALLINT", "UINT", "UBIGINT"}
    <2>1. \/ t = "UTINYINT" /\ c = "UTINYINT"
          \/ t = "USMALLINT" /\ c \in {"ULONG", "USHORT", "SLONG"}
          \/ t = "UINT" /\ c \in {"UBIGINT", "ULONG", "SBIGINT"}
          \/ t = "UBIGINT" /\ c = "UBIGINT"
      BY <1>5, <1>7, <1>11 DEF DefaultOf
    <2>2. v[3] \in Nat /\ v[3] <= Bits[t] /\ v[2] # "-"
      BY <1>1, <1>2, <1>3, <1>11 DEF SignedTypes
    <2> QED BY <1>3, <1>8, <2>1, <2>2, IntegralIs
  <1> QED BY <1>2, <1>9, <1>10, <1>11

\* What a value means, of whatever result it is.
MeaningIn(p, t, v, c) ==
  CASE t = "TIMESTAMP" /\ c \in Chars    -> <<"chars", TextOfTimestamp(p), Instant(v, p)>>
    [] t = "TIMESTAMP" /\ c \notin Chars -> <<"struct", Instant(v, p)[1], Instant(v, p)[2]>>
    [] t \in VarTypes                    -> <<"chars", v[2], v>>
    [] OTHER                             -> v

\* A column read as its default C type into a buffer of the size that was told is read whole.
LEMMA ReadWhole ==
  ASSUME NEW g \in Config, NEW s \in Sources, NEW v, Arrived(s, s.as[1], v), ~Placed(s, v), NEW c, NEW length \in Int,
         c = DefaultOf(g, s.fields[1].type),
         s.as[1] = "TIMESTAMP" => v[2] \in Nat /\ v[3] \in Nat /\ length = TextOfTimestamp(s.p),
         s.as[1] \in VarTypes => length = s.fields[1].bytes
  PROVE  Deliver(_stmt_get_data_copy(s.as[1], v, s.p, c), length) = Gives(MeaningIn(s.p, s.as[1], v, c))
  <1> DEFINE t == s.as[1]
             f == s.fields[1]
             copied == _stmt_get_data_copy(t, v, s.p, c)
  <1>0. /\ t \in Types /\ s.p \in 0..2 /\ f.type \in Types /\ f.bytes \in Nat
        /\ t \in VarTypes \cup {"BOOL", "FLOAT", "DOUBLE", "TIMESTAMP"} => f.type = t
    BY SourceIs, TypesAre
  <1>1. CASE t = "BOOL"
    <2>1. v = <<"int", "+", v[3]>> /\ v[3] \in 0..1
      BY <1>1 DEF Arrived, Ints, Bits, SignedTypes
    <2>2. c = "BIT"
      BY <1>0, <1>1 DEF DefaultOf
    <2>3. copied = Gives(v)
      BY <1>1, <2>1, <2>2, BoolRead
    <2>4. MeaningIn(s.p, t, v, c) = v
      BY <1>1, TypesAre DEF MeaningIn
    <2>5. v[1] # "chars"
      BY <2>1
    <2> QED BY <2>3, <2>4, <2>5, Delivered, GivesIs
  <1>2. CASE t \in Ints \ {"BOOL"}
    <2>1. c \in DOMAIN Integral /\ Takes(Integral[c], v)
      BY <1>2, IntTaken
    <2>2. v[2] \in {"+", "-"} /\ v[3] \in 0..Bits[t] /\ v[1] = "int"
      <3>1. v = <<"int", v[2], v[3]>> /\ v[2] \in {"+", "-"} /\ v[3] \in 0..Bits[t]
        BY <1>2 DEF Arrived
      <3>2. v[1] = <<"int", v[2], v[3]>>[1]
        BY <3>1
      <3> QED BY <3>1, <3>2
    <2>3. v[3] \in Nat
      BY <2>2
    <2>4. copied = Gives(v)
      BY <1>2, <2>1, <2>2, <2>3, IntRead
    <2>5. t # "TIMESTAMP" /\ t \notin VarTypes
      BY <1>2, TypesAre DEF Ints, Bits
    <2>6. MeaningIn(s.p, t, v, c) = v
      BY <2>5 DEF MeaningIn
    <2>7. v[1] # "chars"
      BY <2>2
    <2> QED BY <2>4, <2>6, <2>7, Delivered, GivesIs
  <1>3. CASE t \in {"FLOAT", "DOUBLE"}
    <2>1. v[1] = "flt" /\ v[2] \in Nat /\ (t = "FLOAT" => v[2] <= 9)
      BY <1>3 DEF Arrived
    <2>2. c = t
      BY <1>0, <1>3 DEF DefaultOf
    <2>3. copied = Gives(v)
      BY <1>3, <2>1, <2>2, FloatRead
    <2>4. MeaningIn(s.p, t, v, c) = v
      BY <1>3, TypesAre DEF MeaningIn
    <2> QED BY <2>1, <2>3, <2>4, Delivered, GivesIs
  <1>4. CASE t \in VarTypes
    <2>1. v[2] \in 0..f.bytes
      BY <1>4 DEF Arrived
    <2>2. c \in Chars /\ (t \in {"VARBINARY", "GEOMETRY"} => c = "BINARY")
      BY <1>0, <1>4, TypesAre DEF DefaultOf, Chars
    <2>3. copied = Gives(<<"chars", v[2], v>>)
      BY <1>4, <2>2, TextRead
    <2>4. MeaningIn(s.p, t, v, c) = <<"chars", v[2], v>>
      BY <1>4, TypesAre DEF MeaningIn
    <2>5. v[2] \in Int /\ v[2] <= length
      BY <1>0, <1>4, <2>1
    <2> QED BY <2>3, <2>4, <2>5, Delivered, GivesIs
  <1>5. CASE t = "TIMESTAMP"
    <2>1. v[2] \in Nat /\ v[3] \in Nat /\ v[3] < Unit(s.p) /\ length = TextOfTimestamp(s.p)
      BY <1>5 DEF Arrived
    <2>2. c \in Chars \/ (c = "TYPE_TIMESTAMP" /\ c \notin Chars)
      BY <1>0, <1>5 DEF DefaultOf, Chars
    <2>3. copied = Gives(MeaningIn(s.p, t, v, c))
      BY <1>0, <1>5, <2>1, <2>2, InstantRead, TypesAre DEF MeaningIn
    <2>4. MeaningIn(s.p, t, v, c)[1] = "chars" => MeaningIn(s.p, t, v, c)[2] = length
      BY <1>5, <2>1, <2>2, TypesAre DEF MeaningIn
    <2> HIDE DEF copied
    <2> QED BY <2>3, <2>4, Delivered, GivesIs DEF copied
  <1>6. t \in (Ints \ {"BOOL"}) \cup {"BOOL", "FLOAT", "DOUBLE", "TIMESTAMP"} \cup VarTypes
    BY <1>0, TypesAre DEF Ints, Bits
  <1> QED BY <1>1, <1>2, <1>3, <1>4, <1>5, <1>6

\* A number as text: no more characters than the display size of its type.
LEMMA TextIsShort ==
  ASSUME NEW g \in Config, NEW s \in Sources, NEW v, Arrived(s, s.as[1], v), ~Placed(s, v),
         s.as[1] \notin VarTypes \cup {"BOOL", "TIMESTAMP"}
  PROVE  LET r == _stmt_get_data_copy(s.as[1], v, s.p, "CHAR")
         IN  /\ r.ret = "ok" /\ r.val[2] \in Int /\ r.val[2] <= _col_bind_map[s.fields[1].type].display
             /\ s.fields[1].type \in Numbers
  <1> DEFINE t == s.as[1]
             f == s.fields[1]
             e == _col_bind_map[f.type]
             r == _stmt_get_data_copy(t, v, s.p, "CHAR")
  <1> USE DEF Numbers
  <1>1. t \in Numbers /\ f.type \in Numbers
    BY SourceIs, TypesAre
  <1>2. r = Text(t, v, s.p)
    BY <1>1 DEF _stmt_get_data_copy, Chars
  <1>3. CASE t \in {"FLOAT", "DOUBLE"}
    <2>1. v[2] \in Nat
      BY <1>3 DEF Arrived
    <2>2. Text(t, v, s.p) = Gives(<<"chars", Shown(v) + 7, <<"flt", Shown(v)>>>>)
      BY <1>3, TypesAre DEF Text
    <2>3. Shown(v) \in Int /\ Shown(v) <= 6
      BY <2>1 DEF Shown, GFormat
    <2>4. f.type = t
      BY <1>3, SourceIs
    <2>5. e.display \in {14, 24}
      BY <1>3, <2>4, NumberRows DEF Row
    <2>6. r.ret = "ok" /\ r.val[2] = Shown(v) + 7
      BY <1>2, <2>2, GivesIs
    <2>7. r.val[2] \in Int /\ r.val[2] <= e.display
      BY <2>3, <2>5, <2>6
    <2> QED BY <1>1, <2>6, <2>7
  <1>4. CASE t \notin {"FLOAT", "DOUBLE"}
    <2> DEFINE n == v[3]
               sign == IF IsNegative(v) THEN 1 ELSE 0
    <2>1. t \in Ints \ {"BOOL"}
      BY <1>1, <1>4 DEF Ints, Bits
    <2>2. /\ v[2] \in {"+", "-"} /\ n \in 0..Bits[t]
          /\ t \notin SignedTypes => v[2] = "+"
          /\ s.base = "catalog" => n <= Bits[f.type]
      BY <2>1 DEF Arrived
    <2>3. /\ Bits["TINYINT"] = 7 /\ Bits["SMALLINT"] = 15 /\ Bits["INT"] = 31 /\ Bits["BIGINT"] = 63
          /\ Bits["UTINYINT"] = 8 /\ Bits["USMALLINT"] = 16 /\ Bits["UINT"] = 32 /\ Bits["UBIGINT"] = 64
      BY DEF Bits
    <2>4. Text(t, v, s.p) = Gives(<<"chars", Digits(n) + sign, v>>)
      BY <1>1, <1>4, TypesAre DEF Text
    <2>5. sign \in 0..1 /\ (t \notin SignedTypes => sign = 0)
      BY <2>2 DEF IsNegative
    <2>6. n \in Nat
      BY <1>1, <2>2, <2>3
    <2> HIDE DEF n, sign
    <2>7. Digits(n) \in Int /\ \A m \in Nat \ {0} : n <= m => Digits(n) <= (m * 30103) \div 100000 + 1
      <3>1. CASE n = 0
        BY <3>1 DEF Digits
      <3>2. CASE n # 0
        <4>1. Digits(n) = (n * 30103) \div 100000 + 1
          BY <3>2 DEF Digits
        <4> QED BY <2>6, <4>1
      <3> QED BY <3>1, <3>2
    <2>8. /\ (n <= 7 => Digits(n) <= 3)
          /\ (n <= 8 => Digits(n) <= 3)
          /\ (n <= 15 => Digits(n) <= 5)
          /\ (n <= 16 => Digits(n) <= 5)
          /\ (n <= 31 => Digits(n) <= 10)
          /\ (n <= 32 => Digits(n) <= 10)
          /\ (n <= 63 => Digits(n) <= 19)
          /\ (n <= 64 => Digits(n) <= 20)
      BY <2>7
    <2>9. Digits(n) + sign <= e.display
      <3>1. CASE s.base = "catalog"
        <4>1. \/ n <= 15 /\ f.type = "SMALLINT"
              \/ n <= 31 /\ f.type = "INT"
          <5>1. f.type \in {"SMALLINT", "INT"} /\ n <= Bits[f.type]
            BY <1>1, <2>2, <3>1, SourceIs
          <5> QED BY <2>3, <5>1
        <4>2. /\ f.type = "SMALLINT" => e.display = 6
              /\ f.type = "INT" => e.display = 11
          BY NumberRows DEF Row
        <4> QED BY <2>5, <2>7, <2>8, <4>1, <4>2
      <3>2. CASE s.base # "catalog"
        <4>1. f.type = t
          BY <3>2, SourceIs
        <4>2. /\ t = "TINYINT" => n <= 7 /\ e.display = 4
              /\ t = "SMALLINT" => n <= 15 /\ e.display = 6
              /\ t = "INT" => n <= 31 /\ e.display = 11
              /\ t = "BIGINT" => n <= 63 /\ e.display = 20
          BY <2>2, <2>3, <4>1, NumberRows DEF Row, n
        <4>3. /\ t = "UTINYINT" => n <= 8 /\ e.display = 3
              /\ t = "USMALLINT" => n <= 16 /\ e.display = 5
              /\ t = "UINT" => n <= 32 /\ e.display = 10
              /\ t = "UBIGINT" => n <= 64 /\ e.display = 20
          BY <2>2, <2>3, <4>1, RestRows DEF Row, n
        <4> HIDE DEF e, t
        <4>4. CASE t \in {"TINYINT", "SMALLINT", "INT", "BIGINT"}
          BY <2>5, <2>7, <2>8, <4>2, <4>4
        <4>5. CASE t \in {"UTINYINT", "USMALLINT", "UINT", "UBIGINT"}
          BY <2>5, <2>7, <2>8, <4>3, <4>5 DEF SignedTypes
        <4> QED BY <1>1, <1>4, <4>4, <4>5 DEF t
      <3> QED BY <3>1, <3>2
    <2>10. r.ret = "ok" /\ r.val[2] = Digits(n) + sign
      BY <1>2, <2>4, GivesIs
    <2>11. r.val[2] \in Int
      BY <2>5, <2>7, <2>10
    <2> QED BY <1>1, <2>9, <2>10, <2>11
  <1> QED BY <1>3, <1>4

-----------------------------------------------------------------------------
(* The inductive invariant: the descriptor is that of the result, the row  *)
(* is one of it, and the last answer is what the two give together.        *)

\* What a read of row r as c answers, by a result and the record of its column.
Answer(s, rec, r, c) ==
  IF s.base = "topic" /\ r.t \in TopicLacks THEN Refused
  ELSE Deliver(_stmt_get_data_copy(r.t, r.v, s.p, c), Room(rec, c))

\* A read depends on the result, its record and the row alone.
LEMMA ReadIs ==
  \A r, c : Read(r, c) = Answer(src, ird[1], r, c)
  BY DEF Read, Answer

Described(s) == IRDRecord(cfg, _stmt_time_precision(s.base, s.p), s.fields[1])

DescribeInv ==
  /\ cfg \in Config
  /\ src # NoSource => src \in Sources /\ ird[1] = Described(src)
  /\ row # NoRow => src # NoSource /\ row.t = src.as[1] /\ row.v \in Arriving(src)
  /\ ReadsColumn => /\ row # NoRow
                    /\ call.ret = Answer(src, ird[1], row, call.c).ret
                    /\ call.val = Answer(src, ird[1], row, call.c).val
  /\ call.op = "bind" =>
       src # NoSource /\ (descriptor_bind_col(call.c, Room(ird[1], call.c)) >= 0 => call.ret = "ok")

\* What is kept of a call.
LEMMA CallIs ==
  \A op, c, r : /\ Call(op, c, r).op = op /\ Call(op, c, r).c = c
                /\ Call(op, c, r).ret = r.ret /\ Call(op, c, r).val = r.val
  BY DEF Call

\* A connection has no result, no row and no answer.
LEMMA DescribeStarts == DescribeInit => DescribeInv
  BY CallIs DEF DescribeInit, DescribeInv, Config, ReadsColumn

\* One step per action.
LEMMA DescribeSteps ==
  ASSUME DescribeInv, [DescribeNext]_describe_vars
  PROVE  DescribeInv'
  <1>1. CASE UNCHANGED describe_vars
    BY <1>1 DEF describe_vars, DescribeInv, Described, ReadsColumn
  <1>2. ASSUME NEW s \in Sources, src = NoSource, Execute(s) PROVE DescribeInv'
    <2>1. cfg' = cfg /\ row' = NoRow /\ call'.op = "execute" /\ (src' # NoSource => src' = s /\ Filled(s))
      BY <1>2, CallIs DEF Execute
    <2>2. src' # NoSource => ird'[1] = Described(s)
      <3> SUFFICES ASSUME Filled(s) PROVE ird'[1] = Described(s)
        BY <2>1
      <3>1. 1 \in DOMAIN s.fields /\ ~\E b \in {i \in DOMAIN s.fields : ~OctetLengthOk(cfg, s.fields[i])} : b <= 1
        BY SourceIs DEF Filled
      <3>2. ird' = _stmt_fill_IRD(s)
        BY <1>2 DEF Execute
      <3> QED BY <3>1, <3>2 DEF _stmt_fill_IRD, Described
    <2> QED BY <2>1, <2>2 DEF DescribeInv, Described, ReadsColumn
  <1>3. ASSUME NEW c \in CTypes, SQLGetData(c) PROVE DescribeInv'
    <2>1. row # NoRow /\ UNCHANGED <<cfg, src, ird, row, ard>> /\ call' = Call("get", c, Read(row, c))
      BY <1>3 DEF SQLGetData
    <2> DEFINE a == Answer(src, ird[1], row, c)
    <2>2. call'.op = "get" /\ call'.c = c /\ call'.ret = a.ret /\ call'.val = a.val
      BY <2>1, CallIs, ReadIs
    <2> QED BY <2>1, <2>2 DEF DescribeInv, Described, ReadsColumn
  <1>4. ASSUME NEW c, SQLBindCol(c) PROVE DescribeInv'
    BY <1>4, CallIs, GivesIs DEF SQLBindCol, DescribeInv, Described, ReadsColumn
  <1>5. ASSUME src # NoSource, NEW v \in Arriving(src), _stmt_fill_col(v) PROVE DescribeInv'
    <2>1. UNCHANGED <<cfg, src, ird, ard>> /\ row' = [t |-> src.as[1], v |-> v]
      BY <1>5 DEF _stmt_fill_col
    <2>2. row'.t = src.as[1] /\ row'.v = v
      BY <2>1
    <2> DEFINE a == Answer(src, ird[1], row', ard)
    <2>3. call'.op = "fetch" /\ call'.c = ard /\ (ard # "none" => call'.ret = a.ret /\ call'.val = a.val)
      BY <1>5, CallIs, ReadIs DEF _stmt_fill_col
    <2>4. row' # NoRow
      <3>1. src.as[1] \in Types
        BY <1>5, SourceIs DEF DescribeInv
      <3>2. src.as[1] # "none"
        BY <3>1, TypesAre
      <3>3. NoRow.t = "none"
        BY DEF NoRow
      <3> QED BY <2>2, <3>2, <3>3
    <2> HIDE DEF a
    <2>5. ReadsColumn' => /\ call'.ret = Answer(src', ird'[1], row', call'.c).ret
                          /\ call'.val = Answer(src', ird'[1], row', call'.c).val
      BY <2>1, <2>3 DEF a, ReadsColumn
    <2> QED BY <1>5, <2>1, <2>2, <2>3, <2>4, <2>5 DEF DescribeInv, Described, Arriving
  <1>6. CASE Unbind
    BY <1>6, CallIs DEF Unbind, DescribeInv, ReadsColumn
  <1> QED BY <1>1, <1>2, <1>3, <1>4, <1>5, <1>6 DEF DescribeNext

\* What is known of a read: the result, the row and the sizes the application went by.
LEMMA ReadKnown ==
  ASSUME DescribeInv, ReadsColumn
  PROVE  LET f == src.fields[1]  t == src.as[1]  rec == ird[1]  length == rec.length
             a == Deliver(_stmt_get_data_copy(t, row.v, src.p, call.c), Room(rec, call.c))
         IN  /\ src \in Sources /\ row.t = t /\ Arrived(src, t, row.v) /\ cfg \in Config
             /\ ~(src.base = "topic" /\ t \in TopicLacks) => call.ret = a.ret /\ call.val = a.val
             /\ rec = Described(src) /\ _stmt_time_precision(src.base, src.p) \in 0..2
  <1>1. /\ src # NoSource /\ row.t = src.as[1] /\ row.v \in Arriving(src) /\ src \in Sources
        /\ cfg \in Config /\ ird[1] = Described(src)
        /\ call.ret = Answer(src, ird[1], row, call.c).ret /\ call.val = Answer(src, ird[1], row, call.c).val
    BY DEF DescribeInv
  <1>2. Arrived(src, src.as[1], row.v)
    BY <1>1, ArrivingIs
  <1>3. _stmt_time_precision(src.base, src.p) \in 0..2
    BY <1>1, SourceIs DEF _stmt_time_precision
  <1> QED BY <1>1, <1>2, <1>3 DEF Answer

\* A value read as it is described is whole and unchanged.
LEMMA WholeWhenDescribed ==
  ASSUME DescribeInv, ReadsColumn, call.c = DefaultC(ird[1]), ~BeforeEpoch, ~FineTopic, ~Unset,
         src.base = "topic" => row.t \notin TopicLacks
  PROVE  call.ret = "ok" /\ call.val = Meaning(row, call.c)
  <1> DEFINE f == src.fields[1]
             t == src.as[1]
             v == row.v
             c == call.c
             p == _stmt_time_precision(src.base, src.p)
             rec == IRDRecord(cfg, p, f)
  <1>1. /\ src \in Sources /\ row.t = t /\ Arrived(src, t, v) /\ cfg \in Config /\ p \in 0..2 /\ ird[1] = rec
    BY ReadKnown DEF Described
  <1>2. LET a == Deliver(_stmt_get_data_copy(t, v, src.p, c), Room(rec, c))
        IN  call.ret = a.ret /\ call.val = a.val
    BY <1>1, ReadKnown
  <1>3. Room(rec, c) = rec.length
    BY <1>1 DEF Room, stmt_describe_col, IRDRecord
  <1>4. f.type \in Types /\ f.bytes \in Nat /\ (t \in VarTypes \cup {"TIMESTAMP"} => f.type = t)
    BY <1>1, SourceIs, TypesAre
  <1>5. c = DefaultOf(cfg, f.type)
    <2>1. DefaultC(rec) = DefaultOf(cfg, f.type)
      BY <1>1, <1>4, DefaultIs
    <2> QED BY <1>1, <2>1
  <1>6. /\ f.type = "TIMESTAMP" => rec.length = TextOfTimestamp(p)
        /\ f.type \in VarTypes => rec.length = f.bytes
        /\ rec.length \in Int
    BY <1>1, <1>4, SizesAre
  <1>7. t = "TIMESTAMP" => v[2] \in Nat /\ v[3] \in Nat /\ p = src.p
    <2> SUFFICES ASSUME t = "TIMESTAMP" PROVE v[2] \in Nat /\ v[3] \in Nat /\ p = src.p
      OBVIOUS
    <2>1. v[2] \in Int /\ v[3] \in Int
      BY <1>1 DEF Arrived
    <2>2. ~(v[2] < 0 \/ v[3] < 0)
      BY <1>1 DEF BeforeEpoch
    <2>3. src.base # "catalog" /\ src.p \in 0..2 /\ src.base \in {"tsdb", "topic", "catalog"}
      BY <1>1, SourceIs, TypesAre
    <2>4. src.base = "topic" => src.p = 0
      BY <1>1, <2>3 DEF FineTopic
    <2> QED BY <2>1, <2>2, <2>3, <2>4 DEF _stmt_time_precision
  <1>8. Deliver(_stmt_get_data_copy(t, v, src.p, c), rec.length) = Gives(MeaningIn(src.p, t, v, c))
    <2> HIDE DEF f, t, v, c, p, rec
    <2>1. /\ t = "TIMESTAMP" => v[2] \in Nat /\ v[3] \in Nat /\ rec.length = TextOfTimestamp(src.p)
          /\ t \in VarTypes => rec.length = f.bytes
      BY <1>4, <1>6, <1>7
    <2>2. Arrived(src, t, v) /\ c = DefaultOf(cfg, f.type) /\ rec.length \in Int /\ src \in Sources /\ cfg \in Config
      BY <1>1, <1>5, <1>6
    <2>3. LET w == src.as[1]  n == rec.length
          IN  /\ w = "TIMESTAMP" => v[2] \in Nat /\ v[3] \in Nat /\ n = TextOfTimestamp(src.p)
              /\ w \in VarTypes => n = src.fields[1].bytes
              /\ Arrived(src, w, v) /\ ~Placed(src, v) /\ c = DefaultOf(cfg, src.fields[1].type)
      BY <2>1, <2>2 DEF t, f, v, Unset, Placed
    <2>4. Deliver(_stmt_get_data_copy(src.as[1], v, src.p, c), rec.length) = Gives(MeaningIn(src.p, src.as[1], v, c))
      BY <2>2, <2>3, ReadWhole
    <2> QED BY <2>4 DEF t
  <1>9. Meaning(row, c) = MeaningIn(src.p, t, v, c)
    BY <1>1 DEF Meaning, MeaningIn
  <1> HIDE DEF f, t, v, p, rec
  <1> QED BY <1>2, <1>3, <1>8, <1>9, GivesIs

\* With unsigned_promotion the signed C type has room for an unsigned value too.
LEMMA WholeWhenPromoted ==
  ASSUME DescribeInv, ReadsColumn, cfg.unsigned_promotion, call.c = SignedC(ird[1]), row.t \in {"USMALLINT", "UINT"}
  PROVE  call.ret = "ok" /\ call.val = row.v
  <1> DEFINE f == src.fields[1]
             t == src.as[1]
             v == row.v
             c == call.c
             p == _stmt_time_precision(src.base, src.p)
             rec == IRDRecord(cfg, p, f)
             room == Room(rec, c)
  <1>1. /\ src \in Sources /\ row.t = t /\ Arrived(src, t, v) /\ cfg \in Config /\ p \in 0..2 /\ ird[1] = rec
    BY ReadKnown DEF Described
  <1>2. f.type = t /\ t \in Types /\ f.type \in Types /\ f.bytes \in Nat /\ ~Placed(src, v)
    BY <1>1, SourceIs, TypesAre DEF Placed
  <1>3. LET a == Deliver(_stmt_get_data_copy(t, v, src.p, c), room)
        IN  call.ret = a.ret /\ call.val = a.val
    BY <1>1, ReadKnown DEF TopicLacks
  <1>4. c = IF t = "UINT" THEN "SBIGINT" ELSE "SLONG"
    <2>1. SignedC(rec) = IF f.type = "UINT" THEN "SBIGINT" ELSE "SLONG"
      BY <1>1, <1>2, DefaultIs
    <2> QED BY <1>1, <1>2, <2>1
  <1>5. t \in Ints \ {"BOOL"}
    BY <1>1 DEF Ints, Bits
  <1> HIDE DEF f, p, rec, room, c, v, t
  <1>6. c \in DOMAIN Integral /\ Takes(Integral[c], v)
    BY <1>1, <1>2, <1>4, <1>5, IntTaken DEF t
  <1>7. v = <<"int", v[2], v[3]>> /\ v[2] \in {"+", "-"} /\ v[3] \in 0..Bits[t]
    BY <1>1, <1>5 DEF Arrived
  <1>8. v[3] \in Nat /\ v[1] = "int"
    <2>1. v[1] = <<"int", v[2], v[3]>>[1]
      BY <1>7
    <2> QED BY <1>7, <2>1
  <1>9. _stmt_get_data_copy(t, v, src.p, c) = Gives(v)
    BY <1>5, <1>6, <1>7, <1>8, IntRead
  <1>10. Deliver(Gives(v), room) = Gives(v)
    BY <1>8, GivesIs DEF Deliver
  <1> QED BY <1>3, <1>9, <1>10, GivesIs DEF v, c

\* The C type that the description calls for can be bound.
LEMMA BoundWhenDescribed ==
  ASSUME DescribeInv, call.op = "bind", call.c = DefaultC(ird[1]), call.c # "TYPE_TIMESTAMP"
  PROVE  call.ret = "ok"
  <1> DEFINE f == src.fields[1]
             c == call.c
             p == _stmt_time_precision(src.base, src.p)
             rec == IRDRecord(cfg, p, f)
  <1>1. /\ src \in Sources /\ cfg \in Config /\ ird[1] = rec
        /\ descriptor_bind_col(c, Room(rec, c)) >= 0 => call.ret = "ok"
    BY DEF DescribeInv, Described
  <1>2. f.type \in Types /\ f.bytes \in Nat /\ p \in 0..2
    BY <1>1, SourceIs DEF _stmt_time_precision
  <1>3. c = DefaultOf(cfg, f.type)
    <2>1. DefaultC(rec) = DefaultOf(cfg, f.type)
      BY <1>1, <1>2, DefaultIs
    <2> QED BY <1>1, <2>1
  <1>4. Room(rec, c) = rec.length
    BY <1>1 DEF Room, stmt_describe_col, IRDRecord
  <1>5. /\ f.type = "TIMESTAMP" => rec.length = TextOfTimestamp(p)
        /\ f.type \in VarTypes => rec.length = f.bytes
    BY <1>1, <1>2, SizesAre
  <1> HIDE DEF f, p, rec, c
  <1>6. f.type \in VarTypes \cup {"TIMESTAMP"} => rec.length >= 0
    BY <1>2, <1>5, TypesAre DEF TextOfTimestamp
  <1>7. c # "TYPE_TIMESTAMP"
    BY DEF c
  <1>8. \/ c \in DOMAIN Integral
        \/ c \in {"BIT", "FLOAT", "DOUBLE"}
        \/ c \in Chars /\ f.type \in VarTypes \cup {"TIMESTAMP"}
    <2>1. CASE f.type \in {"BOOL", "TINYINT", "SMALLINT", "INT", "BIGINT", "FLOAT", "DOUBLE"}
      BY <1>3, <2>1, IntegralIs DEF DefaultOf
    <2>2. CASE f.type \in {"UTINYINT", "USMALLINT", "UINT", "UBIGINT"}
      BY <1>3, <2>2, IntegralIs DEF DefaultOf
    <2>3. CASE f.type \in VarTypes \cup {"TIMESTAMP"}
      BY <1>3, <1>7, <2>3, TypesAre DEF DefaultOf, Chars
    <2> QED BY <1>2, <2>1, <2>2, <2>3, TypesAre
  <1>9. descriptor_bind_col(c, rec.length) >= 0
    <2>1. CASE c \in DOMAIN Integral
      <3>1. Integral[c].bits \div 8 >= 0
        BY <2>1, IntegralIs
      <3> QED BY <2>1, <3>1, IntegralIs DEF descriptor_bind_col, Chars
    <2>2. CASE c \in {"BIT", "FLOAT", "DOUBLE"}
      BY <2>2, IntegralIs DEF descriptor_bind_col, Chars
    <2>3. CASE c \in Chars /\ f.type \in VarTypes \cup {"TIMESTAMP"}
      BY <1>6, <2>3, IntegralIs DEF descriptor_bind_col, Chars
    <2> QED BY <1>8, <2>1, <2>2, <2>3
  <1> QED BY <1>1, <1>4, <1>9

\* A number read as text is not cut at the display size.
LEMMA TextWithinDisplay ==
  ASSUME DescribeInv, ReadsColumn, call.c = "CHAR", ~Unset, row.t \notin VarTypes \cup {"BOOL", "TIMESTAMP"}
  PROVE  call.ret = "ok"
  <1> DEFINE f == src.fields[1]
             t == src.as[1]
             v == row.v
             p == _stmt_time_precision(src.base, src.p)
             rec == IRDRecord(cfg, p, f)
             r == _stmt_get_data_copy(t, v, src.p, "CHAR")
  <1> USE DEF Numbers
  <1>1. /\ src \in Sources /\ row.t = t /\ Arrived(src, t, v) /\ cfg \in Config /\ p \in 0..2 /\ ird[1] = rec
    BY ReadKnown DEF Described
  <1>2. f.type \in Types /\ f.bytes \in Nat
    BY <1>1, SourceIs
  <1>3. call.ret = Deliver(r, Room(rec, "CHAR")).ret
    BY <1>1, ReadKnown, TypesAre DEF TopicLacks
  <1>4. r.ret = "ok" /\ r.val[2] \in Int /\ r.val[2] <= _col_bind_map[f.type].display /\ f.type \in Numbers
    BY <1>1, TextIsShort DEF Unset, Placed
  <1>5. DefaultC(rec) # "CHAR"
    <2>1. DefaultC(rec) = DefaultOf(cfg, f.type)
      BY <1>1, <1>2, DefaultIs
    <2>2. DefaultOf(cfg, f.type) # "CHAR"
      BY <1>4 DEF DefaultOf
    <2> QED BY <2>1, <2>2
  <1>6. Room(rec, "CHAR") = rec.display
    BY <1>5 DEF Room, stmt_col_attribute
  <1>7. rec.display = _col_bind_map[f.type].display /\ rec.display \in Int
    BY <1>1, <1>2, <1>4, SizesAre
  <1> HIDE DEF f, t, v, p, rec, r
  <1>8. Deliver(r, rec.display) = r
    BY <1>4, <1>7, Delivered
  <1> QED BY <1>3, <1>4, <1>6, <1>8

\* Every reachable state: the descriptor is the result's, and what was read is what the two give.
THEOREM DescribeInvariance == DescribeSpec => []DescribeInv
  <1>1. DescribeInv /\ [DescribeNext]_describe_vars => DescribeInv'
    BY DescribeSteps
  <1> QED BY <1>1, DescribeStarts, PTL DEF DescribeSpec

\* An application that allocates and binds what SQLDescribeCol and SQLColAttribute tell it
\* of a column reads its values whole and unchanged: any value that fits the type its column
\* is described as, of a table or of the catalog.  Exempt, as FetchedAsDescribed names them,
\* are instants before the epoch, a topic's finer instants, the types a topic lacks, and the
\* NULL_FIELD that SQLGetTypeInfo answers as a number in AUTO_UNIQUE_VALUE.
THEOREM DescribedIsRead == DescribeSpec => []FetchedAsDescribed
  <1>1. DescribeInv => FetchedAsDescribed
    BY WholeWhenDescribed, WholeWhenPromoted, BoundWhenDescribed DEF FetchedAsDescribed
  <1> QED BY <1>1, DescribeInvariance, PTL

\* A number read as text fits the display size that was told: any number but the NULL_FIELD of
\* AUTO_UNIQUE_VALUE, which is longer than a SMALLINT.
THEOREM DisplaySuffices == DescribeSpec => []TextFitsDisplay
  <1>1. DescribeInv => TextFitsDisplay
    BY TextWithinDisplay DEF TextFitsDisplay
  <1> QED BY <1>1, DescribeInvariance, PTL
===============================================================================
