------------------------------- MODULE Describe -------------------------------
(***************************************************************************)
(* An application that does what ODBC tells it to do: it asks what a       *)
(* column of its result is (SQLDescribeCol, SQLColAttribute), allocates    *)
(* and binds for that, and reads the value.  The descriptor is filled from *)
(* one table of the driver when the result comes, the value is converted   *)
(* by other code when it is read; between the two the application has only *)
(* the descriptor to go by.                                                *)
(***************************************************************************)
EXTENDS ColumnMeta

CONSTANTS Values,     \* type -> values of that type
          Sources     \* what can be described: [base, p, fields, as, raw]

\* What a column of a type can hold.  The bits of an integer are without its sign.
Bits == [BOOL |-> 1, TINYINT |-> 7, SMALLINT |-> 15, INT |-> 31, BIGINT |-> 63,
         UTINYINT |-> 8, USMALLINT |-> 16, UINT |-> 32, UBIGINT |-> 64]
SignedTypes == {"TINYINT", "SMALLINT", "INT", "BIGINT"}
Storable(t) ==
  CASE t \in SignedTypes -> {"int"} \X {"+", "-"} \X (0..Bits[t])
    [] t \in DOMAIN Bits \ SignedTypes -> {"int"} \X {"+"} \X (0..Bits[t])
    [] t = "FLOAT"       -> {"flt"} \X (1..9)
    [] t = "DOUBLE"      -> {"flt"} \X (1..17)
    [] t = "TIMESTAMP"   -> {"ts"} \X Int \X Int
    [] t \in VarTypes    -> {"text"} \X Nat

\* what stands for NULL in the records of SQLGetTypeInfo: INT64_MIN
NULL_FIELD == <<"int", "-", 63>>

\* base is where the result comes from, p its precision, as[i] the type in which the
\* values of fields[i] arrive (the catalog sources answer integers as longer ones), raw
\* whether a NULL_FIELD is handed out as the number it is: AUTO_UNIQUE_VALUE only, every
\* other field that may be NULL_FIELD is compared with it and answered as NULL.
ASSUME DescribeAssumption ==
  /\ \A t \in Types : Values[t] # {} /\ Values[t] \subseteq Storable(t)
  /\ \A s \in Sources :
       /\ s.base \in {"tsdb", "topic", "catalog"} /\ s.p \in 0..2
       /\ s.raw \in BOOLEAN /\ (s.raw => s.base = "catalog" /\ s.fields[1].type = "SMALLINT" /\ s.as[1] = "BIGINT")
       /\ Len(s.as) = Len(s.fields) /\ s.fields # <<>> /\ s.fields \in Seq([type : Types, bytes : Nat])
       /\ \A i \in DOMAIN s.fields :
            IF s.base # "catalog" THEN s.as[i] = s.fields[i].type
            ELSE /\ s.fields[i].type \in {"VARCHAR", "SMALLINT", "INT"}
                 /\ s.as[i] = s.fields[i].type \/ (s.fields[i].type # "VARCHAR" /\ s.as[i] \in {"INT", "BIGINT"})

\* The values of column 1 that come: no text is longer than its field, no fraction of a
\* second as long as a second, and an integer of a catalog, NULL_FIELD aside, fits the
\* type it is described as, though it comes in a longer one.
Arriving(s) ==
  {v \in Values[s.as[1]] :
     /\ v[1] = "text" => v[2] <= s.fields[1].bytes
     /\ v[1] = "ts" => -Unit(s.p) < v[3] /\ v[3] < Unit(s.p)
     /\ s.base = "catalog" /\ v[1] = "int" => v[3] <= Bits[s.fields[1].type] \/ (s.raw /\ v = NULL_FIELD)}

VARIABLES
  cfg,   \* conn->cfg
  src,   \* the result of the statement, NoSource without one
  ird,   \* records of the IRD
  row,   \* the value of column 1 of the current row
  ard,   \* how column 1 is bound: the C type, "none" if it is not
  call   \* what the last call answered
describe_vars == <<cfg, src, ird, row, ard, call>>

NoSource == [base |-> "none", p |-> 0, fields |-> <<>>, as |-> <<>>, raw |-> FALSE]
NoRow    == [t |-> "none", v |-> Nothing]
Call(op, c, r) == [op |-> op, c |-> c, ret |-> r.ret, val |-> r.val]

DescribeInit ==
  /\ cfg \in [timestamp_as_is : BOOLEAN, unsigned_promotion : BOOLEAN]
  /\ src = NoSource /\ ird = <<>> /\ row = NoRow /\ ard = "none"
  /\ call = Call("connect", "none", Gives(Nothing))

\* the records up to the first column that fails; those behind it stay as they were
_stmt_fill_IRD(s) ==
  LET p   == _stmt_time_precision(s.base, s.p)
      bad == {i \in DOMAIN s.fields : ~OctetLengthOk(cfg, s.fields[i])}
      old(i) == IF i \in DOMAIN ird THEN ird[i] ELSE [tsdb_type |-> "none"]
  IN  [i \in DOMAIN s.fields |->
         IF \E b \in bad : b <= i THEN old(i) ELSE IRDRecord(cfg, p, s.fields[i])]
Filled(s) == \A i \in DOMAIN s.fields : OctetLengthOk(cfg, s.fields[i])

Execute(s) ==
  /\ ird' = _stmt_fill_IRD(s)
  /\ src' = IF Filled(s) THEN s ELSE NoSource
  /\ call' = Call("execute", "none", IF Filled(s) THEN Gives(Nothing) ELSE Refused)
  /\ row' = NoRow
  /\ UNCHANGED <<cfg, ard>>

(***************************************************************************)
(* What the application is told, and ODBC's default C type for it.         *)
(***************************************************************************)
stmt_describe_col(rec) == [DataType |-> rec.concise, ColumnSize |-> rec.length, DecimalDigits |-> rec.scale]
stmt_col_attribute(rec, field) == rec[field]

Either(unsigned, u, s) == IF unsigned THEN u ELSE s
DefaultC(rec) ==
  LET type == stmt_describe_col(rec).DataType
      u    == stmt_col_attribute(rec, "unsigned")
  IN  CASE type = "TINYINT"  -> Either(u, "UTINYINT", "STINYINT")
        [] type = "SMALLINT" -> Either(u, "USHORT", "SSHORT")
        [] type = "INTEGER"  -> Either(u, "ULONG", "SLONG")
        [] type = "BIGINT"   -> Either(u, "UBIGINT", "SBIGINT")
        [] type = "REAL"     -> "FLOAT"
        [] type = "VARCHAR"  -> "CHAR"
        [] type = "WVARCHAR" -> "WCHAR"
        [] type \in {"VARBINARY", "BINARY"} -> "BINARY"
        [] OTHER             -> type
SignedC(rec) == DefaultC([rec EXCEPT !.unsigned = FALSE])

\* the buffer: the column's size for its own type, the display size for a text of another
Room(rec, c) == IF c = DefaultC(rec) THEN stmt_describe_col(rec).ColumnSize
                ELSE stmt_col_attribute(rec, "display")

Deliver(r, room) ==
  IF r.ret = "ok" /\ r.val[1] = "chars" /\ r.val[2] > room THEN [ret |-> "info", val |-> Nothing] ELSE r

\* topic.c does not hand out values of these types
TopicLacks == {"JSON", "VARBINARY", "GEOMETRY"}
Read(r, c) ==
  IF src.base = "topic" /\ r.t \in TopicLacks THEN Refused
  ELSE Deliver(_stmt_get_data_copy(r.t, r.v, src.p, c), Room(ird[1], c))

SQLBindCol(c) ==
  /\ src # NoSource
  /\ LET ok == descriptor_bind_col(c, Room(ird[1], c)) >= 0
     IN  /\ ard' = IF ok THEN c ELSE "none"
         /\ call' = Call("bind", c, IF ok THEN Gives(Nothing) ELSE Refused)
  /\ UNCHANGED <<cfg, src, ird, row>>

\* the next row arrives, and is copied to where it is bound
_stmt_fill_col(v) ==
  /\ src # NoSource
  /\ row' = [t |-> src.as[1], v |-> v]
  /\ call' = Call("fetch", ard, IF ard = "none" THEN Gives(Nothing) ELSE Read(row', ard))
  /\ UNCHANGED <<cfg, src, ird, ard>>

SQLGetData(c) ==
  /\ row # NoRow
  /\ call' = Call("get", c, Read(row, c))
  /\ UNCHANGED <<cfg, src, ird, row, ard>>

\* bindings are for the result they were made for
Unbind ==
  /\ src # NoSource /\ src' = NoSource /\ ard' = "none" /\ row' = NoRow
  /\ call' = Call("close", "none", Gives(Nothing))
  /\ UNCHANGED <<cfg, ird>>

\* the C types an application binds: the one it is told, its signed form, a text
Asked == IF src = NoSource THEN {} ELSE {DefaultC(ird[1]), SignedC(ird[1]), "CHAR"}

Alive == call.ret # "abort"
DescribeNext == /\ Alive
        /\ \/ \E s \in Sources : src = NoSource /\ Execute(s)
           \/ \E c \in CTypes : SQLGetData(c)
           \/ \E c \in Asked : SQLBindCol(c)
           \/ \E v \in IF src = NoSource THEN {} ELSE Arriving(src) : _stmt_fill_col(v)
           \/ Unbind
DescribeSpec == DescribeInit /\ [][DescribeNext]_describe_vars

(***************************************************************************)
(* Properties.                                                             *)
(***************************************************************************)
\* What a value is, independently of how it is handed out.
Instant(v, p) == <<v[2], v[3] * 10^(2 - p)>>
Meaning(r, c) ==
  CASE r.t = "TIMESTAMP" /\ c \in Chars    -> <<"chars", TextOfTimestamp(src.p), Instant(r.v, src.p)>>
    [] r.t = "TIMESTAMP" /\ c \notin Chars -> <<"struct", Instant(r.v, src.p)[1], Instant(r.v, src.p)[2]>>
    [] r.t \in VarTypes                    -> <<"chars", r.v[2], r.v>>
    [] OTHER                               -> r.v

ReadsColumn == call.op \in {"get", "fetch"} /\ call.c # "none"
BeforeEpoch == row.t = "TIMESTAMP" /\ (row.v[2] < 0 \/ row.v[3] < 0)
\* A topic's timestamps are described as milliseconds, whatever they are
\* (_stmt_time_precision knows tsdb_stmt only): a finer one is cut.
FineTopic   == src.base = "topic" /\ src.p > 0 /\ row.t = "TIMESTAMP"

\* AUTO_UNIQUE_VALUE of a type without one: INT64_MIN in a column described as SMALLINT.
Unset       == src.raw /\ row.v = NULL_FIELD

\* Whatever the type, flags and source: the C type and the buffer size that the
\* description calls for can be bound, and bring the value whole and unchanged; with
\* unsigned_promotion, so does the signed one (but for TINYINT UNSIGNED, which is not
\* promoted, and BIGINT UNSIGNED).  Exempt are an instant before the epoch, the finer
\* instants of a topic, the types a topic lacks, and the unset AUTO_UNIQUE_VALUE of
\* SQLGetTypeInfo, which a SQL_C_SSHORT reads as 0 with SQL_SUCCESS.
FetchedAsDescribed ==
  /\ (ReadsColumn /\ call.c = DefaultC(ird[1]) /\ ~BeforeEpoch /\ ~FineTopic /\ ~Unset
      /\ (src.base = "topic" => row.t \notin TopicLacks))
     => call.ret = "ok" /\ call.val = Meaning(row, call.c)
  /\ (ReadsColumn /\ cfg.unsigned_promotion /\ call.c = SignedC(ird[1]) /\ row.t \in {"USMALLINT", "UINT"})
     => call.ret = "ok" /\ call.val = row.v
  /\ (call.op = "bind" /\ call.c = DefaultC(ird[1]) /\ call.c # "TYPE_TIMESTAMP") => call.ret = "ok"

\* A number read as text needs no more than the display size that was told.  (Not so a
\* BOOL, whose display size is 1, a TIMESTAMP kept as such, 8, nor the unset
\* AUTO_UNIQUE_VALUE, whose 20 characters are cut to the 6 of a SMALLINT.)
TextFitsDisplay ==
  (ReadsColumn /\ call.c = "CHAR" /\ ~Unset /\ row.t \notin VarTypes \cup {"BOOL", "TIMESTAMP"}) => call.ret = "ok"
=============================================================================
