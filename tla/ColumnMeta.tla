------------------------------ MODULE ColumnMeta ------------------------------
(***************************************************************************)
(* What the driver says of a column and what it makes of a value: the      *)
(* table behind the implementation row descriptor (stmt.c:811), the        *)
(* conversions behind SQLGetData and bound columns (stmt.c:1778-3094) and  *)
(* the split of a timestamp (tsdb.c).  Constant operators only.            *)
(*                                                                         *)
(* Of an integer only the edges of the types matter: <<"int", "+", n>> is  *)
(* 2^n - 1 and <<"int", "-", n>> is -2^n.  A floating value is counted by  *)
(* its significant digits, a text by its characters, a timestamp is        *)
(* <<"ts", seconds, rest>> in units of its precision, of which one second  *)
(* has 10, 100 or 1000 (one digit of the model stands for three).          *)
(***************************************************************************)
EXTENDS Integers, Sequences, TLC

Entry(sql, promoted, length, octet, precision, display, radix, unsigned) ==
  [sql |-> sql, promoted |-> promoted, length |-> length, octet |-> octet,
   precision |-> precision, display |-> display, radix |-> radix, unsigned |-> unsigned]

_col_bind_map_numbers ==
  [TIMESTAMP |-> Entry("TYPE_TIMESTAMP", "TYPE_TIMESTAMP", 0, 8, 0, 8, 10, TRUE),
   BOOL      |-> Entry("BIT",      "BIT",       1, 1,  1,  1, 10, TRUE),
   TINYINT   |-> Entry("TINYINT",  "SMALLINT",  3, 1,  3,  4, 10, FALSE),
   SMALLINT  |-> Entry("SMALLINT", "SMALLINT",  5, 2,  5,  6, 10, FALSE),
   INT       |-> Entry("INTEGER",  "INTEGER",  10, 4, 10, 11, 10, FALSE),
   BIGINT    |-> Entry("BIGINT",   "BIGINT",   19, 8, 19, 20, 10, FALSE),
   FLOAT     |-> Entry("REAL",     "REAL",      7, 4, 24, 14, 2, FALSE),
   DOUBLE    |-> Entry("DOUBLE",   "DOUBLE",   15, 8, 53, 24, 2, FALSE)]

_col_bind_map_rest ==
  [VARCHAR   |-> Entry("VARCHAR",  "VARCHAR",  -1, -1, -1, -1, 10, TRUE),
   NCHAR     |-> Entry("WVARCHAR", "WVARCHAR", -1, -2, -1, -2, 10, TRUE),
   JSON      |-> Entry("WVARCHAR", "WVARCHAR", -1, -2, -1, -2, 10, TRUE),
   UTINYINT  |-> Entry("TINYINT",  "TINYINT",   3, 1,  3,  3, 10, TRUE),
   USMALLINT |-> Entry("SMALLINT", "INTEGER",   5, 2,  5,  5, 10, TRUE),
   UINT      |-> Entry("INTEGER",  "BIGINT",   10, 4, 10, 10, 10, TRUE),
   UBIGINT   |-> Entry("BIGINT",   "BIGINT",   20, 8, 20, 20, 10, TRUE),
   VARBINARY |-> Entry("VARBINARY", "BINARY",  -1, -1, -1, -1, 10, TRUE),
   GEOMETRY  |-> Entry("VARBINARY", "BINARY",  -1, -1, -1, -1, 10, TRUE)]

Both(f, g) == [t \in DOMAIN f \cup DOMAIN g |-> IF t \in DOMAIN f THEN f[t] ELSE g[t]]

\* Mutant: the display size of the 64-bit integer has no place for the sign.
_col_bind_map_Unsigned == Both([_col_bind_map_numbers EXCEPT !.BIGINT.display = 19], _col_bind_map_rest)
_col_bind_map == Both(_col_bind_map_numbers, _col_bind_map_rest)
Types  == DOMAIN _col_bind_map
VarTypes == {t \in Types : _col_bind_map[t].octet < 0}

(***************************************************************************)
(* One record of the IRD.  cfg holds the flags of the connection string,   *)
(* p the precision the statement knows.                                    *)
(***************************************************************************)
_stmt_time_precision(base, p) == IF base = "tsdb" THEN p ELSE 0

TextOfTimestamp(p) == 20 + (p + 1) * 3
AsText(cfg, t)  == t = "TIMESTAMP" /\ ~cfg.timestamp_as_is
Scaled(entry, bytes) == IF entry < 0 THEN -entry * bytes ELSE entry

_stmt_col_DESC_CONCISE_TYPE(cfg, t) ==
  IF AsText(cfg, t) THEN "WVARCHAR"
  ELSE IF cfg.unsigned_promotion THEN _col_bind_map[t].promoted
  ELSE _col_bind_map[t].sql

_stmt_col_DESC_TYPE(cfg, t) ==
  IF t = "TIMESTAMP" /\ cfg.timestamp_as_is THEN "DATETIME" ELSE _stmt_col_DESC_CONCISE_TYPE(cfg, t)

_stmt_col_DESC_OCTET_LENGTH(cfg, p, f) ==
  IF AsText(cfg, f.type) THEN 2 * TextOfTimestamp(p)
  ELSE Scaled(_col_bind_map[f.type].octet, f.bytes)
OctetLengthOk(cfg, f) ==
  AsText(cfg, f.type) \/ f.type \in VarTypes \/ _col_bind_map[f.type].octet = f.bytes

_stmt_col_DESC_PRECISION(cfg, p, f) ==
  IF AsText(cfg, f.type) THEN TextOfTimestamp(p)
  ELSE IF f.type = "TIMESTAMP" THEN (p + 1) * 3
  ELSE Scaled(_col_bind_map[f.type].precision, f.bytes)

_stmt_col_DESC_SCALE(cfg, p, f) ==
  IF f.type = "TIMESTAMP" /\ cfg.timestamp_as_is THEN (p + 1) * 3 ELSE 0

_stmt_col_DESC_DISPLAY_SIZE(cfg, p, f) ==
  IF AsText(cfg, f.type) THEN TextOfTimestamp(p)
  ELSE Scaled(_col_bind_map[f.type].display, f.bytes)

_stmt_col_DESC_LENGTH(p, f) ==
  IF f.type = "TIMESTAMP" THEN TextOfTimestamp(p)
  ELSE Scaled(_col_bind_map[f.type].length, f.bytes)

_stmt_col_DESC_TYPE_NAME(cfg, t) == IF AsText(cfg, t) THEN "NCHAR" ELSE t

IRDRecord(cfg, p, f) ==
  [tsdb_type |-> f.type,
   concise   |-> _stmt_col_DESC_CONCISE_TYPE(cfg, f.type),
   type      |-> _stmt_col_DESC_TYPE(cfg, f.type),
   type_name |-> _stmt_col_DESC_TYPE_NAME(cfg, f.type),
   length    |-> _stmt_col_DESC_LENGTH(p, f),
   octet     |-> _stmt_col_DESC_OCTET_LENGTH(cfg, p, f),
   precision |-> _stmt_col_DESC_PRECISION(cfg, p, f),
   scale     |-> _stmt_col_DESC_SCALE(cfg, p, f),
   display   |-> _stmt_col_DESC_DISPLAY_SIZE(cfg, p, f),
   radix     |-> _col_bind_map[f.type].radix,
   unsigned  |-> _col_bind_map[f.type].unsigned]

(***************************************************************************)
(* C types.                                                                *)
(***************************************************************************)
CInt(bits, signed) == [bits |-> bits, signed |-> signed]
Integral ==
  [STINYINT |-> CInt(8, TRUE),  TINYINT |-> CInt(8, TRUE), UTINYINT |-> CInt(8, FALSE),
   SSHORT   |-> CInt(16, TRUE), SHORT  |-> CInt(16, TRUE), USHORT   |-> CInt(16, FALSE),
   SLONG    |-> CInt(32, TRUE), LONG   |-> CInt(32, TRUE), ULONG    |-> CInt(32, FALSE),
   SBIGINT  |-> CInt(64, TRUE), UBIGINT |-> CInt(64, FALSE)]
Chars  == {"CHAR", "WCHAR", "BINARY"}
CTypes == DOMAIN Integral \cup Chars \cup {"BIT", "FLOAT", "DOUBLE", "TYPE_TIMESTAMP"}

\* descriptor_bind_col: what may be bound, and the stride of its rowset
descriptor_bind_col(c, len) ==
  CASE c \in DOMAIN Integral -> Integral[c].bits \div 8
    [] c = "BIT"     -> 1
    [] c = "FLOAT"   -> 4
    [] c = "DOUBLE"  -> 8
    [] c \in Chars   -> len
    [] OTHER         -> -1   \* refused

(***************************************************************************)
(* Conversions.  Each answers [ret, val]: ok, error, or the process gone.  *)
(***************************************************************************)
Gives(v) == [ret |-> "ok", val |-> v]
Nothing  == <<"none">>
Refused  == [ret |-> "error", val |-> Nothing]
Aborts   == [ret |-> "abort", val |-> Nothing]

IsNegative(v) == v[2] = "-"

\* the cast to an integer of b bits
Cast(v, b) ==
  LET n == v[3]
      m == IF b.signed THEN b.bits - 1 ELSE b.bits
  IN  CASE IsNegative(v) /\ n >= b.bits      -> <<"int", "+", 0>>
        [] IsNegative(v) /\ n < b.bits /\ ~b.signed -> <<"wrapped", "-", n>>
        [] ~IsNegative(v) /\ n > m /\ b.signed -> <<"int", "-", 0>>
        [] ~IsNegative(v) /\ n > m           -> <<"int", "+", m>>
        [] OTHER                             -> v

Truth(v) == Gives(<<"int", "+", IF v[3] = 0 /\ ~IsNegative(v) THEN 0 ELSE 1>>)

\* C's division and remainder truncate towards zero
Unit(p)     == 10^(p + 1)
Quot(a, b)  == IF a < 0 THEN -((-a) \div b) ELSE a \div b
Rem(a, b)   == a - b * Quot(a, b)

_tsdb_timestamp_to_tm_local(val, p) ==
  [tt |-> Quot(val, Unit(p)), fraction |-> Rem(val, Unit(p))]

\* OA_NIY(0): not implemented yet
Unsplittable(tm) == tm.tt <= 0 /\ tm.fraction < 0

Count(v, p) == v[2] * Unit(p) + v[3]

\* Mutant: microseconds are scaled as milliseconds are.
tsdb_timestamp_to_SQL_C_TYPE_TIMESTAMP_Coarse(val, p) ==
  LET tm == _tsdb_timestamp_to_tm_local(val, p)
  IN  IF Unsplittable(tm) THEN Aborts
      ELSE Gives(<<"struct", tm.tt, tm.fraction * IF p = 2 THEN 1 ELSE 100>>)

tsdb_timestamp_to_SQL_C_TYPE_TIMESTAMP(val, p) ==
  LET tm == _tsdb_timestamp_to_tm_local(val, p)
  IN  IF Unsplittable(tm) THEN Aborts
      ELSE Gives(<<"struct", tm.tt, tm.fraction * 10^(2 - p)>>)

tsdb_timestamp_to_string(val, p) ==
  LET tm == _tsdb_timestamp_to_tm_local(val, p)
  IN  IF Unsplittable(tm) THEN Aborts
      ELSE Gives(<<"chars", 20 + 3 * (p + 1), <<tm.tt, tm.fraction * 10^(2 - p)>>>>)

\* decimal digits of 2^n - 1 (n <= 64), and of 2^n, which has as many
Digits(n) == IF n = 0 THEN 1 ELSE (n * 30103) \div 100000 + 1
GFormat   == 6   \* %g: significant digits
Shown(v)  == IF v[2] > GFormat THEN GFormat ELSE v[2]

\* _stmt_get_data_prepare_ctx: the text a value is handed out as
Text(t, v, p) ==
  CASE t = "BOOL"       -> Gives(<<"chars", IF v[3] = 0 THEN 5 ELSE 4, v>>)
    [] t = "TIMESTAMP"  -> tsdb_timestamp_to_string(Count(v, p), p)
    [] t \in {"FLOAT", "DOUBLE"} -> Gives(<<"chars", Shown(v) + 7, <<"flt", Shown(v)>>>>)  \* -d.dddddde+ddd
    [] t \in VarTypes   -> Gives(<<"chars", v[2], v>>)
    [] OTHER            -> Gives(<<"chars", Digits(v[3]) + IF IsNegative(v) THEN 1 ELSE 0, v>>)

Plain == {"BIT", "STINYINT", "UTINYINT", "SSHORT", "USHORT", "SLONG", "ULONG", "SBIGINT", "UBIGINT"}

\* the instant is taken for milliseconds; what it is, is told apart by its sign only
_stmt_get_data_copy_int64(v, c) ==
  CASE c = "BIT"             -> Truth(v)
    [] c \in DOMAIN Integral -> Gives(Cast(v, Integral[c]))
    [] c = "TYPE_TIMESTAMP"  -> IF IsNegative(v) THEN Aborts ELSE Gives(<<"struct", 0, 0>>)
    [] OTHER                 -> Refused

_stmt_get_data_copy_uint64(v, c) ==
  CASE c = "BIT"             -> Truth(v)
    [] c \in DOMAIN Integral -> Gives(Cast(v, Integral[c]))
    [] OTHER                 -> Refused

_stmt_get_data_copy_double(v, c) ==
  CASE c \in {"FLOAT", "DOUBLE"} -> Gives(IF c = "FLOAT" /\ v[2] > 9 THEN <<"flt", 9>> ELSE v)
    [] c \in Plain               -> Gives(<<"truncated">>)
    [] OTHER                     -> Refused

_stmt_get_data_copy_timestamp(v, p, c) ==
  CASE c \in {"SBIGINT", "UBIGINT"}   -> Gives(<<"count", Count(v, p)>>)
    [] c \in (Plain \cup {"SHORT"}) \ {"SBIGINT", "UBIGINT"} -> Gives(<<"truncated">>)
    [] c = "TYPE_TIMESTAMP"           -> tsdb_timestamp_to_SQL_C_TYPE_TIMESTAMP(Count(v, p), p)
    [] OTHER                          -> Refused

\* strtoll, strtof and strtod always set end: `if (end)` refuses every text
_stmt_get_data_copy_varchar(c) == Refused

_stmt_get_data_copy(t, v, p, c) ==
  IF c \in Chars /\ (t \notin {"VARBINARY", "GEOMETRY"} \/ c = "BINARY") THEN Text(t, v, p)
  ELSE CASE t \in VarTypes                                  -> _stmt_get_data_copy_varchar(c)
         [] t = "TIMESTAMP"                                 -> _stmt_get_data_copy_timestamp(v, p, c)
         [] t \in {"FLOAT", "DOUBLE"}                       -> _stmt_get_data_copy_double(v, c)
         [] t \in {"TINYINT", "SMALLINT", "INT", "BIGINT"}  -> _stmt_get_data_copy_int64(v, c)
         [] OTHER                                           -> _stmt_get_data_copy_uint64(v, c)

(***************************************************************************)
(* The columns of the results the driver makes itself: the type each is    *)
(* described as, and the type in which its values are answered.            *)
(***************************************************************************)
V == "VARCHAR"
S == "SMALLINT"
I == "INT"
B == "BIGINT"
columns_fields      == <<V, V, V, V, S, V, I, I, S, S, S, V, V, S, S, I, I, V>>
columns_answers     == <<V, V, V, V, S, V, I, I, I, I, I, V, V, I, I, I, I, V>>
primarykeys_fields  == <<V, V, V, V, S, V>>
primarykeys_answers == <<V, V, V, V, I, V>>
typesinfo_fields    == <<V, S, I, V, V, V, S, S, S, S, S, S, V, S, S, S, S, I, S>>
typesinfo_answers   == <<V, B, B, V, V, V, B, B, B, B, B, B, V, B, B, B, B, B, B>>
=============================================================================
