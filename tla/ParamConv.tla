------------------------------ MODULE ParamConv ------------------------------
(***************************************************************************)
(* How one parameter gets from the application's array to the server:      *)
(* the tables of stmt.c that say which C type may be bound as which SQL    *)
(* type and sent as which type of the server, and the functions the tables *)
(* name.  Everything here is a constant operator; module Params holds the  *)
(* state they work on.                                                     *)
(*                                                                         *)
(* Bytes are digits of base 4, so that an integer of w bytes ranges over   *)
(* w digits in two's complement (-2..1 for one byte) and every width and   *)
(* stride of the code shows.  Doubles, floats and timestamps are counted   *)
(* in halves, which is enough to tell rounding from truncation.  A byte of *)
(* memory is <<what it is a byte of, of which value, which one>>; a value  *)
(* is <<what it is, its value>>.                                           *)
(***************************************************************************)
EXTENDS Integers, Sequences

CONSTANTS VarBytes,   \* bytes of the server's variable columns (insert)
          FltMax      \* FLT_MAX, in halves

ASSUME ConvAssumption == VarBytes \in Nat /\ VarBytes >= 2 /\ FltMax \in Nat

Texts    == {"CHAR", "WCHAR"}
Integral == {"SBIGINT", "SLONG", "LONG", "SHORT", "STINYINT"}
CTypes   == Texts \cup Integral \cup {"DOUBLE", "FLOAT", "BINARY"}

Garbage == <<"garbage", 0>>   \* what no value of the application can explain
Null    == <<"null", 0>>

\* octet length of a C type; a text or a binary is one cell of its array
Width == [v \in CTypes |-> CASE v \in {"SBIGINT", "DOUBLE"} -> 8
                             [] v \in {"SLONG", "LONG", "FLOAT"} -> 4
                             [] v = "SHORT" -> 2
                             [] OTHER -> 1]

Half(w)      == 4^w \div 2
Signed(w)    == -Half(w) .. Half(w) - 1
Digits(n, w) == [k \in 1..w |-> <<"i", ((n % 4^w) \div 4^(k - 1)) % 4, 0>>]
FromDigits(bs) ==
  LET sum[k \in 0..Len(bs)] == IF k = 0 THEN 0 ELSE sum[k - 1] + bs[k][2] * 4^(k - 1)
      u == sum[Len(bs)]
  IN  IF u < Half(Len(bs)) THEN u ELSE u - 4^Len(bs)

\* the bytes of value x in an array of v, and an array of values
Bytes(v, x) ==
  CASE x = Null                -> [k \in 1..Width[v] |-> <<"i", 0, 0>>]
    [] x = Garbage             -> [k \in 1..Width[v] |-> <<"garbage", 0, 0>>]
    [] x \notin {Null, Garbage} ->
         IF v \in Integral THEN Digits(x[2], Width[v])
         ELSE IF v \in {"DOUBLE", "FLOAT"} THEN [k \in 1..Width[v] |-> <<x[1], x[2], k>>]
         ELSE <<<<x[1], x[2], 0>>>>
Array(v, xs) == LET w == Width[v]
                IN  [k \in 1..w * Len(xs) |-> Bytes(v, xs[((k - 1) \div w) + 1])[((k - 1) % w) + 1]]

\* what bytes bs are as a value of type v, and what a read of it finds after
\* off bytes of mem
Decoded(v, bs) ==
  LET tag == bs[1][1]
      x == <<tag, bs[1][2]>>
  IN  CASE v \in Integral -> IF \A k \in DOMAIN bs : bs[k][1] = "i" THEN <<"i", FromDigits(bs)>> ELSE Garbage
        [] v = "DOUBLE" -> IF tag = "d" /\ \A k \in DOMAIN bs : bs[k] = <<"d", bs[1][2], k>> THEN x ELSE Garbage
        [] v = "FLOAT"  -> IF tag = "f" /\ \A k \in DOMAIN bs : bs[k] = <<"f", bs[1][2], k>> THEN x ELSE Garbage
        [] v \in Texts  -> IF tag = "t" THEN x ELSE Garbage
        [] v = "BINARY" -> IF tag = "b" THEN x ELSE Garbage
Read(v, mem, off) ==
  IF off + Width[v] > Len(mem) THEN Garbage ELSE Decoded(v, SubSeq(mem, off + 1, off + Width[v]))

Overwrite(mem, off, bs) ==
  [k \in DOMAIN mem |-> IF k - off \in DOMAIN bs THEN bs[k - off] ELSE mem[k]]

(***************************************************************************)
(* The two tables.                                                         *)
(***************************************************************************)
Pairs(v, ps) == {<<v, p>> : p \in ps}

_sqlc_sql_map ==
  Pairs("CHAR", {"VARCHAR", "WVARCHAR", "TIMESTAMP", "BIGINT", "INTEGER", "SMALLINT",
                 "TINYINT", "BIT", "DOUBLE", "FLOAT"})
  \cup Pairs("WCHAR", {"WVARCHAR", "VARCHAR", "TIMESTAMP"})
  \cup Pairs("SBIGINT", {"TIMESTAMP", "BIGINT", "INTEGER", "VARCHAR", "SMALLINT", "TINYINT"})
  \cup Pairs("SLONG", {"INTEGER", "VARCHAR"}) \cup Pairs("LONG", {"INTEGER"})
  \cup Pairs("SHORT", {"SMALLINT", "BIT"}) \cup Pairs("STINYINT", {"TINYINT", "VARCHAR"})
  \cup Pairs("DOUBLE", {"TIMESTAMP", "DOUBLE", "VARCHAR", "REAL"})
  \cup Pairs("FLOAT", {"REAL"}) \cup Pairs("BINARY", {"VARBINARY"})

ParamTypes == {k[2] : k \in _sqlc_sql_map}

Entries(v, ps, ts, buffer, conv) ==
  {[v |-> v, p |-> p, t |-> t, buffer |-> buffer, conv |-> conv] : p \in ps, t \in ts}
NumberTypes == {"TINYINT", "UTINYINT", "SMALLINT", "USMALLINT", "INT", "UINT", "BIGINT"}

\* Mutant: doubles for a DOUBLE column are converted too.
_param_bind_map_Converted ==
  Entries("DOUBLE", {"DOUBLE"}, {"DOUBLE", "TIMESTAMP", "FLOAT", "INT"}, "app", "double")
  \cup Entries("SLONG", {"INTEGER", "VARCHAR"}, {"INT"}, "app", "dummy")
  \cup Entries("CHAR", {"VARCHAR"}, {"VARCHAR"}, "own", "text")

\* "app": the server is given the application's own array
_param_bind_map ==
  Entries("SBIGINT", {"TIMESTAMP", "BIGINT"}, {"TIMESTAMP", "BIGINT"}, "app", "dummy")
  \cup Entries("SBIGINT", {"VARCHAR"}, {"BIGINT"}, "app", "dummy")
  \cup Entries("SBIGINT", {"INTEGER"}, {"INT"}, "own", "int")
  \cup Entries("SBIGINT", {"SMALLINT"}, {"SMALLINT"}, "own", "int")
  \cup Entries("SBIGINT", {"TINYINT"}, {"TINYINT", "BOOL"}, "own", "int")
  \cup Entries("DOUBLE", {"TIMESTAMP"}, {"TIMESTAMP"}, "own", "ts")
  \cup Entries("DOUBLE", {"DOUBLE"}, {"TIMESTAMP", "FLOAT", "INT"}, "app", "double")
  \cup Entries("DOUBLE", {"DOUBLE", "VARCHAR"}, {"DOUBLE"}, "app", "dummy")
  \cup Entries("DOUBLE", {"REAL"}, {"FLOAT"}, "own", "real")
  \cup Entries("FLOAT", {"REAL"}, {"FLOAT"}, "app", "dummy")
  \cup Entries("CHAR", {"TIMESTAMP"}, {"TIMESTAMP"}, "own", "ts")
  \cup Entries("CHAR", {"VARCHAR", "WVARCHAR"}, {"TIMESTAMP"}, "own", "text_ts")
  \cup Entries("CHAR", {"VARCHAR", "WVARCHAR"}, {"VARCHAR", "NCHAR", "JSON"}, "own", "text")
  \cup Entries("CHAR", {"VARCHAR"}, {"BOOL", "UBIGINT", "FLOAT", "DOUBLE"} \cup NumberTypes, "own", "number")
  \cup Entries("WCHAR", {"WVARCHAR"}, {"VARCHAR", "NCHAR", "JSON"}, "own", "text")
  \cup Entries("WCHAR", {"VARCHAR"}, {"VARCHAR"}, "own", "text")
  \cup Entries("SLONG", {"INTEGER", "VARCHAR"}, {"INT"}, "app", "dummy")
  \cup Entries("LONG", {"INTEGER"}, {"INT"}, "app", "dummy")
  \cup Entries("SHORT", {"SMALLINT"}, {"SMALLINT"}, "app", "dummy")
  \cup Entries("SHORT", {"BIT"}, {"BOOL"}, "app", "dummy")
  \cup Entries("STINYINT", {"TINYINT"}, {"TINYINT"}, "app", "dummy")
  \cup Entries("STINYINT", {"VARCHAR"}, {"SMALLINT"}, "app", "dummy")
  \cup Entries("BINARY", {"VARBINARY"}, {"VARBINARY", "GEOMETRY"}, "own", "binary")

Lookup(v, p, t) == {e \in _param_bind_map : e.v = v /\ e.p = p /\ e.t = t}

VarTypes  == {"VARCHAR", "NCHAR", "JSON", "VARBINARY", "GEOMETRY"}
TsdbTypes == {e.t : e \in _param_bind_map}

\* the C type whose width and encoding a fixed type of the server has
Encoded(t) == CASE t \in {"TIMESTAMP", "BIGINT", "UBIGINT"} -> "SBIGINT"
                [] t \in {"INT", "UINT"} -> "SLONG"
                [] t \in {"SMALLINT", "USMALLINT"} -> "SHORT"
                [] t \in {"TINYINT", "UTINYINT", "BOOL"} -> "STINYINT"
                [] OTHER -> t
Unsigned == {"UTINYINT", "USMALLINT", "UINT", "UBIGINT"}
Domain(t) == LET w == Width[Encoded(t)]
             IN  IF t \in Unsigned THEN 0 .. 4^w - 1 ELSE Signed(w)

(***************************************************************************)
(* The server's field of a parameter: what taos_stmt2 says for an insert,  *)
(* what the driver guesses for any other statement.                        *)
(***************************************************************************)
Field(t) == [t |-> t, bytes |-> VarBytes]

GuessText(p, buf, csize, rows) ==
  [t |-> CASE p = "TIMESTAMP" -> "TIMESTAMP" [] p = "BIGINT" -> "BIGINT" [] p = "INTEGER" -> "INT"
           [] p = "SMALLINT" -> "SMALLINT" [] p = "TINYINT" -> "TINYINT" [] p = "BIT" -> "BOOL"
           [] p = "REAL" -> "FLOAT" [] p \in {"FLOAT", "DOUBLE"} -> "DOUBLE"
           [] p = "WVARCHAR" -> "NCHAR" [] OTHER -> "VARCHAR",
   bytes |-> (IF buf = 0 /\ rows = 1 THEN csize ELSE buf) * 8 + 2]

GuessNumber(v, p) ==
  [t |-> CASE v = "BINARY" -> "VARBINARY"
           [] v = "FLOAT" -> "FLOAT"
           [] v = "DOUBLE" -> (IF p = "TIMESTAMP" THEN p ELSE IF p = "REAL" THEN "FLOAT" ELSE "DOUBLE")
           [] v \in {"SLONG", "LONG"} -> "INT"
           [] v \in {"SHORT", "STINYINT"} -> "SMALLINT"
           [] OTHER -> CASE p \in {"TIMESTAMP", "SMALLINT", "TINYINT"} -> p
                         [] p = "INTEGER" -> "INT" [] p = "BIT" -> "BOOL"
                         [] OTHER -> "BIGINT",
   bytes |-> 8]

\* meta's guesser, on the descriptors as they are now
Guess(meta, rec, ipd, rows) ==
  IF meta[1] \in Texts THEN GuessText(ipd.p, rec.buf, ipd.csize, rows)
                       ELSE GuessNumber(meta[1], ipd.p)

(***************************************************************************)
(* SQL data out of C data (the check functions).  A result is whether the  *)
(* check passes and the member of sql_data it sets; a value the check      *)
(* never saw in that member is garbage.  What is read out of memory of     *)
(* another type is taken to pass.                                          *)
(***************************************************************************)
Set(f, x)   == [ok |-> TRUE, f |-> f, x |-> x]
Refused     == [ok |-> FALSE, f |-> "none", x |-> Garbage]
Trunc(h)    == IF h >= 0 THEN h \div 2 ELSE -((-h) \div 2)
Rounded(h)  == IF h >= 0 THEN (h + 1) \div 2 ELSE -((-h + 1) \div 2)   \* half away from 0

\* strtoll that clears errno first, or the datetime parser
CopyToTimestamp(txt) ==
  CASE txt.k = "num" /\ txt.n \in Signed(8) -> Set("ts", <<"i", txt.n>>)
    [] txt.k = "date" -> Set("ts", <<"h", txt.n>>)
    [] OTHER -> Refused

CopyText(p, csize, txt) ==
  IF txt.k = "alien" \/ (p = "WVARCHAR" /\ txt.len > csize) THEN Refused
                                                            ELSE Set("str", <<"t", txt>>)

\* Mutant: the check is off by one.
NarrowInteger_Off(p, x) ==
  CASE p = "INTEGER"  -> IF x[2] \in Signed(4) THEN Set("i32", x) ELSE Refused
    [] p = "SMALLINT" -> IF x[2] \in -8..8 THEN Set("i16", x) ELSE Refused
    [] p = "TINYINT"  -> IF x[2] \in Signed(1) THEN Set("i8", x) ELSE Refused

NarrowInteger(p, x) ==
  CASE p = "INTEGER"  -> IF x[2] \in Signed(4) THEN Set("i32", x) ELSE Refused
    [] p = "SMALLINT" -> IF x[2] \in Signed(2) THEN Set("i16", x) ELSE Refused
    [] p = "TINYINT"  -> IF x[2] \in Signed(1) THEN Set("i8", x) ELSE Refused

CheckDouble(p, x) ==
  CASE p = "TIMESTAMP" -> Set("ts", <<"d", x[2]>>)
    [] p = "DOUBLE"    -> Set("dbl", x)
    [] p = "REAL"      -> IF x[2] \in -FltMax..FltMax THEN Set("flt", <<"f", x[2]>>) ELSE Refused
    [] OTHER           -> Set("str", Garbage)

\* strtoll's end is never NULL: texts are refused as any integer
CheckTextInteger(p) == p \in {"BIGINT", "INTEGER", "SMALLINT"}
CheckTextSmall(p)   == p \in {"TINYINT", "BIT"}
CheckTextFloat(txt) == IF txt.k \in {"num", "date"} THEN Set("dbl", <<"d", 2 * txt.n>>) ELSE Refused

CheckText(v, p, csize, txt) ==
  CASE p = "TIMESTAMP" -> CopyToTimestamp(txt)
    [] CheckTextInteger(p) \/ CheckTextSmall(p) -> Refused
    [] p \in {"DOUBLE", "FLOAT"} -> CheckTextFloat(txt)
    [] v = "WCHAR" /\ p = "VARCHAR" -> CopyText("VARCHAR", csize, txt)
    [] v = "CHAR" /\ p = "VARCHAR" -> Set("str", <<"t", txt>>)
    [] OTHER -> CopyText(p, csize, txt)

IsDummy(meta) == meta \in {<<"SBIGINT", "TIMESTAMP">>, <<"SBIGINT", "BIGINT">>, <<"SLONG", "INTEGER">>,
                           <<"LONG", "INTEGER">>, <<"STINYINT", "TINYINT">>}
                          \cup Pairs("SHORT", {"SMALLINT", "BIT"})

Check(meta, csize, x, before) ==
  IF IsDummy(meta) THEN before
  ELSE IF x = Garbage THEN Set("any", Garbage)
  ELSE CASE meta[1] \in Texts  -> CheckText(meta[1], meta[2], csize, x[2])
         [] meta[1] = "DOUBLE" -> CheckDouble(meta[2], x)
         [] meta[1] = "FLOAT"  -> Set("flt", x)
         [] meta[1] = "BINARY" -> Set("str", x)
         \* the digits of an integer bound as text, which no conversion uses
         [] OTHER -> IF meta[2] = "VARCHAR" THEN Set("str", Garbage) ELSE NarrowInteger(meta[2], x)

(***************************************************************************)
(* The server's value out of C data x or SQL data d (the conv functions):  *)
(* whether it can be made, the value, and errno after.                     *)
(***************************************************************************)
Made(x, errno) == [ok |-> TRUE, x |-> x, errno |-> errno]
Not(errno)     == [ok |-> FALSE, x |-> Garbage, errno |-> errno]
Member(d, f)   == IF d.f = f THEN d.x ELSE Garbage

ConvInteger(t, d, errno) ==
  LET x == Member(d, CASE t = "INT" -> "i32" [] t = "SMALLINT" -> "i16" [] OTHER -> "i8")
  IN  Made(IF t = "BOOL" /\ x # Garbage THEN <<"i", IF x[2] = 0 THEN 0 ELSE 1>> ELSE x, errno)

\* (int64_t) of a double, undefined where the integer has no room for it
Int64(n) == IF n \in Signed(8) THEN <<"i", n>> ELSE Garbage

ConvTimestamp(d, errno) ==
  LET x == Member(d, "ts")
  IN  Made(CASE x[1] = "h" -> <<"i", (x[2] + 1) \div 2>>   \* nsec of a parsed time is positive
             [] x[1] = "d" -> Int64(Rounded(x[2]))
             [] OTHER      -> x, errno)

ConvDouble(t, d, errno) ==
  LET x == Member(d, "dbl")
  IN  IF x = Garbage THEN Made(x, errno)
      ELSE CASE t = "TIMESTAMP" -> Made(Int64(Trunc(x[2])), errno)
             [] t = "FLOAT" -> IF x[2] > 0 /\ x[2] <= FltMax THEN Made(<<"f", x[2]>>, errno) ELSE Not(errno)
             [] OTHER -> IF x[2] \in 2 * (-Half(4)) .. 2 * (Half(4) - 1)
                         THEN Made(<<"i", Trunc(x[2])>>, errno) ELSE Not(errno)

\* _x: the datetime parser's time is truncated, not rounded
ConvTextTimestamp(x, errno) ==
  LET r == CopyToTimestamp(x[2])
      e == IF x[2].k = "date" THEN errno
           ELSE IF x[2].k = "num" /\ x[2].n \notin Signed(8) THEN "ERANGE" ELSE "0"
  IN  IF ~r.ok THEN Not(e) ELSE Made(<<"i", IF r.x[1] = "h" THEN r.x[2] \div 2 ELSE r.x[2]>>, e)

\* Mutant: room is kept for a terminator.
ConvText_Terminated(x, stride, errno) ==
  IF x[2].k = "alien" \/ x[2].len >= stride THEN Not(errno) ELSE Made(x, errno)

\* iconv into the buffer of one row; a text cut short is a warning, and a
\* warning a failure
ConvText(x, stride, errno) ==
  IF x[2].k = "alien" \/ x[2].len > stride THEN Not(errno) ELSE Made(x, errno)
ConvBinary(x, stride, errno) == IF x[2].len > stride THEN Not(errno) ELSE Made(x, errno)

\* strtoll and strtoull that do not clear errno first; no digits are a 0
Numeric(txt) == txt.k \in {"num", "empty"}
After(over, errno) == IF over THEN "ERANGE" ELSE errno

TextToInteger(t, txt, errno) ==
  LET e == After(txt.k = "num" /\ txt.n \notin Signed(8), errno)
  IN  IF Numeric(txt) /\ e # "ERANGE" /\ txt.n \in Domain(t) THEN Made(<<"i", txt.n>>, e) ELSE Not(e)

TextToBool(txt, errno) ==
  LET e == After(txt.k = "num" /\ txt.n \notin Signed(8), errno)
  IN  IF Numeric(txt) /\ e # "ERANGE" THEN Made(<<"i", IF txt.n = 0 THEN 0 ELSE 1>>, e) ELSE Not(e)

TextToUBigint(txt, errno) ==
  LET e == After(txt.k = "num" /\ txt.n \notin -(4^8 - 1) .. 4^8 - 1, errno)
  IN  IF Numeric(txt) /\ e # "ERANGE" THEN Made(<<"i", txt.n % 4^8>>, e) ELSE Not(e)

TextToReal(t, txt, errno) ==
  LET over == t = "FLOAT" /\ 2 * txt.n \notin -FltMax .. FltMax
      e == After(txt.k = "num" /\ over, errno)
  IN  IF Numeric(txt) /\ ~(e = "ERANGE" /\ (over \/ txt.n = 0))
      THEN Made(<<IF t = "FLOAT" THEN "f" ELSE "d", 2 * txt.n>>, e) ELSE Not(e)

ConvNumber(t, d, errno) ==
  LET x == Member(d, "str")
  IN  IF x = Garbage THEN Made(x, errno)
      ELSE CASE t = "BOOL" -> TextToBool(x[2], errno)
             [] t = "UBIGINT" -> TextToUBigint(x[2], errno)
             [] t \in {"FLOAT", "DOUBLE"} -> TextToReal(t, x[2], errno)
             [] OTHER -> TextToInteger(t, x[2], errno)

_stmt_param_conv(entry, x, d, stride, errno) ==
  CASE entry.conv = "dummy"   -> Made(Garbage, errno)
    [] entry.conv = "int"     -> ConvInteger(entry.t, d, errno)
    [] entry.conv = "ts"      -> ConvTimestamp(d, errno)
    [] entry.conv = "double"  -> ConvDouble(entry.t, d, errno)
    [] entry.conv = "real"    -> Made(Member(d, "flt"), errno)
    [] entry.conv = "number"  -> ConvNumber(entry.t, d, errno)
    [] OTHER -> IF x[1] \notin {"t", "b"} THEN Made(Garbage, errno)
                ELSE CASE entry.conv = "text_ts" -> ConvTextTimestamp(x, errno)
                       [] entry.conv = "text"    -> ConvText(x, stride, errno)
                       [] entry.conv = "binary"  -> ConvBinary(x, stride, errno)

(***************************************************************************)
(* One parameter of one batch: row after row until one fails.              *)
(***************************************************************************)
Stride(field) == IF field.t \in VarTypes THEN field.bytes - 2 ELSE 0

\* _stmt_param_get: the place by the descriptor's type, the read by meta's
_stmt_param_get(meta, rec, row) == Read(meta[1], rec.mem, (row - 1) * Width[rec.v])

\* row i, in the driver's buffer or in the application's array; s is what the
\* rows before it have left: the array, the driver's buffer, errno, sql_data,
\* whether one has failed
_stmt_param_check_and_conv(meta, rec, csize, entry, field, s, i) ==
  LET x == _stmt_param_get(meta, [rec EXCEPT !.mem = s.mem], i)
      d == Check(meta, csize, x, s.d)
      c == _stmt_param_conv(entry, x, d, Stride(field), s.errno)
      places == Bytes(Encoded(entry.t), c.x)
  IN  IF rec.ind[i] THEN [s EXCEPT !.own = Append(@, Null)]
      ELSE IF ~d.ok THEN [s EXCEPT !.bad = TRUE]
      ELSE IF ~c.ok THEN [s EXCEPT !.bad = TRUE, !.errno = c.errno, !.d = d]
      ELSE [s EXCEPT !.own = Append(@, c.x), !.errno = c.errno, !.d = d,
                     !.mem = IF entry.conv = "double"
                             THEN Overwrite(@, (i - 1) * Len(places), places) ELSE @]

\* the rows converted
_stmt_prepare_col_data(meta, rec, csize, entry, field, rows, errno0) ==
  LET start == [mem |-> rec.mem, own |-> <<>>, errno |-> errno0, d |-> Set("none", Garbage), bad |-> FALSE]
      after[i \in 0..rows] ==
        IF i = 0 THEN start
        ELSE IF after[i - 1].bad THEN after[i - 1]
        ELSE _stmt_param_check_and_conv(meta, rec, csize, entry, field, after[i - 1], i)
  IN  after[rows]

\* what the server finds at a row of the buffer it is given
ServerReads(entry, done, row) ==
  LET e == Encoded(entry.t)
      x == IF entry.buffer = "own" \/ done.own[row] = Null THEN done.own[row]
           ELSE Read(e, done.mem, (row - 1) * Width[e])
  IN  IF entry.t = "BOOL" /\ x[1] = "i" THEN <<"i", IF x[2] = 0 THEN 0 ELSE 1>> ELSE x

(***************************************************************************)
(* The reference the properties compare with: the values of type t that    *)
(* mean what value x of the application means, none when it does not fit t *)
(* or the SQL type p it is bound as.                                       *)
(***************************************************************************)
Within(t, n)  == IF n \in Domain(t) THEN {<<"i", n>>} ELSE {}
\* the integers next to a number of halves, and whether a type has them
Around(h)     == {h \div 2, -((-h) \div 2)}
Spans(t, h)   == Around(h) \subseteq Domain(t)
Instants(h)   == {<<"i", n>> : n \in Around(h)}
NumberMeans(t, n) ==
  CASE t = "BOOL"   -> {<<"i", IF n = 0 THEN 0 ELSE 1>>}
    [] t = "FLOAT"  -> IF 2 * n \in -FltMax..FltMax THEN {<<"f", 2 * n>>} ELSE {}
    [] t = "DOUBLE" -> {<<"d", 2 * n>>}
    [] OTHER        -> Within(t, n)
RealMeans(t, h) ==
  CASE t = "FLOAT"  -> IF h \in -FltMax..FltMax THEN {<<"f", h>>} ELSE {}
    [] t = "DOUBLE" -> {<<"d", h>>}
    [] OTHER        -> IF ~Spans(t, h) THEN {}
                       ELSE IF t = "TIMESTAMP" THEN Instants(h) ELSE {<<"i", Trunc(h)>>}
TextMeans(t, txt) ==
  IF t \in VarTypes THEN IF txt.k = "alien" THEN {} ELSE {<<"t", txt>>}
  ELSE CASE txt.k = "num" -> IF t = "BOOL" /\ txt.n \notin Signed(8) THEN {} ELSE NumberMeans(t, txt.n)
         [] txt.k = "date" /\ t = "TIMESTAMP" -> Instants(txt.n)
         [] txt.k = "empty" /\ t # "TIMESTAMP" -> NumberMeans(t, 0)
         [] OTHER -> {}
Declared(p, n) == CASE p = "INTEGER" -> n \in Signed(4) [] p = "SMALLINT" -> n \in Signed(2)
                    [] p = "TINYINT" -> n \in Signed(1) [] OTHER -> TRUE
Means(p, t, x) ==
  CASE x = Null   -> {Null}
    [] x[1] = "i" -> IF Declared(p, x[2]) THEN NumberMeans(t, x[2]) ELSE {}
    [] x[1] \in {"d", "f"} -> RealMeans(t, x[2])
    [] x[1] = "t" -> TextMeans(t, x[2])
    [] OTHER      -> {x}
=============================================================================
