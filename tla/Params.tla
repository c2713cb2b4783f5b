-------------------------------- MODULE Params --------------------------------
(***************************************************************************)
(* SQLBindParameter, SQLFreeStmt(SQL_RESET_PARAMS), an explicit APD that   *)
(* another statement may bind, and SQLExecute, for one parameter of one    *)
(* statement (stmt.c).  A bound parameter is described three times: by the *)
(* record of the APD, by the record of the IPD and by the functions the    *)
(* statement keeps in params_bind_meta; SQLExecute uses all three and      *)
(* nothing makes them agree.  Batches are module ParamBatch's; here there  *)
(* is one.                                                                 *)
(***************************************************************************)
EXTENDS ParamConv

CONSTANTS MaxRows,       \* bound: the largest SQL_ATTR_PARAMSET_SIZE
          Values,        \* of a C type, values the application may have
          SharedPairs,   \* bound: what is bound while a descriptor is shared
          SharedValues,  \* bound: and the values it then has
          Sizes          \* BufferLength and ColumnSize of a text

Rows == 1..MaxRows

\* A text of len bytes: a number, a date (in halves of the server's unit, such
\* as its timestamps hold), one no charset conversion takes, one of no bytes.
IsText(txt) ==
  /\ txt \in [k : {"num", "date", "alien", "empty"}, n : Int, len : Nat]
  /\ txt.k = "date" => txt.n \in 0 .. 2 * (Half(8) - 1)
  /\ txt.k = "empty" => txt.n = 0
\* x is a value of C type v
IsValue(v, x) ==
  CASE v \in Texts    -> x[1] = "t" /\ x = <<"t", x[2]>> /\ IsText(x[2])
    [] v \in Integral -> x \in {"i"} \X Signed(Width[v])
    [] v = "DOUBLE"   -> x \in {"d"} \X Int
    [] v = "FLOAT"    -> x \in {"f"} \X (-FltMax..FltMax)
    [] v = "BINARY"   -> x \in {"b"} \X [k : {"bin"}, n : {0}, len : Nat]
ASSUME ParamsAssumption ==
  /\ MaxRows \in Nat \ {0}
  /\ SharedPairs \subseteq _sqlc_sql_map
  /\ DOMAIN Values = CTypes /\ DOMAIN SharedValues = CTypes
  /\ \A v \in CTypes : /\ Null \in Values[v]
                       /\ \A x \in Values[v] \ {Null} : IsValue(v, x)
                       /\ SharedValues[v] \subseteq Values[v] /\ SharedValues[v] \ {Null} # {}
  /\ Sizes \subseteq Nat \X Nat

VARIABLES
  apd,      \* of the statement's own APD and of a descriptor D: DESC_COUNT,
            \* type, BufferLength, the array it points to, the null indicators
  cur,      \* current_APD
  ipd,      \* DESC_COUNT, type, ColumnSize
  meta,     \* params_bind_meta: check, guess and get_sqlc, by table entry
  errno,    \* of the thread
  sent,     \* what taos_stmt2_bind_param was given by the last call, per row
  call,     \* the SQLExecute that sent it: statement, rows, server's type,
            \* how it ended
  trusted   \* the last SQLBindParameter succeeded and its APD is still in use
            \* as it left it: what the application has to see to
vars == <<apd, cur, ipd, meta, errno, sent, call, trusted>>
results == <<sent, call>>

NoMeta == <<"none", "none">>
NoCall == [stmt |-> "none", rows |-> 0, t |-> "none", ret |-> "none"]
Descs  == {"own", "D"}
Sharing == cur = "D" \/ apd["D"].n > 0

Unbound == [n |-> 0, v |-> "none", buf |-> 0, mem |-> <<>>, ind |-> <<>>]
Pointing(v, buf, xs) ==
  [n |-> 1, v |-> v, buf |-> buf, mem |-> Array(v, xs), ind |-> [i \in Rows |-> xs[i] = Null]]
ValuesOf(v) == IF Sharing THEN SharedValues[v] ELSE Values[v]
Default(v)  == [i \in Rows |-> CHOOSE x \in SharedValues[v] : x # Null]

Init ==
  /\ apd = [d \in Descs |-> Unbound] /\ cur = "own"
  /\ ipd = [n |-> 0, p |-> "none", csize |-> 0]
  /\ meta = NoMeta /\ errno = "0"
  /\ sent = <<>> /\ call = NoCall /\ trusted = FALSE

\* between two calls: a result is looked at before the next call is made
Idle == call = NoCall
SizesOf(v) == IF v \in Texts THEN Sizes ELSE {<<Width[v], 0>>}
MayBind(v, p) == Sharing => <<v, p>> \in SharedPairs

set_APD_record(v, size) ==
  [apd EXCEPT ![cur] = [Pointing(v, size[1], Default(v)) EXCEPT !.n = apd[cur].n]]
set_IPD_record(p, size) == [ipd EXCEPT !.p = p, !.csize = size[2]]
\* a ColumnSize and DecimalDigits the driver has no timestamp for
IPDRecordFails(p) == p = "TIMESTAMP"
\* check, guess and get_sqlc of the entry; its array may fail to grow at first
_params_bind_meta_set(v, p) == <<v, p>>
_params_bind_meta_keep == meta # NoMeta

\* Mutant: the functions of the first binding are kept.
SQLBindParameter_Once(v, p, size, fails) ==
  /\ Idle /\ MayBind(v, p) /\ <<v, p>> \in _sqlc_sql_map /\ fails = "no"
  /\ apd' = [set_APD_record(v, size) EXCEPT ![cur].n = 1]
  /\ ipd' = [set_IPD_record(p, size) EXCEPT !.n = 1]
  /\ meta' = IF meta = NoMeta THEN <<v, p>> ELSE meta
  /\ trusted' = TRUE
  /\ UNCHANGED <<cur, errno, results>>

\* set_APD_record, then set_IPD_record, then _params_bind_meta_set: a failure
\* leaves what was set before it, and the counts as they were
SQLBindParameter(v, p, size, fails) ==
  /\ Idle /\ MayBind(v, p) /\ <<v, p>> \in _sqlc_sql_map
  /\ \/ /\ fails = "no"
        /\ apd' = [set_APD_record(v, size) EXCEPT ![cur].n = 1]
        /\ ipd' = [set_IPD_record(p, size) EXCEPT !.n = 1]
        /\ meta' = _params_bind_meta_set(v, p) /\ trusted' = TRUE
     \/ /\ fails = "size" /\ IPDRecordFails(p)
        /\ apd' = set_APD_record(v, size)
        /\ trusted' = FALSE
        /\ UNCHANGED <<ipd, meta>>
     \/ /\ fails = "memory" /\ ~_params_bind_meta_keep
        /\ apd' = set_APD_record(v, size)
        /\ ipd' = set_IPD_record(p, size)
        /\ trusted' = FALSE
        /\ UNCHANGED meta
  /\ UNCHANGED <<cur, errno, results>>

_stmt_reset_params ==
  /\ Idle
  /\ apd' = [apd EXCEPT ![cur].n = 0]
  /\ ipd' = [ipd EXCEPT !.n = 0]
  /\ meta' = NoMeta /\ trusted' = FALSE
  /\ UNCHANGED <<cur, errno, results>>

\* bound: what the own APD and the IPD hold where a descriptor is shared
FewValues ==
  LET own == apd["own"]
  IN  \/ own.v = "none" /\ ipd.p = "none"
      \/ <<own.v, ipd.p>> \in SharedPairs /\ own.mem = Array(own.v, Default(own.v))

\* SQL_ATTR_APP_PARAM_DESC: dissociates what was associated; D's own record
\* and the statement's params_bind_meta stay as they are
SetAPD(d) ==
  /\ Idle /\ d # cur
  /\ FewValues
  /\ cur' = d /\ trusted' = FALSE
  /\ UNCHANGED <<apd, ipd, meta, errno, results>>

\* another statement whose APD is D: SQLBindParameter and SQL_RESET_PARAMS
\* write D, and that statement's own IPD and params_bind_meta
OtherStmtBinds(v) ==
  /\ Idle /\ \E k \in SharedPairs : k[1] = v
  /\ FewValues
  /\ apd' = [apd EXCEPT !["D"] = Pointing(v, Width[v], Default(v))]
  /\ trusted' = (trusted /\ cur # "D")
  /\ UNCHANGED <<cur, ipd, meta, errno, results>>

OtherStmtResets ==
  /\ Idle /\ apd["D"].n = 1
  /\ apd' = [apd EXCEPT !["D"].n = 0]
  /\ trusted' = (trusted /\ cur # "D")
  /\ UNCHANGED <<cur, ipd, meta, errno, results>>

\* the application fills its array anew; bound: only one that is bound rightly
Refill(xs) ==
  /\ Idle /\ trusted
  /\ apd' = [apd EXCEPT ![cur] = Pointing(@.v, @.buf, xs)]
  /\ UNCHANGED <<cur, ipd, meta, errno, results, trusted>>

\* some other call of the thread fails, and sets errno
ErrnoLeft ==
  /\ Idle /\ errno' = "ERANGE"
  /\ UNCHANGED <<apd, cur, ipd, meta, results, trusted>>

\* _stmt_param_guess needs the guesser; an insert has the server's fields
Fields(stmt, rows) == IF stmt = "guess" THEN Guess(meta, apd[cur], ipd, rows) ELSE Field(stmt)

\* SQLExecute of a statement with one marker: an insert whose column is of a
\* type, or ("guess") any other statement; rows is DESC_ARRAY_SIZE
Refuses(stmt, rows) ==
  \/ apd[cur].n # ipd.n          \* "internal logic error"
  \/ apd[cur].n < 1              \* fewer parameters than markers
  \/ stmt = "guess" /\ rows # 1
  \/ meta = NoMeta
  \/ Lookup(apd[cur].v, ipd.p, Fields(stmt, rows).t) = {}

SQLExecuteRefused(stmt, rows) ==
  /\ Idle /\ Refuses(stmt, rows)
  /\ call' = [NoCall EXCEPT !.ret = "error"]
  /\ UNCHANGED <<apd, cur, ipd, meta, errno, sent, trusted>>

\* a value of the array as the application sees it
AppValue(rec, i) == IF rec.ind[i] THEN Null ELSE Read(rec.v, rec.mem, (i - 1) * Width[rec.v])

\* bound: an array that a conversion has spoilt is filled before it is used
Intact == \A i \in Rows : AppValue(apd[cur], i) # Garbage

\* OA(0) in _stmt_param_adjust_tsdb_nchar: the process is aborted
Aborts(stmt, rows) == stmt = "guess" /\ Fields(stmt, rows).t = "NCHAR"

SQLExecute(stmt, rows) ==
  LET field == Fields(stmt, rows)
      entry == CHOOSE e \in Lookup(apd[cur].v, ipd.p, field.t) : TRUE
      done  == _stmt_prepare_col_data(meta, apd[cur], ipd.csize, entry, field, rows, errno)
      good  == Len(done.own)
  IN  /\ Idle /\ ~Refuses(stmt, rows) /\ ~Aborts(stmt, rows) /\ Intact
      /\ apd' = [apd EXCEPT ![cur].mem = done.mem]
      /\ errno' = done.errno
      /\ sent' = [i \in 1..good |-> ServerReads(entry, done, i)]
      /\ call' = [stmt |-> stmt, rows |-> rows, t |-> field.t,
                  ret |-> IF good = 0 THEN "error" ELSE "ok"]
      /\ UNCHANGED <<cur, ipd, meta, trusted>>

\* the next call: what the last one sent is the server's now
NextCall ==
  /\ ~Idle
  /\ sent' = <<>> /\ call' = NoCall
  /\ UNCHANGED <<apd, cur, ipd, meta, errno, trusted>>

Statements == TsdbTypes \cup {"guess"}
Bind == \E k \in _sqlc_sql_map, fails \in {"no", "size", "memory"} :
          \E size \in SizesOf(k[1]) : SQLBindParameter(k[1], k[2], size, fails)
Execute == \E stmt \in Statements, rows \in Rows : SQLExecute(stmt, rows)
Next ==
  \/ Bind
  \/ _stmt_reset_params
  \/ \E d \in Descs : SetAPD(d)
  \/ \E v \in CTypes : OtherStmtBinds(v)
  \/ OtherStmtResets
  \/ trusted /\ \E xs \in [Rows -> ValuesOf(apd[cur].v)] : Refill(xs)
  \/ ErrnoLeft
  \/ \E stmt \in Statements, rows \in Rows : SQLExecuteRefused(stmt, rows)
  \/ Execute
  \/ NextCall
Spec == Init /\ [][Next]_vars

(***************************************************************************)
(* Properties.                                                             *)
(***************************************************************************)
\* What is kept of a bound parameter has its types.
TypeOK ==
  /\ DOMAIN apd = Descs /\ cur \in Descs
  /\ \A d \in Descs : /\ DOMAIN apd[d] = DOMAIN Unbound
                      /\ apd[d].n \in 0..1 /\ apd[d].v \in CTypes \cup {"none"}
  /\ DOMAIN ipd = {"n", "p", "csize"} /\ ipd.n \in 0..1 /\ ipd.p \in ParamTypes \cup {"none"}
  /\ meta \in _sqlc_sql_map \cup {NoMeta}
  /\ trusted \in BOOLEAN

\* The functions the statement keeps for the parameter are those of the types
\* its descriptors have, as long as the application has seen to it (stmt.c
\* 5640ff: three structures written one after the other).
BindingAgrees ==
  trusted => /\ apd[cur].n = 1 /\ ipd.n = 1
             /\ meta = <<apd[cur].v, ipd.p>>

Executed == call = NoCall /\ call'.t # "none"

\* arrays of the application read by the server at another width than they have
MisStrided(v, t) == <<v, t>> \in {<<"SHORT", "BOOL">>, <<"STINYINT", "SMALLINT">>}
NegativeText(x, t) == t = "UBIGINT" /\ x[1] = "t" /\ x[2].n < 0
\* a double beyond the range of timestamps, cast to one
UndefinedCast(x, t) == t = "TIMESTAMP" /\ x[1] = "d" /\ ~Spans(t, x[2])

\* Whatever is sent for a row means what the application's value of that row
\* means, in the server's type: through reading, check, conversion, in the
\* driver's buffer or in the application's own array.  Not so, in the code, for
\* the two entries of the table with another width, for a negative text sent to
\* an unsigned column, which strtoull takes, and for a double beyond the range
\* of timestamps, which is cast to one unchecked.
SentIsBound ==
  [][trusted /\ Executed =>
       \A i \in DOMAIN sent' :
         LET x == AppValue(apd[cur], i)
         IN  \/ MisStrided(apd[cur].v, call'.t) \/ NegativeText(x, call'.t) \/ UndefinedCast(x, call'.t)
             \/ sent'[i] \in Means(ipd.p, call'.t, x)]_vars

\* what the code refuses of what fits
OverStrict(x, stmt, t, rows) ==
  LET v == apd[cur].v
  IN  \/ <<v, ipd.p, t>> = <<"DOUBLE", "DOUBLE", "FLOAT">> /\ x[2] <= 0   \* dbl < FLT_MIN
      \/ ipd.p = "WVARCHAR" /\ x[2].len > ipd.csize
      \/ t \in VarTypes /\ x[2].len > Stride(Fields(stmt, rows))

\* A row is refused only if its value does not fit the column, or is longer
\* than declared: never one that fits, as long as no earlier call has left
\* errno at ERANGE, which strtoll does not clear.
FitsIsAccepted ==
  [][trusted /\ errno = "0" /\ Executed /\ Len(sent') < call'.rows =>
       LET x == AppValue(apd[cur], Len(sent') + 1)
       IN  Means(ipd.p, call'.t, x) = {} \/ OverStrict(x, call'.stmt, call'.t, call'.rows)]_vars

InPlace(v, p, t) == v = "DOUBLE" /\ p = "DOUBLE" /\ t \in {"TIMESTAMP", "FLOAT", "INT"}

\* SQLExecute leaves the application's array as it is, so that a statement can
\* be executed again with it: except where a double is converted in its place
\* (SQL_C_DOUBLE, SQL_DOUBLE to a column of another type).
InputKept ==
  [][Executed => \/ apd'[cur].mem = apd[cur].mem
                 \/ InPlace(apd[cur].v, ipd.p, call'.t)]_vars
=============================================================================
