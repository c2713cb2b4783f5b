------------------------------ MODULE GetData ------------------------------
(***************************************************************************)
(* Piecewise retrieval of column values: SQLGetData on the current row,    *)
(* and the filling of bound columns by SQLFetch, which share the           *)
(* statement's get_data_ctx (stmt.c).                                      *)
(*                                                                         *)
(* The driver remembers between two calls how much of the value is left    *)
(* (pos, nr) and, because a piece may end inside a character of the        *)
(* target encoding, the converted bytes of one character that did not fit  *)
(* (residual, curr, end).  A value is a sequence of characters, a          *)
(* character the bytes of its conversion, and a byte is named by the row,  *)
(* the column, the character and its place in it, so that a byte handed to *)
(* the application tells where it comes from.                              *)
(***************************************************************************)
EXTENDS Integers, Sequences, SequencesExt, FiniteSetsExt

CONSTANTS
  Columns,    \* 1..ColumnCount
  Kind,       \* Columns -> Kinds
  Widths,     \* target -> column -> bytes of each character of its values
  Rows,       \* bound: rows of the result
  Lengths,    \* buffer lengths the application passes
  Bound,      \* the bound columns, ascending: <<[col, target, len], ...>>
  Careful     \* the application reads a text it has started to its end, does not
              \* repeat a call that could not get at the value, and binds buffers
              \* in which a text has room

Kinds == {"text", "bytes", "number", "null", "unsupported"}
VarTargets == {"char", "wchar", "binary"}
Targets == VarTargets \cup {"long"}

Unset == 0  \* no bookmarks: column 0 means that nothing is prepared

ASSUME ConstAssumption ==
  /\ Kind \in [Columns -> Kinds]
  /\ \A tg \in VarTargets, c \in Columns : Widths[tg][c] \in Seq(Nat \ {0})
  /\ \A c \in Columns : \A i \in DOMAIN Widths["wchar"][c] : Widths["wchar"][c][i] \in {2, 4}
  /\ \A c \in Columns : \A i \in DOMAIN Widths["binary"][c] : Widths["binary"][c][i] = 1
  /\ Bound \in Seq([col : Columns, target : Targets, len : Nat])
  /\ Unset \notin Columns
  /\ Rows \in Nat /\ Lengths \subseteq Nat /\ Careful \in BOOLEAN

VARIABLES
  row,       \* the current row, 0 before the first, Rows + 1 after the last
  ctx,       \* stmt->get_data_ctx
  len,       \* the buffer length of the last SQLGetData
  ret,       \* how it ended, "none" after SQLFetch
  piece,     \* the bytes it put into the buffer
  strlen,    \* ... and its *StrLen_or_IndPtr
  given,     \* bytes handed out since the value was last started
  bound      \* what the last SQLFetch put into the bound buffers

vars == <<row, ctx, len, ret, piece, strlen, given, bound>>

NullData == -1  \* SQL_NULL_DATA
NoValue  == [row |-> 0, col |-> Unset]

\* pos is "null" (NULL), "at" (inside the value) or "end" (-1); chars are the
\* characters from pos on, residual the bytes from curr to end.
EmptyCtx == [col |-> Unset, target |-> "char", tsdb |-> NoValue, pos |-> "null",
             chars |-> <<>>, residual |-> <<>>]

Init ==
  /\ row = 0
  /\ ctx = EmptyCtx
  /\ len = 0
  /\ ret = "none"
  /\ piece = <<>>
  /\ strlen = 0
  /\ given = <<>>
  /\ bound = <<>>

-----------------------------------------------------------------------------
(* Values.                                                                 *)

\* The conversion of one character: its bytes in the target encoding.
Bytes(v, tg, i) ==
  [k \in 1..Widths[tg][v.col][i] |-> [row |-> v.row, col |-> v.col, char |-> i, byte |-> k]]

Value(v, tg) == [i \in DOMAIN Widths[tg][v.col] |-> Bytes(v, tg, i)]

\* iconv of whole characters.
Converted(chars) == FlattenSeq(chars)

\* How many whole characters fit into n bytes (iconv stops with E2BIG).
Fit(chars, n) ==
  Max({k \in 0..Len(chars) : Len(Converted(SubSeq(chars, 1, k))) <= n})

\* _get_data_ctx_reset: forgets the value; residual, curr and end stay.
_get_data_ctx_reset(x) ==
  [x EXCEPT !.col = Unset, !.pos = "null", !.chars = <<>>]

-----------------------------------------------------------------------------
(* The copy functions: from a context and a buffer length to the context   *)
(* after the call, its return code, the bytes copied and the length told.  *)

Result(x, r, p, n) == [ctx |-> x, ret |-> r, piece |-> p, strlen |-> n]
Failed(x) == Result(x, "error", <<>>, 0)

\* The bytes of a unit of text, and those a buffer has room for before the
\* terminator.
Unit(tg) == IF tg = "wchar" THEN 2 ELSE 1
Room(size, unit) == ((size - unit) \div unit) * unit

\* to_char (unit 1) and to_wchar (unit 2): the residual first, then whole
\* characters, then as much of one more character as fits.
copy_buf_to_text(x, size, unit) ==
  LET remains == Len(Converted(x.chars)) + Len(x.residual)
      room    == Room(size, unit)
      n       == Fit(x.chars, room - Len(x.residual))
      whole   == x.residual \o Converted(SubSeq(x.chars, 1, n))
      next    == x.chars[n + 1]
      part    == Min({Len(next), room - Len(whole)})
  IN IF x.pos = "end" THEN Result(x, "no_data", <<>>, 0)
     ELSE IF size <= unit THEN Result(x, "with_info", <<>>, remains)
     ELSE IF Len(x.residual) > room
       THEN Result([x EXCEPT !.residual = SubSeq(@, room + 1, Len(@))],
                   "with_info", SubSeq(x.residual, 1, room), remains)
     ELSE IF n = Len(x.chars)
       THEN Result([x EXCEPT !.pos = "end", !.chars = <<>>, !.residual = <<>>],
                   "success", whole, Len(whole))
     ELSE Result([x EXCEPT !.chars = SubSeq(@, n + 2, Len(@)),
                           !.residual = SubSeq(next, part + 1, Len(next))],
                 "with_info", whole \o SubSeq(next, 1, part), remains)

\* Mutants: the wrong length is told, or the end is not remembered.
copy_to_binary_After(x, size, told_after) ==
  LET n == Min({size, Len(x.chars)})
      p == Converted(SubSeq(x.chars, 1, n))
  IN IF x.pos = "end" THEN Result(x, "no_data", <<>>, 0)
     ELSE IF n = Len(x.chars)
       THEN Result([x EXCEPT !.pos = "end", !.chars = <<>>], "success", p, n)
     ELSE Result([x EXCEPT !.chars = SubSeq(@, n + 1, Len(@))], "with_info", p, Len(x.chars) - n)

copy_to_binary_Again(x, size, told_after) ==
  LET n == Min({size, Len(x.chars)})
      p == Converted(SubSeq(x.chars, 1, n))
  IN Result([x EXCEPT !.chars = SubSeq(@, n + 1, Len(@))],
            IF n = Len(x.chars) THEN "success" ELSE "with_info", p, n)

\* buf_to_binary tells the length before the copy, varbinary_to_binary and
\* geometry_to_binary what is left after it; only the former needs a byte.
copy_to_binary(x, size, told_after) ==
  LET n == Min({size, Len(x.chars)})
      p == Converted(SubSeq(x.chars, 1, n))
  IN IF x.pos = "end" THEN Result(x, "no_data", <<>>, 0)
     ELSE IF size = 0 /\ ~told_after THEN Failed(x)
     ELSE IF n = Len(x.chars)
       THEN Result([x EXCEPT !.pos = "end", !.chars = <<>>], "success", p, n)
     ELSE Result([x EXCEPT !.chars = SubSeq(@, n + 1, Len(@))], "with_info", p,
                 IF told_after THEN Len(x.chars) - n ELSE Len(x.chars))

\* A number into a fixed target; a text is refused (strtoll always sets end).
copy_fixed(x) ==
  IF Kind[x.tsdb.col] = "number" THEN Result(x, "success", <<>>, 0) ELSE Failed(x)

\* _stmt_get_data_copy dispatches on the value in ctx->tsdb.
_stmt_get_data_copy(x, size, ind) ==
  IF x.tsdb = NoValue THEN Failed(x)
  ELSE CASE Kind[x.tsdb.col] = "null" ->
              IF ind THEN Result(x, "success", <<>>, NullData) ELSE Failed(x)
         [] Kind[x.tsdb.col] = "bytes" ->
              IF x.target = "binary" THEN copy_to_binary(x, size, TRUE) ELSE Failed(x)
         [] OTHER ->
              CASE x.target \in {"char", "wchar"} -> copy_buf_to_text(x, size, Unit(x.target))
                [] x.target = "binary" -> copy_to_binary(x, size, FALSE)
                [] x.target = "long"   -> copy_fixed(x)

\* Mutants: the row is not checked, or it is the row after the current one.
_stmt_get_data_prepare_ctx_AnyRow(x, r) ==
  LET v == [row |-> r, col |-> x.col]
  IN IF Kind[x.col] = "unsupported" THEN Failed(x)
     ELSE IF Kind[x.col] = "null" \/ x.target = "long"
       THEN Result([x EXCEPT !.tsdb = v], "success", <<>>, 0)
     ELSE Result([x EXCEPT !.tsdb = v, !.pos = "at", !.chars = Value(v, x.target)],
                 "success", <<>>, 0)

_stmt_get_data_prepare_ctx_Next(x, r) ==
  _stmt_get_data_prepare_ctx_AnyRow(x, r + 1)

\* _stmt_get_data_prepare_ctx: get_data fails where there is no row and on a
\* type the driver does not know, and leaves ctx->tsdb alone; pos is set for
\* variable-length targets of values that are not NULL.
_stmt_get_data_prepare_ctx(x, r) ==
  LET v == [row |-> r, col |-> x.col]
  IN IF r \notin 1..Rows \/ Kind[x.col] = "unsupported" THEN Failed(x)
     ELSE IF Kind[x.col] = "null" \/ x.target = "long"
       THEN Result([x EXCEPT !.tsdb = v], "success", <<>>, 0)
     ELSE Result([x EXCEPT !.tsdb = v, !.pos = "at", !.chars = Value(v, x.target)],
                 "success", <<>>, 0)

\* Mutant: another column goes on where the last one was left.
_stmt_get_data_x_Unprepared(x, r, a) ==
  LET prepared == _stmt_get_data_prepare_ctx([x EXCEPT !.col = a.col, !.target = a.target], r)
  IN IF x.col = Unset
     THEN IF prepared.ret = "success" THEN _stmt_get_data_copy(prepared.ctx, a.len, a.ind) ELSE prepared
     ELSE _stmt_get_data_copy(x, a.len, a.ind)

\* The column is prepared on its first call; the target may not change then.
_stmt_get_data_x(x, r, a) ==
  LET fresh == [x EXCEPT !.col = a.col, !.target = a.target]
      prepared == _stmt_get_data_prepare_ctx(fresh, r)
  IN IF x.col # a.col
     THEN IF prepared.ret = "success"
          THEN _stmt_get_data_copy(prepared.ctx, a.len, a.ind)
          ELSE prepared
     ELSE IF x.target # a.target THEN Failed(x)
     ELSE _stmt_get_data_copy(x, a.len, a.ind)

-----------------------------------------------------------------------------
(* SQLFetch (row array size 1) and SQLGetData.                             *)

\* The bound columns in order, each followed by a reset; an error ends the row.
_stmt_fill_row(x, r) ==
  LET Fill(acc, b) ==
        LET got == _stmt_get_data_x(acc.ctx, r, [col |-> b.col, target |-> b.target,
                                                 len |-> b.len, ind |-> TRUE])
        IN IF acc.failed THEN acc
           ELSE [ctx |-> _get_data_ctx_reset(got.ctx),
                 bufs |-> Append(acc.bufs, [col |-> b.col, target |-> b.target, bytes |-> got.piece]),
                 failed |-> got.ret \notin {"success", "with_info"}]
  IN FoldLeft(Fill, [ctx |-> x, bufs |-> <<>>, failed |-> FALSE], Bound)

Whole(v, tg) == Converted(Value(v, tg))

ASSUME CarefulAssumption ==
  Careful => \A i \in 1..Len(Bound), r \in 1..Rows :
    LET b == Bound[i]
    IN b.target \in {"char", "wchar"} /\ Kind[b.col] \in {"text", "number"} =>
         Len(Whole([row |-> r, col |-> b.col], b.target)) <= Room(b.len, Unit(b.target))

Here == [row |-> row, col |-> ctx.col]

MidText ==
  /\ ctx.tsdb = Here /\ ctx.pos = "at"
  /\ ctx.target \in {"char", "wchar"} /\ Kind[ctx.col] \in {"text", "number"}

MayLeave  == Careful => ~MidText
MayRepeat == Careful => ctx.tsdb = Here

\* The next row, with its bound columns, or the end of the result.
SQLFetch ==
  LET fill == _stmt_fill_row(_get_data_ctx_reset(ctx), row + 1)
  IN /\ MayLeave
     /\ row <= Rows
     /\ row' = row + 1
     /\ IF row < Rows
        THEN ctx' = fill.ctx /\ bound' = fill.bufs
        ELSE ctx' = _get_data_ctx_reset(ctx) /\ bound' = <<>>
     /\ len' = 0
     /\ ret' = "none"
     /\ piece' = <<>>
     /\ strlen' = 0
     /\ given' = <<>>

SQLGetData(a) ==
  LET got  == _stmt_get_data_x(ctx, row, a)
      same == ctx.col = a.col
  IN /\ row > 0
     /\ IF same THEN MayRepeat ELSE MayLeave
     /\ ctx' = got.ctx
     /\ len' = a.len
     /\ ret' = got.ret
     /\ piece' = got.piece
     /\ strlen' = got.strlen
     /\ given' = IF same THEN given \o got.piece ELSE got.piece
     /\ UNCHANGED <<row, bound>>

\* The indicator pointer matters for NULL only.
Args ==
  {a \in [col : Columns, target : Targets, len : Lengths, ind : BOOLEAN] :
     a.ind \/ Kind[a.col] = "null"}

Next == SQLFetch \/ \E a \in Args : SQLGetData(a)

Spec == Init /\ [][Next]_vars

-----------------------------------------------------------------------------
(* Properties.                                                             *)

Answered == ret \in {"success", "with_info"}
Variable == Answered /\ ctx.target \in VarTargets /\ strlen # NullData

\* The pieces a column was read in are the bytes of its value in the current
\* row, in order, none lost, repeated or foreign, and SQL_SUCCESS comes with the
\* last one: what tests/c/odbc_test.c compares with strncmp piece by piece.
PiecesAreTheValue ==
  Variable =>
    /\ IsPrefix(given, Whole(Here, ctx.target))
    /\ ret = "success" => given = Whole(Here, ctx.target)

\* *StrLen_or_IndPtr of a truncated text is what was left before the call, of a
\* truncated varbinary what is left after it.
StrLenIsRemaining ==
  Variable /\ ret = "with_info" =>
    LET total == Len(Whole(Here, ctx.target))
    IN strlen = total - Len(given) + (IF Kind[ctx.col] = "bytes" THEN 0 ELSE Len(piece))

\* Only a value that exists is answered: where there is no row, or a type the
\* driver cannot read, no call succeeds, however often it is made.
OnlyValuesAreAnswered ==
  Answered => row \in 1..Rows /\ Kind[ctx.col] # "unsupported"

\* A loop that reads a text, or what is read as one, until SQL_NO_DATA ends: every
\* truncated call whose buffer has room for a unit and the terminator moves on, and
\* nothing follows the end.  (A NULL or a target of fixed width is answered with
\* SQL_SUCCESS however often it is read; a loop on it must end by itself.)
LoopEnds ==
  [][row' = row =>
       /\ ret' = "with_info" /\ len' >= 4 => piece' # <<>>
       /\ Variable /\ ret = "success" /\ ctx'.col = ctx.col => ret' \in {"no_data", "error"}]_vars

\* A bound buffer holds the beginning of its own column in its own row.
BoundIsValue ==
  \A i \in DOMAIN bound :
    LET b == bound[i]
    IN b.target \in VarTargets /\ Kind[b.col] \in {"text", "number"} =>
         IsPrefix(b.bytes, Whole([row |-> row, col |-> b.col], b.target))
=============================================================================
