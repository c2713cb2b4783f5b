------------------------------- MODULE Fetch -------------------------------
(***************************************************************************)
(* SQLFetch: from the blocks of rows that taos_fetch_raw_block delivers to *)
(* the rowsets of the application (_stmt_fetch_rows in stmt.c over         *)
(* _fetch_row and _tsdb_stmt_fetch_rows_block in tsdb.c).                  *)
(*                                                                         *)
(* The driver's cursor is a place in the current block; a rowset may end   *)
(* inside a block and a block inside a rowset, the server may fail at any  *)
(* block and the conversion of any row may fail.                           *)
(***************************************************************************)
EXTENDS Integers

CONSTANTS Rows,      \* rows of a result
          MaxBlock,  \* rows of the largest block
          MaxSize,   \* bound: the largest SQL_ATTR_ROW_ARRAY_SIZE
          Outcome    \* how the conversion of a row's bound columns ends

ASSUME ConstAssumption ==
  /\ Rows \in Nat
  /\ MaxBlock \in Nat
  /\ MaxSize \in Nat \ {0}
  /\ Outcome \in [1..Rows -> {"success", "with_info", "error"}]

VARIABLES
  row_array_size, \* ARD's DESC_ARRAY_SIZE
  fetched,        \* rows the server has delivered, the current block included
  nr, pos,        \* the block: its rows, and how many of them are used
  eof,            \* res->eof
  pc,             \* "idle", "row" (_stmt_fetch_row) or "fill" (_stmt_fill_row)
  i_row,          \* rows in the rowset of the call
  buffer,         \* the application's arrays: per place, the row in it, or 0
  status,         \* DESC_ARRAY_STATUS_PTR[]
  processed,      \* *DESC_ROWS_PROCESSED_PTR
  ret,            \* how the last call ended
  taken           \* the driver's place in the result when it ended

blockVars == <<fetched, nr, pos, eof>>
outVars   == <<processed, ret, taken>>
vars == <<row_array_size, blockVars, pc, i_row, buffer, status, outVars>>

Places == 1..MaxSize

Current == fetched - nr + pos   \* the row the cursor is at

Init ==
  /\ row_array_size = 1
  /\ fetched = 0 /\ nr = 0 /\ pos = 0 /\ eof = FALSE
  /\ pc = "idle"
  /\ i_row = 0
  /\ buffer = [i \in Places |-> 0]
  /\ status = [i \in Places |-> "norow"]
  /\ processed = 0
  /\ ret = "none"
  /\ taken = 0

\* 0 is refused with 01S02.
_stmt_set_row_array_size(n) ==
  /\ pc = "idle"
  /\ row_array_size' = n
  /\ UNCHANGED <<blockVars, pc, i_row, buffer, status, outVars>>

\* Mutant: the old result's eof survives into the next one.
Reopen_KeepsEof ==
  /\ pc = "idle"
  /\ fetched' = 0 /\ nr' = 0 /\ pos' = 0 /\ UNCHANGED eof
  /\ processed' = 0
  /\ ret' = "none"
  /\ taken' = 0
  /\ UNCHANGED <<row_array_size, pc, i_row, buffer, status>>

\* _stmt_close_result and the execution of another query.  The driver resets the
\* block and eof; that processed, ret and taken begin anew is the application's
\* view of the new result.
Reopen ==
  /\ pc = "idle"
  /\ fetched' = 0 /\ nr' = 0 /\ pos' = 0 /\ eof' = FALSE
  /\ processed' = 0
  /\ ret' = "none"
  /\ taken' = 0
  /\ UNCHANGED <<row_array_size, pc, i_row, buffer, status>>

SQLFetch ==
  /\ pc = "idle"
  /\ pc' = "row"
  /\ i_row' = 0
  /\ UNCHANGED <<row_array_size, blockVars, buffer, status, outVars>>

\* Mutant: SQL_ROW_NOROW is written from one place too late.
Return_Late(r, n, st) ==
  /\ pc' = "idle"
  /\ processed' = n
  /\ status' = [i \in Places |-> IF n + 1 < i /\ i <= row_array_size THEN "norow" ELSE st[i]]
  /\ ret' = r
  /\ taken' = Current
  /\ UNCHANGED row_array_size

\* The end of _stmt_fetch_x: the row count and SQL_ROW_NOROW for the rest.
Return(r, n, st) ==
  /\ pc' = "idle"
  /\ processed' = n
  /\ status' = [i \in Places |-> IF n < i /\ i <= row_array_size THEN "norow" ELSE st[i]]
  /\ ret' = r
  /\ taken' = Current
  /\ UNCHANGED row_array_size

\* _fetch_row, the current block has another row.
NextInBlock ==
  /\ pc = "row" /\ ~eof /\ pos < nr
  /\ pos' = pos + 1
  /\ pc' = "fill"
  /\ UNCHANGED <<row_array_size, fetched, nr, eof, i_row, buffer, status, outVars>>

AskServer == pc = "row" /\ ~eof /\ pos >= nr

\* taos_fetch_raw_block delivers a block of k rows ...
FetchBlock ==
  /\ AskServer
  /\ \E k \in 1..MaxBlock : fetched + k <= Rows /\ fetched' = fetched + k /\ nr' = k
  /\ pos' = 0
  /\ UNCHANGED <<row_array_size, eof, pc, i_row, buffer, status, outVars>>

\* ... or none: the result has ended, for this call and for every later one.
FetchEnd ==
  /\ \/ pc = "row" /\ eof
     \/ AskServer /\ fetched = Rows
  /\ eof' = TRUE
  /\ nr' = 0 /\ pos' = 0
  /\ Return(IF i_row = 0 THEN "no_data" ELSE "success", i_row, status)
  /\ UNCHANGED <<fetched, i_row, buffer>>

\* ... or fails; the rows of the call so far stay in the application's arrays.
FetchFail ==
  /\ AskServer
  /\ nr' = 0 /\ pos' = 0
  /\ Return("error", i_row, status)
  /\ UNCHANGED <<fetched, eof, i_row, buffer>>

\* _stmt_fill_row: the row goes to its place, whatever becomes of its columns.
_stmt_fill_row ==
  /\ pc = "fill"
  /\ buffer' = [buffer EXCEPT ![i_row + 1] = Current]
  /\ i_row' = i_row + 1
  /\ LET st == [status EXCEPT ![i_row + 1] = Outcome[Current]]
     IN IF i_row + 1 < row_array_size
        THEN pc' = "row" /\ status' = st /\ UNCHANGED <<row_array_size, outVars>>
        ELSE Return("success", i_row + 1, st)
  /\ UNCHANGED blockVars

Driver == NextInBlock \/ FetchBlock \/ FetchEnd \/ FetchFail \/ _stmt_fill_row

Next ==
  \/ \E n \in Places : _stmt_set_row_array_size(n)
  \/ Reopen
  \/ SQLFetch
  \/ Driver

\* A call that has begun goes on; the application owes no call.
Spec == Init /\ [][Next]_vars /\ WF_vars(Driver)

-----------------------------------------------------------------------------
(* Properties.                                                             *)

TypeOK ==
  /\ row_array_size \in Places
  /\ fetched \in 0..Rows
  /\ nr \in 0..MaxBlock
  /\ pos \in 0..nr
  /\ eof \in BOOLEAN
  /\ pc \in {"idle", "row", "fill"}
  /\ i_row \in 0..MaxSize
  /\ buffer \in [Places -> 0..Rows]
  /\ status \in [Places -> {"success", "with_info", "error", "norow"}]
  /\ processed \in 0..MaxSize
  /\ ret \in {"none", "success", "no_data", "error"}
  /\ taken \in 0..Rows

\* The rowset a call leaves is the rows up to the cursor, in order, none lost or
\* repeated, wherever blocks end in it and whether the call failed or not.
RowsetIsNextRows ==
  pc = "idle" =>
    \A i \in 1..processed : buffer[i] = taken - processed + i

\* Between calls, the status of a row in the rowset is what became of it.
StatusTells ==
  pc = "idle" => \A i \in 1..processed : status[i] = Outcome[buffer[i]]

\* The status array tells of each place what became of the row in it: a row that
\* fails to convert neither moves the others nor hides behind SQL_SUCCESS, and no
\* place keeps the status of an earlier rowset, after the end or an error neither.
StatusArrayTells ==
  [][pc # "idle" /\ pc' = "idle" =>
       \A i \in 1..row_array_size :
         status'[i] = IF i <= processed' THEN Outcome[buffer'[i]] ELSE "norow"]_vars

\* Once SQL_NO_DATA was returned, nothing but SQL_NO_DATA follows until another
\* result is opened: the server is not asked again after its last block.
EndIsFinal ==
  [][ret = "no_data" => \/ ret' = "no_data" /\ fetched' = fetched
                        \/ taken' = 0 /\ ret' = "none"]_vars

\* Blocks do not show: the calls are those of a cursor over the whole result.
Cursor == INSTANCE RowCursor WITH size <- row_array_size, rowset <- processed

ImplementsCursor == Cursor!Spec
=============================================================================
