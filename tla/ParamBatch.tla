------------------------------ MODULE ParamBatch ------------------------------
(***************************************************************************)
(* SQLExecute with arrays of parameters (_stmt_execute_with_param_state in *)
(* stmt.c): the rows of the arrays are cut into batches, each batch is     *)
(* converted a column at a time into the driver's buffers, handed to       *)
(* taos_stmt2_bind_param and executed.                                     *)
(*                                                                         *)
(* A batch ends after BatchMax rows, before a row for another sub-table    *)
(* and before a row that fails to convert; the last is found out a column  *)
(* at a time, so that a batch may still shrink when its first columns are  *)
(* done.  A value is named by its row: a place in a buffer or a table of   *)
(* the server holds the number of the row whose value it is.  A warning    *)
(* of a conversion is a failure, since stmt->strict is always set.         *)
(***************************************************************************)
EXTENDS Integers, Sequences, FiniteSets

CONSTANTS NrParams,  \* parameter markers
          Kind,      \* of each: the sub-table's name, a value of fixed width
                     \* (converted, or read in the application's own array) or
                     \* of variable width
          Outcomes,  \* of each: how the conversion of a value may end
          Tables,    \* names of sub-tables
          NoTable,   \* no name bound
          MaxRows,   \* bound: the largest SQL_ATTR_PARAMSET_SIZE
          BatchMax   \* INT16_MAX

Params == 1..NrParams
Columns == {p \in Params : Kind[p] # "subtbl"}

ASSUME ConstAssumption ==
  /\ NrParams \in Nat \ {0}
  /\ Kind \in [Params -> {"subtbl", "fixed", "var"}]
  /\ \A p \in Params : Kind[p] = "subtbl" => p = 1
  /\ Outcomes \in [Params -> SUBSET {"ok", "null", "bad"}]
  /\ NoTable \notin Tables
  /\ MaxRows \in Nat \ {0}
  /\ BatchMax \in Nat \ {0}

VARIABLES
  size,          \* APD's DESC_ARRAY_SIZE
  outcome,       \* of each row and parameter of the application's arrays
  table,         \* of each row, the sub-table it names
  pc,            \* "app", "col" (a column), "bind" or "exec"
  i_row,         \* rows before the batch (i_batch_offset)
  nr_batch_size,
  i_param,
  row_err,
  subtbl,        \* tsdb_params->subtbl
  cells,         \* per parameter and place of a batch: buffer and is_null
  sent,          \* the rows taos_stmt2_bind_param was given
  loaded,        \* the rows the server has taken in this call
  status,        \* IPD's DESC_ARRAY_STATUS_PTR[]
  processed,     \* *DESC_ROWS_PROCESSED_PTR
  ret            \* how the last call ended

inputVars == <<size, outcome, table>>
batchVars == <<i_row, nr_batch_size, i_param, row_err>>
outVars   == <<status, processed, ret>>
vars == <<inputVars, pc, batchVars, subtbl, cells, sent, loaded, outVars>>

Places == 1..BatchMax
Null  == 0    \* is_null is set
Stale == -1   \* what an earlier call has left

Init ==
  /\ size = 1
  /\ outcome = <<[p \in Params |-> "ok"]>>
  /\ table \in [1..1 -> Tables]
  /\ pc = "app"
  /\ i_row = 0 /\ nr_batch_size = 0 /\ i_param = 1 /\ row_err = FALSE
  /\ subtbl = NoTable
  /\ cells = [p \in Params |-> [k \in Places |-> Stale]]
  /\ sent = <<>>
  /\ loaded = <<>>
  /\ status = <<"stale">>
  /\ processed = 0
  /\ ret = "none"

\* Rows in the batch that begins after row from, of n rows.
Batch(from, n) == IF n - from > BatchMax THEN BatchMax ELSE n - from

\* The application is done with a call and drops its arrays; what the driver's
\* buffers and the status array hold from now on is stale.
DropArrays ==
  /\ pc = "app" /\ ret # "none"
  /\ size' = 1
  /\ outcome' = <<[p \in Params |-> "ok"]>>
  /\ table' \in [1..1 -> Tables]
  /\ cells' = [p \in Params |-> [k \in Places |-> Stale]]
  /\ status' = <<"stale">>
  /\ sent' = <<>> /\ loaded' = <<>>
  /\ processed' = 0
  /\ ret' = "none"
  /\ i_row' = 0 /\ nr_batch_size' = 0 /\ i_param' = 1 /\ row_err' = FALSE
  /\ UNCHANGED <<pc, subtbl>>

\* SQLExecute with arrays of n rows.
SQLExecute(n) ==
  /\ pc = "app" /\ ret = "none"
  /\ size' = n
  /\ outcome' \in [1..n -> {o \in [Params -> {"ok", "null", "bad"}] :
                              \A p \in Params : o[p] \in Outcomes[p]}]
  /\ table' \in [1..n -> Tables]
  /\ status' = [r \in 1..n |-> "stale"]
  /\ i_row' = 0 /\ nr_batch_size' = Batch(0, n) /\ i_param' = 1 /\ row_err' = FALSE
  /\ processed' = 0
  /\ pc' = "col"
  /\ UNCHANGED <<subtbl, cells, sent, loaded, ret>>

\* stmt_execute: what is no error becomes the SQL_SUCCESS of _stmt_fill_IRD
Return(r) == pc' = "app" /\ ret' = IF r = "error" THEN "error" ELSE "success"

NextParam ==
  IF i_param < NrParams
  THEN i_param' = i_param + 1 /\ UNCHANGED pc
  ELSE pc' = "bind" /\ UNCHANGED i_param

\* The sub-table's name is required; a batch is for one table.
Named(k) == outcome[i_row + k][1] = "ok"
SameTable(k) == table[i_row + k] = table[i_row + 1]

\* The first n rows of the batch name its table, and no more.
NamesEndAt(n) ==
  /\ \A k \in 1..n : Named(k) /\ SameTable(k)
  /\ n < nr_batch_size => ~(Named(n + 1) /\ SameTable(n + 1))

PreparesSubTbl == pc = "col" /\ Kind[i_param] = "subtbl"

\* _stmt_prepare_col_subtbl: the batch ends before a row for another table.
SubTblBinds ==
  /\ PreparesSubTbl
  /\ \E n \in 1..nr_batch_size :
       /\ NamesEndAt(n)
       /\ n < nr_batch_size => Named(n + 1)
       /\ nr_batch_size' = n
  /\ subtbl' = table[i_row + 1]
  /\ NextParam
  /\ UNCHANGED <<inputVars, i_row, row_err, cells, sent, loaded, outVars>>

\* A name that is null or unreadable fails the call, not just its row.
SubTblFails ==
  /\ PreparesSubTbl
  /\ \E n \in 0..(nr_batch_size - 1) :
       /\ NamesEndAt(n)
       /\ ~Named(n + 1)
       /\ subtbl' = IF n = 0 THEN subtbl ELSE table[i_row + 1]
  /\ Return("error")
  /\ UNCHANGED <<inputVars, batchVars, cells, sent, loaded, status, processed>>

Good(k) == outcome[i_row + k][i_param] # "bad"

\* The values of the first n rows of the batch convert, and no more.
ValuesEndAt(n) ==
  /\ \A k \in 1..n : Good(k)
  /\ n < nr_batch_size => ~Good(n + 1)

\* The value of row i_row + k in the driver's buffers.
Value(p, k) == IF outcome[i_row + k][p] = "null" THEN Null ELSE i_row + k

\* What the row that fails leaves in its place is not sent.
Converted(n) ==
  [cells EXCEPT ![i_param] =
     [k \in Places |-> IF k <= n THEN Value(i_param, k) ELSE cells[i_param][k]]]

Marked(n) ==
  [r \in 1..size |->
     IF i_row < r /\ r <= i_row + n THEN "success"
     ELSE IF r = i_row + n + 1 /\ n < nr_batch_size THEN "error"
     ELSE status[r]]

Converts == pc = "col" /\ Kind[i_param] # "subtbl"

\* Mutant: a batch that has become empty is begun again.
ConvertCol_Again ==
  /\ Converts
  /\ \E n \in 0..nr_batch_size :
       /\ ValuesEndAt(n)
       /\ cells' = Converted(n)
       /\ status' = Marked(n)
       /\ row_err' = (row_err \/ n < nr_batch_size)
       /\ IF n > 0 THEN NextParam /\ nr_batch_size' = n /\ UNCHANGED ret
          ELSE IF i_row = 0
          THEN Return("error") /\ nr_batch_size' = 0 /\ UNCHANGED i_param
          ELSE nr_batch_size' = Batch(i_row, size) /\ i_param' = 1 /\ UNCHANGED <<pc, ret>>
  /\ UNCHANGED <<inputVars, i_row, subtbl, sent, loaded, processed>>

\* _stmt_prepare_col_data: a column of the batch, up to the first row that fails.
\* A batch without a row ends the call, with SQL_ERROR only if it is the first.
ConvertCol ==
  /\ Converts
  /\ \E n \in 0..nr_batch_size :
       /\ ValuesEndAt(n)
       /\ cells' = Converted(n)
       /\ status' = Marked(n)
       /\ row_err' = (row_err \/ n < nr_batch_size)
       /\ nr_batch_size' = n
       /\ IF n > 0 THEN NextParam /\ UNCHANGED ret
          ELSE Return(IF i_row = 0 THEN "error" ELSE "success") /\ UNCHANGED i_param
  /\ UNCHANGED <<inputVars, i_row, subtbl, sent, loaded, processed>>

\* _stmt_prepare_col fails: a pair of types without a conversion, or no memory, for
\* the copy of the name as well.
PrepareFails ==
  /\ pc = "col"
  /\ subtbl' \in {subtbl} \cup (IF Kind[i_param] = "subtbl" THEN {NoTable} ELSE {})
  /\ Return("error")
  /\ UNCHANGED <<inputVars, batchVars, cells, sent, loaded, status, processed>>

\* Where _stmt_pack_stmt2_var_bind puts the value at place k: behind the values
\* before it, without a gap for the nulls.
Packed(p, k) == Cardinality({j \in 1..k : cells[p][j] # Null})

\* Mutant: values are left where the conversion has put them.
Pack_Gaps(p) == cells[p]

Pack(p) ==
  IF Kind[p] # "var" \/ nr_batch_size <= 1 THEN cells[p]
  ELSE [j \in Places |->
          IF \E k \in 1..nr_batch_size : cells[p][k] # Null /\ Packed(p, k) = j
          THEN cells[p][CHOOSE k \in 1..nr_batch_size :
                          cells[p][k] # Null /\ Packed(p, k) = j]
          ELSE cells[p][j]]

\* taos_stmt2_bind_param: the server finds a value of fixed width at its place, one
\* of variable width behind those before it, and reads none for a null.
Read(p, k) ==
  IF cells[p][k] = Null THEN Null
  ELSE Pack(p)[IF Kind[p] = "var" THEN Packed(p, k) ELSE k]

\* Mutant: the rows of the batch as it was before it shrank are counted.
Bind_CountsAll ==
  /\ pc = "bind"
  /\ processed' = processed + Batch(i_row, size)
  /\ sent' = [k \in 1..nr_batch_size |->
                [table |-> subtbl, value |-> [p \in Columns |-> Read(p, k)]]]
  /\ pc' = "exec"
  /\ UNCHANGED <<inputVars, batchVars, subtbl, cells, loaded, status, ret>>

\* The batch is counted, packed and bound.
Bind ==
  /\ pc = "bind"
  /\ processed' = processed + nr_batch_size
  /\ sent' = [k \in 1..nr_batch_size |->
                [table |-> subtbl, value |-> [p \in Columns |-> Read(p, k)]]]
  /\ pc' = "exec"
  /\ UNCHANGED <<inputVars, batchVars, subtbl, cells, loaded, status, ret>>

\* taos_stmt2_bind_param refuses it, when it has been counted.
BindFails ==
  /\ pc = "bind"
  /\ processed' = processed + nr_batch_size
  /\ Return("error")
  /\ UNCHANGED <<inputVars, batchVars, subtbl, cells, sent, loaded, status>>

\* The server takes the batch; after a row in error the rest is left alone.
Exec ==
  /\ pc = "exec"
  /\ loaded' = loaded \o sent
  /\ IF row_err THEN Return("with_info") /\ UNCHANGED batchVars
     ELSE IF i_row + nr_batch_size >= size
     THEN Return("success") /\ UNCHANGED batchVars
     ELSE /\ i_row' = i_row + nr_batch_size
          /\ nr_batch_size' = Batch(i_row + nr_batch_size, size)
          /\ i_param' = 1 /\ row_err' = FALSE
          /\ pc' = "col" /\ UNCHANGED ret
  /\ UNCHANGED <<inputVars, subtbl, cells, sent, status, processed>>

\* The server refuses the batch.
ExecFails ==
  /\ pc = "exec"
  /\ Return("error")
  /\ UNCHANGED <<inputVars, batchVars, subtbl, cells, sent, loaded, status, processed>>

\* The server has taken the batch, but its answer is lost or cannot be used.
ExecUnanswered ==
  /\ pc = "exec"
  /\ loaded' = loaded \o sent
  /\ Return("error")
  /\ UNCHANGED <<inputVars, batchVars, subtbl, cells, sent, status, processed>>

Driver ==
  \/ SubTblBinds \/ SubTblFails
  \/ ConvertCol
  \/ PrepareFails
  \/ Bind \/ BindFails
  \/ Exec \/ ExecFails \/ ExecUnanswered

Next ==
  \/ DropArrays
  \/ \E n \in 1..MaxRows : SQLExecute(n)
  \/ Driver

\* A call that has begun goes on; the application owes no call.
Spec == Init /\ [][Next]_vars /\ WF_vars(Driver)

-----------------------------------------------------------------------------
(* Properties.                                                             *)

Cells == {Stale} \cup 0..MaxRows
Rows == [table : Tables \cup {NoTable}, value : [Columns -> Cells]]

TypeOK ==
  /\ size \in 1..MaxRows
  /\ outcome \in [1..size -> [Params -> {"ok", "null", "bad"}]]
  /\ table \in [1..size -> Tables]
  /\ pc \in {"app", "col", "bind", "exec"}
  /\ i_row \in 0..(size - 1)
  /\ nr_batch_size \in 0..BatchMax
  /\ i_param \in Params
  /\ row_err \in BOOLEAN
  /\ subtbl \in Tables \cup {NoTable}
  /\ cells \in [Params -> [Places -> Cells]]
  /\ sent \in Seq(Rows)
  /\ loaded \in Seq(Rows)
  /\ status \in [1..size -> {"stale", "success", "error"}]
  /\ processed \in 0..MaxRows
  /\ ret \in {"none", "success", "error"}

\* What the application's arrays say of row r.
Own(r) ==
  [table |-> IF Kind[1] = "subtbl" THEN table[r] ELSE NoTable,
   value |-> [p \in Columns |-> IF outcome[r][p] = "null" THEN Null ELSE r]]

\* The server gets the first rows of the arrays, each once, in order, with all of
\* its own values and in its own table, wherever the batches are cut, whatever the
\* buffers held before and however nulls shift the packed values.
RowsArriveWhole == loaded = [r \in 1..Len(loaded) |-> Own(r)]

\* The count and the statuses of a call that has not failed tell what the server
\* has: the rows counted are the rows loaded, all of them with SQL_PARAM_SUCCESS,
\* and if there are others the first of them has SQL_PARAM_ERROR.  A call that has
\* failed has loaded no row that it does not count.
CountTells ==
  pc = "app" =>
    /\ ret = "success" =>
         /\ processed = Len(loaded)
         /\ Columns # {} => \A r \in 1..processed : status[r] = "success"
         /\ processed < size => status[processed + 1] = "error"
    /\ ret = "error" => Len(loaded) <= processed

\* Every SQLExecute returns: no batch is begun twice.
EveryExecuteReturns == pc # "app" ~> pc = "app"
=============================================================================
