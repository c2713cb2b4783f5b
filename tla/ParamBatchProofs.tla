--------------------------- MODULE ParamBatchProofs ---------------------------
(***************************************************************************)
(* Proofs about ParamBatch, for arrays, batches and parameters of any      *)
(* number and kind and any outcome of the conversions.                     *)
(*                                                                         *)
(* What a finished call tells is made while its last batch is prepared, a  *)
(* column at a time.  The inductive invariant IInv adds to the properties  *)
(* where the call stands (BatchInv), what the columns done so far have put *)
(* into the buffers, for as many rows as are still in the batch (DoneInv), *)
(* and that packing loses no value (PackingLossless).                      *)
(***************************************************************************)
EXTENDS ParamBatch, FiniteSetTheorems, SequenceTheorems, TLAPS

\* The rows before the batch are loaded and counted; a batch with a row in error
\* ends just before it.
BatchInv ==
  pc # "app" =>
    /\ nr_batch_size >= 1 /\ i_row + nr_batch_size <= size
    /\ processed = IF pc = "exec" THEN i_row + nr_batch_size ELSE i_row
    /\ Len(loaded) = i_row
    /\ Columns # {} => \A r \in 1..i_row : status[r] = "success"
    /\ pc = "col" /\ i_param = 1 => ~row_err
    /\ row_err => /\ i_row + nr_batch_size < size
                  /\ status[i_row + nr_batch_size + 1] = "error"
    /\ pc = "exec" => sent = [k \in 1..nr_batch_size |-> Own(i_row + k)]

ColDone(p) ==
  \A k \in 1..nr_batch_size :
    IF Kind[p] = "subtbl" THEN table[i_row + k] = subtbl
    ELSE cells[p][k] = Value(p, k) /\ status[i_row + k] = "success"

\* The parameters that are done, for the rows that are left.
DoneInv ==
  /\ pc = "col" => \A p \in 1..(i_param - 1) : ColDone(p)
  /\ pc \in {"bind", "exec"} => \A p \in Params : ColDone(p)

\* Without a parameter for it no table is named.
NameInv == Kind[1] # "subtbl" => subtbl = NoTable

\* A call begins with no row loaded.
FreshInv == pc = "app" /\ ret = "none" => loaded = <<>>

IInv == TypeOK /\ BatchInv /\ DoneInv /\ NameInv /\ FreshInv /\ RowsArriveWhole /\ CountTells

-----------------------------------------------------------------------------
\* A value is packed at or before its own place, behind every earlier one.
LEMMA PackedOrder ==
  ASSUME TypeOK, NEW p \in Params, NEW j \in Places, cells[p][j] # Null
  PROVE  /\ Packed(p, j) \in 1..j
         /\ \A i \in 1..(j - 1) : Packed(p, i) < Packed(p, j)
  <1> DEFINE Filled(i) == {m \in 1..i : cells[p][m] # Null}
  <1>1. \A i \in 1..j : /\ i \in Nat /\ IsFiniteSet(Filled(i))
                        /\ Cardinality(Filled(i)) \in Nat /\ Cardinality(Filled(i)) <= i
    <2> SUFFICES ASSUME NEW i \in 1..j
                 PROVE  /\ i \in Nat /\ IsFiniteSet(Filled(i))
                        /\ Cardinality(Filled(i)) \in Nat /\ Cardinality(Filled(i)) <= i
      OBVIOUS
    <2>1. i \in Nat /\ i >= 1
      BY DEF Places
    <2>2. IsFiniteSet(1..i) /\ Cardinality(1..i) = i
      BY <2>1, FS_Interval
    <2>3. Filled(i) \in SUBSET (1..i)
      OBVIOUS
    <2>4. IsFiniteSet(Filled(i)) /\ Cardinality(Filled(i)) <= i
      BY <2>2, <2>3, FS_Subset
    <2> QED BY <2>1, <2>4, FS_CardinalityType
  <1>2. j \in 1..j /\ j \in Filled(j)
    BY DEF Places
  <1>3. Cardinality(Filled(j)) # 0
    BY <1>1, <1>2, FS_EmptySet
  <1>4. ASSUME NEW i \in 1..(j - 1) PROVE Cardinality(Filled(i)) < Cardinality(Filled(j))
    <2>1. i \in 1..j /\ Filled(i) \in SUBSET Filled(j) /\ j \notin Filled(i)
      BY DEF Places
    <2>2. /\ Cardinality(Filled(i)) <= Cardinality(Filled(j))
          /\ Cardinality(Filled(i)) # Cardinality(Filled(j))
      BY <1>1, <1>2, <2>1, FS_Subset
    <2> QED BY <1>1, <1>2, <2>1, <2>2
  <1> QED BY <1>1, <1>2, <1>3, <1>4 DEF Packed

\* Whatever nulls lie between them, the server reads at each place of a batch the
\* value that was converted into it.
LEMMA PackingLossless ==
  ASSUME TypeOK, NEW p \in Params, NEW k \in 1..nr_batch_size
  PROVE  Read(p, k) = cells[p][k]
  <1>1. /\ BatchMax \in Nat /\ nr_batch_size \in Nat /\ nr_batch_size <= BatchMax
        /\ 1..nr_batch_size \subseteq Places /\ k \in Places
    BY ConstAssumption DEF TypeOK, Places
  <1>2. CASE cells[p][k] = Null
    BY <1>2 DEF Read
  <1>3. CASE cells[p][k] # Null /\ Kind[p] # "var"
    BY <1>3 DEF Read, Pack
  <1>4. CASE cells[p][k] # Null /\ Kind[p] = "var" /\ nr_batch_size <= 1
    <2>1. k = 1
      BY <1>1, <1>4
    <2>2. Packed(p, k) \in 1..k
      BY <1>1, <1>4, PackedOrder
    <2> QED BY <1>4, <2>1, <2>2 DEF Read, Pack
  <1>5. CASE cells[p][k] # Null /\ Kind[p] = "var" /\ nr_batch_size > 1
    <2> DEFINE at == Packed(p, k)
               from == {i \in 1..nr_batch_size : cells[p][i] # Null /\ Packed(p, i) = at}
    <2>1. at \in 1..k /\ at \in Places
      BY <1>1, <1>5, PackedOrder DEF Places
    <2>2. \A i \in from : i = k
      <3> SUFFICES ASSUME NEW i \in from, i # k PROVE FALSE
        OBVIOUS
      <3>1. i \in Places /\ cells[p][i] # Null /\ Packed(p, i) = at /\ i \in Nat /\ k \in Nat
        BY <1>1
      <3>2. CASE i < k
        <4>1. i \in 1..(k - 1)
          BY <3>1, <3>2 DEF Places
        <4>2. Packed(p, i) < Packed(p, k)
          BY <1>1, <1>5, <4>1, PackedOrder
        <4> QED BY <2>1, <3>1, <4>2
      <3>3. CASE k < i
        <4>1. k \in 1..(i - 1)
          BY <3>1, <3>3
        <4>2. Packed(p, k) < Packed(p, i)
          BY <3>1, <4>1, PackedOrder
        <4> QED BY <2>1, <3>1, <4>2
      <3> QED BY <3>1, <3>2, <3>3
    <2>3. k \in from
      BY <1>5
    <2>5. (CHOOSE i \in 1..nr_batch_size : cells[p][i] # Null /\ Packed(p, i) = at) = k
      BY <2>2, <2>3
    <2>6. ~(Kind[p] # "var" \/ nr_batch_size <= 1)
      BY <1>1, <1>5
    <2>7. Pack(p)[at] = cells[p][k]
      BY <2>1, <2>3, <2>5, <2>6 DEF Pack
    <2> QED BY <1>5, <2>7 DEF Read
  <1> QED BY <1>1, <1>2, <1>3, <1>4, <1>5

-----------------------------------------------------------------------------
LEMMA InitIInv == Init => IInv
  <1> SUFFICES ASSUME Init PROVE IInv
    OBVIOUS
  <1> USE ConstAssumption
  <1>1. row_err \in BOOLEAN
    BY DEF Init
  <1>2. cells \in [Params -> [Places -> Cells]]
    BY DEF Init, Cells
  <1>3. /\ size \in 1..MaxRows /\ i_row \in 0..(size - 1) /\ nr_batch_size \in 0..BatchMax
        /\ i_param \in Params /\ subtbl \in Tables \cup {NoTable}
        /\ processed \in 0..MaxRows
        /\ sent \in Seq(Rows) /\ loaded \in Seq(Rows)
        /\ outcome \in [1..size -> [Params -> {"ok", "null", "bad"}]]
        /\ table \in [1..size -> Tables]
        /\ status \in [1..size -> {"stale", "success", "error"}]
    BY DEF Init, Params
  <1>4. TypeOK
    BY <1>1, <1>2, <1>3 DEF Init, TypeOK
  <1> QED
    BY <1>4 DEF Init, IInv, BatchInv, DoneInv, NameInv, FreshInv, RowsArriveWhole, CountTells

\* row_err is a Boolean after every step (on its own: a leaf for Zenon).
LEMMA StepRowErr == row_err \in BOOLEAN /\ [Next]_vars => row_err' \in BOOLEAN
  <1> SUFFICES ASSUME row_err \in BOOLEAN, [Next]_vars PROVE row_err' \in BOOLEAN
    OBVIOUS
  <1>1. \/ row_err' = row_err
        \/ row_err' = FALSE
        \/ \E n \in 0..nr_batch_size : row_err' = (row_err \/ n < nr_batch_size)
    BY DEF Next, Driver, DropArrays, SQLExecute, SubTblBinds, SubTblFails, ConvertCol,
           PrepareFails, Bind, BindFails, Exec, ExecFails, ExecUnanswered, vars,
           batchVars
  <1> QED BY <1>1

\* A step that leaves the arrays and the loaded rows alone leaves them right.
LEMMA SameRows ==
  ASSUME RowsArriveWhole, UNCHANGED <<outcome, table, loaded>> PROVE RowsArriveWhole'
  BY DEF RowsArriveWhole, Own

\* A call that fails in a batch has loaded no row it does not count.
LEMMA FailIInv ==
  ASSUME IInv, row_err' \in BOOLEAN, pc # "app", Return("error"),
         UNCHANGED <<inputVars, batchVars, cells, sent, loaded, status>>,
         processed' \in {processed, i_row + nr_batch_size},
         subtbl' \in Tables \cup {NoTable}, Kind[1] # "subtbl" => subtbl' = NoTable
  PROVE  IInv'
  <1> USE DEF IInv, Return, inputVars, batchVars
  <1>1. i_row \in Nat /\ nr_batch_size \in Nat /\ size \in Nat /\ MaxRows \in Nat /\ size <= MaxRows
    BY ConstAssumption DEF TypeOK
  <1>2. i_row + nr_batch_size <= size /\ processed \in {i_row, i_row + nr_batch_size}
        /\ Len(loaded) = i_row
    BY DEF BatchInv
  <1>3. processed' \in 0..MaxRows /\ Len(loaded') <= processed'
    BY <1>1, <1>2
  <1>4. TypeOK'
    BY <1>3 DEF TypeOK
  <1> QED
    BY <1>3, <1>4, SameRows DEF BatchInv, DoneInv, NameInv, FreshInv, CountTells

\* The batch that follows the first i rows has a row, and fits.
LEMMA BatchFits ==
  ASSUME NEW i \in Nat, NEW n \in Nat, i < n
  PROVE  /\ Batch(i, n) \in 1..BatchMax
         /\ i + Batch(i, n) <= n
  BY ConstAssumption DEF Batch

LEMMA DropIInv == IInv /\ DropArrays => IInv'
  <1> SUFFICES ASSUME IInv, DropArrays PROVE IInv'
    OBVIOUS
  <1> USE ConstAssumption DEF DropArrays
  <1>1. row_err' \in BOOLEAN
    OBVIOUS
  <1>2. cells' \in [Params -> [Places -> Cells]]
    BY DEF Cells
  <1>3. /\ size' \in 1..MaxRows /\ i_row' \in 0..(size' - 1) /\ nr_batch_size' \in 0..BatchMax
        /\ i_param' \in Params /\ subtbl' \in Tables \cup {NoTable}
        /\ processed' \in 0..MaxRows
        /\ sent' \in Seq(Rows) /\ loaded' \in Seq(Rows)
        /\ outcome' \in [1..size' -> [Params -> {"ok", "null", "bad"}]]
        /\ table' \in [1..size' -> Tables]
        /\ status' \in [1..size' -> {"stale", "success", "error"}]
    BY DEF IInv, TypeOK, Params
  <1>4. TypeOK'
    BY <1>1, <1>2, <1>3 DEF TypeOK
  <1> QED
    BY <1>4 DEF IInv, BatchInv, DoneInv, NameInv, FreshInv, RowsArriveWhole, CountTells

LEMMA ExecuteIInv ==
  ASSUME IInv, NEW n \in 1..MaxRows, SQLExecute(n) PROVE IInv'
  <1> USE ConstAssumption DEF SQLExecute
  <1>1. row_err' \in BOOLEAN
    OBVIOUS
  <1>2. Batch(0, n) \in 1..BatchMax /\ 0 + Batch(0, n) <= n
    BY BatchFits
  <1>3. /\ size' \in 1..MaxRows /\ i_row' \in 0..(size' - 1) /\ nr_batch_size' \in 0..BatchMax
        /\ i_param' \in Params /\ processed' \in 0..MaxRows
        /\ outcome' \in [1..size' -> [Params -> {"ok", "null", "bad"}]]
        /\ table' \in [1..size' -> Tables]
        /\ status' \in [1..size' -> {"stale", "success", "error"}]
    BY <1>2 DEF Params
  <1>4. TypeOK'
    BY <1>1, <1>3 DEF IInv, TypeOK
  <1>5. loaded' = <<>>
    BY DEF IInv, FreshInv
  <1>6. BatchInv'
    BY <1>2, <1>5 DEF BatchInv
  <1> QED
    BY <1>4, <1>5, <1>6 DEF IInv, DoneInv, NameInv, FreshInv, RowsArriveWhole, CountTells

\* The next parameter, or the end of the columns.
LEMMA NextParamIs ==
  ASSUME TypeOK, NextParam, pc = "col"
  PROVE  \/ i_param < NrParams /\ i_param' = i_param + 1 /\ pc' = "col"
         \/ i_param = NrParams /\ i_param' = i_param /\ pc' = "bind"
  BY ConstAssumption DEF TypeOK, NextParam, Params

LEMMA SubTblIInv == IInv /\ SubTblBinds => IInv'
  <1> SUFFICES ASSUME IInv, SubTblBinds PROVE IInv'
    OBVIOUS
  <1> USE ConstAssumption DEF IInv
  <1>1. /\ pc = "col" /\ Kind[i_param] = "subtbl" /\ i_param = 1 /\ row_err = FALSE
        /\ subtbl' = table[i_row + 1] /\ NextParam
        /\ UNCHANGED <<size, outcome, table, i_row, row_err, cells, sent, loaded>>
        /\ UNCHANGED <<status, processed, ret>>
    BY DEF SubTblBinds, PreparesSubTbl, TypeOK, BatchInv, inputVars, outVars
  <1>2. PICK n \in 1..nr_batch_size : NamesEndAt(n) /\ nr_batch_size' = n
    BY DEF SubTblBinds
  <1>3. /\ i_row \in Nat /\ nr_batch_size \in Nat /\ n \in Nat /\ n >= 1 /\ n <= nr_batch_size
        /\ nr_batch_size <= BatchMax /\ i_row + nr_batch_size <= size /\ size \in Nat
        /\ table \in [1..size -> Tables]
    BY <1>1 DEF TypeOK, BatchInv
  <1>4. subtbl' \in Tables
    <2>1. i_row + 1 \in 1..size
      BY <1>3
    <2> QED BY <1>1, <1>3, <2>1
  <1>5. /\ pc' \in {"col", "bind"} /\ i_param' \in Params
        /\ pc' = "col" => i_param' = 2
        /\ pc' = "bind" => Params = {1}
    BY <1>1, NextParamIs DEF Params
  <1>6. TypeOK'
    BY <1>1, <1>2, <1>3, <1>4, <1>5 DEF TypeOK
  <1>7. BatchInv'
    <2>1. nr_batch_size' >= 1 /\ i_row' + nr_batch_size' <= size'
      BY <1>1, <1>2, <1>3
    <2>2. Columns' = Columns /\ ~row_err'
      BY <1>1
    <2> QED BY <1>1, <1>5, <2>1, <2>2 DEF BatchInv
  <1>8. ColDone(1)'
    <2> SUFFICES ASSUME NEW k \in 1..nr_batch_size' PROVE table'[i_row' + k] = subtbl'
      BY <1>1 DEF ColDone
    <2>1. SameTable(k)
      BY <1>2 DEF NamesEndAt
    <2> QED BY <1>1, <2>1 DEF SameTable
  <1>9. DoneInv'
    BY <1>5, <1>8 DEF DoneInv
  <1> QED
    BY <1>1, <1>5, <1>6, <1>7, <1>9, SameRows DEF NameInv, FreshInv, CountTells

LEMMA SubTblFailsIInv == IInv /\ SubTblFails => IInv'
  <1> SUFFICES ASSUME IInv, SubTblFails PROVE IInv'
    OBVIOUS
  <1> USE ConstAssumption
  <1>1. /\ pc = "col" /\ Kind[i_param] = "subtbl" /\ i_param = 1
        /\ subtbl' \in {subtbl, table[i_row + 1]}
        /\ Return("error") /\ UNCHANGED processed
        /\ UNCHANGED <<inputVars, batchVars, cells, sent, loaded, status>>
    BY DEF SubTblFails, PreparesSubTbl, IInv, TypeOK
  <1>2. i_row + 1 \in 1..size
    BY <1>1 DEF IInv, TypeOK
  <1>3. subtbl' \in Tables \cup {NoTable}
    BY <1>1, <1>2 DEF IInv, TypeOK
  <1>4. row_err' \in BOOLEAN
    BY <1>1 DEF batchVars, IInv, TypeOK
  <1> QED BY <1>1, <1>3, <1>4, FailIInv

LEMMA PrepareFailsIInv == IInv /\ PrepareFails => IInv'
  <1> SUFFICES ASSUME IInv, PrepareFails PROVE IInv'
    OBVIOUS
  <1>1. /\ pc = "col" /\ subtbl' \in {subtbl, NoTable}
        /\ Return("error") /\ UNCHANGED processed
        /\ UNCHANGED <<inputVars, batchVars, cells, sent, loaded, status>>
    BY DEF PrepareFails
  <1>2. subtbl' \in Tables \cup {NoTable} /\ (Kind[1] # "subtbl" => subtbl' = NoTable)
    BY <1>1 DEF IInv, TypeOK, NameInv
  <1>3. row_err' \in BOOLEAN
    BY <1>1 DEF batchVars, IInv, TypeOK
  <1> QED BY <1>1, <1>2, <1>3, FailIInv

LEMMA ServerFailsIInv == IInv /\ (BindFails \/ ExecFails) => IInv'
  <1> SUFFICES ASSUME IInv, BindFails \/ ExecFails PROVE IInv'
    OBVIOUS
  <1>1. /\ pc # "app" /\ UNCHANGED subtbl /\ Return("error")
        /\ UNCHANGED <<inputVars, batchVars, cells, sent, loaded, status>>
    BY DEF BindFails, ExecFails
  <1>2. processed' \in {processed, i_row + nr_batch_size}
    BY DEF BindFails, ExecFails, IInv, BatchInv
  <1>3. subtbl' \in Tables \cup {NoTable} /\ (Kind[1] # "subtbl" => subtbl' = NoTable)
    BY <1>1 DEF IInv, TypeOK, NameInv
  <1>4. row_err' \in BOOLEAN
    BY <1>1 DEF batchVars, IInv, TypeOK
  <1> QED BY <1>1, <1>2, <1>3, <1>4, FailIInv

LEMMA ConvertColIInv == IInv /\ ConvertCol /\ row_err' \in BOOLEAN => IInv'
  <1> SUFFICES ASSUME IInv, ConvertCol, row_err' \in BOOLEAN PROVE IInv'
    OBVIOUS
  <1> USE ConstAssumption DEF IInv
  <1>1. /\ pc = "col" /\ i_param \in Params /\ Kind[i_param] # "subtbl"
        /\ UNCHANGED <<size, outcome, table, i_row, subtbl, sent, loaded, processed>>
    BY DEF ConvertCol, Converts, TypeOK, inputVars
  <1>2. PICK n \in 0..nr_batch_size :
          /\ ValuesEndAt(n)
          /\ cells' = Converted(n)
          /\ status' = Marked(n)
          /\ row_err' = (row_err \/ n < nr_batch_size)
          /\ nr_batch_size' = n
          /\ IF n > 0 THEN NextParam /\ UNCHANGED ret
             ELSE Return(IF i_row = 0 THEN "error" ELSE "success") /\ UNCHANGED i_param
    BY DEF ConvertCol
  <1>3. /\ i_row \in Nat /\ nr_batch_size \in Nat /\ n \in Nat /\ n <= nr_batch_size
        /\ nr_batch_size >= 1 /\ size \in Nat /\ size <= MaxRows
        /\ nr_batch_size <= BatchMax /\ i_row + nr_batch_size <= size
        /\ processed = i_row /\ Len(loaded) = i_row
    BY <1>1 DEF TypeOK, BatchInv
  <1>4. ASSUME NEW k \in 1..nr_batch_size PROVE Value(i_param, k) \in Cells
    BY <1>3 DEF Value, Cells, Null
  <1>5. cells' \in [Params -> [Places -> Cells]]
    <2>1. [k \in Places |-> IF k <= n THEN Value(i_param, k) ELSE cells[i_param][k]]
            \in [Places -> Cells]
      <3> SUFFICES ASSUME NEW k \in Places
                   PROVE (IF k <= n THEN Value(i_param, k) ELSE cells[i_param][k]) \in Cells
        OBVIOUS
      <3>1. CASE k <= n
        <4>1. k \in 1..nr_batch_size
          BY <1>3, <3>1 DEF Places
        <4> QED BY <1>4, <3>1, <4>1
      <3>2. CASE ~(k <= n)
        BY <1>1, <3>2 DEF TypeOK
      <3> QED BY <3>1, <3>2
    <2> QED BY <1>1, <1>2, <2>1 DEF Converted, TypeOK
  <1>6. /\ status' \in [1..size -> {"stale", "success", "error"}]
        /\ \A r \in 1..(i_row + n) : r > i_row => status'[r] = "success"
        /\ \A r \in 1..i_row : status'[r] = status[r]
        /\ n < nr_batch_size => status'[i_row + n + 1] = "error"
        /\ \A r \in 1..size : n = nr_batch_size /\ r > i_row + n => status'[r] = status[r]
    BY <1>2, <1>3 DEF Marked, TypeOK
  <1>7. /\ pc' \in {"col", "bind", "app"} /\ i_param' \in Params
        /\ ret' \in {"none", "success", "error"}
        /\ n > 0 => /\ \/ i_param < NrParams /\ i_param' = i_param + 1 /\ pc' = "col"
                       \/ i_param = NrParams /\ i_param' = i_param /\ pc' = "bind"
                    /\ ret' = ret
        /\ n = 0 => /\ pc' = "app" /\ i_param' = i_param
                    /\ ret' = IF i_row = 0 THEN "error" ELSE "success"
    <2>1. CASE n > 0
      <3>1. NextParam /\ UNCHANGED ret
        BY <1>2, <2>1
      <3>2. ret' = ret /\ ret \in {"none", "success", "error"}
        BY <1>1, <3>1 DEF TypeOK
      <3>3. i_param \in 1..NrParams
        BY <1>1 DEF TypeOK, Params
      <3>4. /\ pc' \in {"col", "bind"} /\ i_param' \in Params
            /\ \/ i_param < NrParams /\ i_param' = i_param + 1 /\ pc' = "col"
               \/ i_param = NrParams /\ i_param' = i_param /\ pc' = "bind"
        BY <1>1, <3>1, <3>3, NextParamIs DEF Params
      <3>5. n # 0
        BY <1>3, <2>1
      <3> QED BY <2>1, <3>2, <3>4, <3>5
    <2>2. CASE n = 0
      <3>1. Return(IF i_row = 0 THEN "error" ELSE "success") /\ UNCHANGED i_param
        BY <1>2, <2>2
      <3>2. pc' = "app" /\ i_param' = i_param
        BY <3>1 DEF Return
      <3>3. ret' = IF i_row = 0 THEN "error" ELSE "success"
        BY <3>1 DEF Return
      <3>4. ret' \in {"none", "success", "error"}
        BY <3>3
      <3>5. i_param' \in Params
        BY <1>1, <3>2 DEF TypeOK
      <3>6. ~(n > 0)
        BY <2>2
      <3> QED BY <2>2, <3>2, <3>3, <3>4, <3>5, <3>6
    <2> QED BY <1>3, <2>1, <2>2
  <1>8. TypeOK'
    <2>1. nr_batch_size' \in 0..BatchMax
      BY <1>2, <1>3
    <2> QED BY <1>1, <1>5, <1>6, <1>7, <2>1 DEF TypeOK
  <1>9. ASSUME n > 0 PROVE BatchInv'
    <2>1. Columns' = Columns
      OBVIOUS
    <2>2. row_err' => /\ i_row' + nr_batch_size' < size'
                      /\ status'[i_row' + nr_batch_size' + 1] = "error"
      <3>1. CASE n < nr_batch_size
        BY <1>1, <1>2, <1>3, <1>6, <3>1
      <3>2. CASE n = nr_batch_size
        <4>1. row_err' => row_err
          <5>1. ~(n < nr_batch_size)
            BY <1>3, <3>2
          <5>2. row_err' = (row_err \/ n < nr_batch_size)
            BY <1>2
          <5> QED BY <5>1, <5>2, Zenon
        <4>2. row_err => /\ i_row + nr_batch_size < size
                         /\ status[i_row + nr_batch_size + 1] = "error"
          BY <1>1 DEF BatchInv
        <4>3. i_row + n < size => status'[i_row + n + 1] = status[i_row + n + 1]
          BY <1>3, <1>6, <3>2
        <4> QED BY <1>1, <1>2, <3>2, <4>1, <4>2, <4>3
      <3> QED BY <1>3, <3>1, <3>2
    <2>3. pc' = "col" => i_param' # 1
      BY <1>7, <1>9, <1>1 DEF Params
    <2>4. Columns # {} => \A r \in 1..i_row : status'[r] = "success"
      BY <1>1, <1>6 DEF BatchInv
    <2> QED BY <1>1, <1>2, <1>3, <1>7, <1>9, <2>1, <2>2, <2>3, <2>4 DEF BatchInv
  <1>10. ASSUME n > 0, NEW p \in 1..i_param PROVE ColDone(p)'
    <2>1. p \in Params /\ (p # i_param => ColDone(p))
      BY <1>1 DEF DoneInv, Params
    <2> SUFFICES ASSUME NEW k \in 1..n
                 PROVE IF Kind[p] = "subtbl" THEN table[i_row + k] = subtbl
                       ELSE cells'[p][k] = Value(p, k) /\ status'[i_row + k] = "success"
      BY <1>1, <1>2 DEF ColDone, Value
    <2>2. k \in 1..nr_batch_size /\ k \in Places /\ k <= n
      BY <1>3 DEF Places
    <2>3. status'[i_row + k] = "success"
      BY <1>3, <1>6
    <2>4. CASE p = i_param
      <3>1. cells'[p][k] = Value(p, k)
        BY <1>1, <1>2, <2>2, <2>4 DEF Converted, TypeOK
      <3> QED BY <1>1, <2>3, <2>4, <3>1
    <2>5. CASE p # i_param
      <3>1. cells'[p] = cells[p]
        BY <1>1, <1>2, <2>1, <2>5 DEF Converted, TypeOK
      <3> QED BY <2>1, <2>2, <2>3, <2>5, <3>1 DEF ColDone
    <2> QED BY <2>4, <2>5
  <1>11. DoneInv'
    <2>1. CASE n > 0
      <3>1. CASE pc' = "col"
        <4>1. i_param' - 1 = i_param
          BY <1>1, <1>7, <2>1, <3>1 DEF Params
        <4> QED BY <1>10, <2>1, <3>1, <4>1 DEF DoneInv
      <3>2. CASE pc' = "bind"
        <4>1. Params = 1..i_param
          BY <1>7, <2>1, <3>2 DEF Params
        <4> QED BY <1>10, <2>1, <3>2, <4>1 DEF DoneInv
      <3> QED BY <1>7, <2>1, <3>1, <3>2
    <2>2. CASE n = 0
      BY <1>7, <2>2 DEF DoneInv
    <2> QED BY <1>3, <2>1, <2>2
  <1>12. CountTells'
    <2>1. CASE n > 0
      BY <1>7, <2>1 DEF CountTells
    <2>2. CASE n = 0
      <3>1. i_row < size /\ status'[i_row + 1] = "error"
        BY <1>3, <1>6, <2>2
      <3>2. Columns # {} => \A r \in 1..i_row : status'[r] = "success"
        BY <1>1, <1>6 DEF BatchInv
      <3>3. Columns' = Columns /\ processed' = i_row /\ Len(loaded') = i_row /\ size' = size
        BY <1>1, <1>3
      <3>4. ret' \in {"success", "error"}
        BY <1>7, <2>2
      <3> QED BY <1>3, <3>1, <3>2, <3>3, <3>4 DEF CountTells
    <2> QED BY <1>3, <2>1, <2>2
  <1>13. BatchInv' /\ FreshInv'
    BY <1>1, <1>3, <1>7, <1>9 DEF BatchInv, FreshInv
  <1> QED
    BY <1>1, <1>8, <1>11, <1>12, <1>13, SameRows DEF NameInv

LEMMA BindIInv == IInv /\ Bind /\ row_err' \in BOOLEAN => IInv'
  <1> SUFFICES ASSUME IInv, Bind, row_err' \in BOOLEAN PROVE IInv'
    OBVIOUS
  <1> USE ConstAssumption DEF IInv
  <1>1. /\ pc = "bind" /\ pc' = "exec"
        /\ processed' = processed + nr_batch_size
        /\ UNCHANGED <<size, outcome, table, i_row, nr_batch_size, i_param, row_err>>
        /\ UNCHANGED <<subtbl, cells, loaded, status, ret>>
    BY DEF Bind, inputVars, batchVars
  <1>2. /\ i_row \in Nat /\ nr_batch_size \in Nat /\ size \in Nat /\ size <= MaxRows
        /\ i_row + nr_batch_size <= size /\ processed = i_row
    BY <1>1 DEF TypeOK, BatchInv
  <1>3. ASSUME NEW k \in 1..nr_batch_size
        PROVE  [table |-> subtbl, value |-> [p \in Columns |-> Read(p, k)]] = Own(i_row + k)
    <2>1. 1 \in Params /\ \A p \in Params : ColDone(p)
      BY <1>1 DEF DoneInv, Params
    <2>2. subtbl = IF Kind[1] = "subtbl" THEN table[i_row + k] ELSE NoTable
      BY <2>1 DEF ColDone, NameInv
    <2>3. ASSUME NEW p \in Columns
          PROVE  Read(p, k) = IF outcome[i_row + k][p] = "null" THEN Null ELSE i_row + k
      <3>1. p \in Params /\ Kind[p] # "subtbl"
        BY DEF Columns
      <3>2. cells[p][k] = Value(p, k)
        BY <2>1, <3>1 DEF ColDone
      <3> QED BY <3>1, <3>2, PackingLossless DEF Value
    <2> QED BY <2>2, <2>3 DEF Own
  <1>4. sent' = [k \in 1..nr_batch_size |-> Own(i_row + k)]
    BY <1>3 DEF Bind
  <1>5. ASSUME NEW k \in 1..nr_batch_size PROVE Own(i_row + k) \in Rows
    <2>1. i_row + k \in 1..size /\ i_row + k \in 0..MaxRows
      BY <1>2
    <2>2. (IF Kind[1] = "subtbl" THEN table[i_row + k] ELSE NoTable) \in Tables \cup {NoTable}
      BY <2>1 DEF TypeOK
    <2>3. [p \in Columns |-> IF outcome[i_row + k][p] = "null" THEN Null ELSE i_row + k]
            \in [Columns -> Cells]
      BY <1>2, <2>1 DEF Cells, Null
    <2> QED BY <2>2, <2>3 DEF Own, Rows
  <1>6. sent' \in Seq(Rows)
    BY <1>2, <1>4, <1>5
  <1>7. TypeOK'
    <2>1. processed' \in 0..MaxRows
      BY <1>1, <1>2
    <2> QED BY <1>1, <1>6, <2>1 DEF TypeOK
  <1>8. BatchInv'
    <2>1. sent' = [k \in 1..nr_batch_size' |-> Own(i_row + k)']
      BY <1>1, <1>4 DEF Own
    <2> QED BY <1>1, <1>2, <2>1 DEF BatchInv
  <1>9. DoneInv'
    BY <1>1 DEF DoneInv, ColDone, Value
  <1> QED
    BY <1>1, <1>7, <1>8, <1>9, SameRows DEF NameInv, FreshInv, CountTells

\* Concatenation, place by place.
LEMMA Concatenated ==
  ASSUME NEW S, NEW s \in Seq(S), NEW t \in Seq(S)
  PROVE  /\ s \o t \in Seq(S) /\ Len(s \o t) = Len(s) + Len(t)
         /\ \A r \in 1..Len(s) : (s \o t)[r] = s[r]
         /\ \A r \in 1..Len(t) : (s \o t)[Len(s) + r] = t[r]
         /\ s \o t = [r \in 1..(Len(s) + Len(t)) |-> (s \o t)[r]]
  <1>1. /\ s \o t \in Seq(S) /\ Len(s \o t) = Len(s) + Len(t)
        /\ \A r \in 1..(Len(s) + Len(t)) :
              (s \o t)[r] = IF r <= Len(s) THEN s[r] ELSE t[r - Len(s)]
    BY ConcatProperties
  <1>2. Len(s) \in Nat /\ Len(t) \in Nat
    OBVIOUS
  <1>3. ASSUME NEW r \in 1..Len(s) PROVE (s \o t)[r] = s[r]
    <2>1. r \in 1..(Len(s) + Len(t)) /\ r <= Len(s)
      BY <1>2
    <2> QED BY <1>1, <2>1
  <1>4. ASSUME NEW r \in 1..Len(t) PROVE (s \o t)[Len(s) + r] = t[r]
    <2>1. /\ Len(s) + r \in 1..(Len(s) + Len(t)) /\ ~(Len(s) + r <= Len(s))
          /\ (Len(s) + r) - Len(s) = r
      BY <1>2
    <2> QED BY <1>1, <2>1
  <1>5. s \o t = [r \in 1..(Len(s) + Len(t)) |-> (s \o t)[r]]
    <2> DEFINE both == s \o t
    <2>1. both \in Seq(S) /\ Len(both) = Len(s) + Len(t)
      BY <1>1
    <2> HIDE DEF both
    <2>2. both = [r \in 1..(Len(s) + Len(t)) |-> both[r]]
      BY <2>1
    <2> QED BY <2>2 DEF both
  <1> QED BY <1>1, <1>3, <1>4, <1>5

\* What the server has when it has taken the batch.
LEMMA Loading ==
  ASSUME IInv, pc = "exec", loaded' = loaded \o sent, UNCHANGED <<size, outcome, table>>
  PROVE  /\ loaded' \in Seq(Rows) /\ Len(loaded') = i_row + nr_batch_size
         /\ RowsArriveWhole'
  <1>1. /\ i_row \in Nat /\ nr_batch_size \in Nat
        /\ Len(loaded) = i_row
        /\ loaded \in Seq(Rows) /\ sent \in Seq(Rows)
        /\ sent = [k \in 1..nr_batch_size |-> Own(i_row + k)]
    BY ConstAssumption DEF IInv, TypeOK, BatchInv
  <1>2. Len(sent) = nr_batch_size
    <2>1. DOMAIN sent = 1..nr_batch_size
      BY <1>1
    <2> QED BY <1>1, <2>1
  <1> DEFINE both == loaded \o sent
  <1>3. /\ both \in Seq(Rows) /\ Len(both) = i_row + nr_batch_size
        /\ \A r \in 1..i_row : both[r] = loaded[r]
        /\ \A r \in 1..nr_batch_size : both[i_row + r] = sent[r]
        /\ both = [r \in 1..(i_row + nr_batch_size) |-> both[r]]
    BY <1>1, <1>2, Concatenated
  <1> HIDE DEF both
  <1>4. \A r \in 1..(i_row + nr_batch_size) : both[r] = Own(r)
    <2> SUFFICES ASSUME NEW r \in 1..(i_row + nr_batch_size) PROVE both[r] = Own(r)
      OBVIOUS
    <2>1. CASE r <= i_row
      <3>1. r \in 1..i_row
        BY <1>1, <2>1
      <3>2. r \in 1..Len(loaded) /\ both[r] = loaded[r]
        BY <1>1, <1>3, <3>1
      <3> QED BY <3>2 DEF IInv, RowsArriveWhole
    <2>2. CASE ~(r <= i_row)
      <3>1. r - i_row \in 1..nr_batch_size /\ i_row + (r - i_row) = r
        BY <1>1, <2>2
      <3>2. sent[r - i_row] = Own(i_row + (r - i_row))
        BY <1>1, <3>1
      <3> QED BY <1>3, <3>1, <3>2
    <2> QED BY <2>1, <2>2
  <1>5. both = [r \in 1..Len(both) |-> Own(r)]
    BY <1>3, <1>4
  <1>6. loaded' = both
    BY DEF both
  <1>7. loaded' \in Seq(Rows) /\ Len(loaded') = i_row + nr_batch_size
    BY <1>3, <1>6
  <1>8. loaded' = [r \in 1..Len(loaded') |-> Own(r)]
    BY <1>5, <1>6
  <1>9. RowsArriveWhole'
    BY <1>8 DEF RowsArriveWhole, Own
  <1> QED BY <1>7, <1>9

LEMMA ExecIInv == IInv /\ Exec /\ row_err' \in BOOLEAN => IInv'
  <1> SUFFICES ASSUME IInv, Exec, row_err' \in BOOLEAN PROVE IInv'
    OBVIOUS
  <1> USE ConstAssumption DEF IInv
  <1>1. /\ pc = "exec" /\ loaded' = loaded \o sent
        /\ UNCHANGED <<size, outcome, table, subtbl, cells, sent, status, processed>>
    BY DEF Exec, inputVars
  <1>2. /\ i_row \in Nat /\ nr_batch_size \in Nat /\ size \in Nat
        /\ nr_batch_size >= 1 /\ i_row + nr_batch_size <= size
        /\ processed = i_row + nr_batch_size /\ Len(loaded) = i_row
        /\ loaded \in Seq(Rows) /\ sent \in Seq(Rows)
        /\ sent = [k \in 1..nr_batch_size |-> Own(i_row + k)]
    BY <1>1 DEF TypeOK, BatchInv
  <1>3. loaded' \in Seq(Rows) /\ Len(loaded') = i_row + nr_batch_size
    BY <1>1, Loading
  <1>5. RowsArriveWhole'
    BY <1>1, Loading
  <1>6. Columns # {} => \A r \in 1..(i_row + nr_batch_size) : status[r] = "success"
    <2> SUFFICES ASSUME NEW c \in Columns, NEW r \in 1..(i_row + nr_batch_size)
                 PROVE  status[r] = "success"
      OBVIOUS
    <2>1. CASE r <= i_row
      BY <1>1, <1>2, <2>1 DEF BatchInv
    <2>2. CASE ~(r <= i_row)
      <3>1. r - i_row \in 1..nr_batch_size /\ i_row + (r - i_row) = r
        BY <1>2, <2>2
      <3>2. ColDone(c) /\ Kind[c] # "subtbl"
        BY <1>1 DEF DoneInv, Columns
      <3> QED BY <3>1, <3>2 DEF ColDone
    <2> QED BY <2>1, <2>2
  <1>7. CASE row_err
    <2>1. Return("with_info") /\ UNCHANGED batchVars
      BY <1>7 DEF Exec
    <2>2. i_row + nr_batch_size < size /\ status[i_row + nr_batch_size + 1] = "error"
      BY <1>1, <1>7 DEF BatchInv
    <2>3. TypeOK'
      BY <1>1, <1>3, <2>1 DEF TypeOK, Return, batchVars
    <2>4. CountTells'
      BY <1>1, <1>2, <1>3, <1>6, <2>1, <2>2 DEF CountTells, Return
    <2> QED
      BY <1>1, <1>5, <2>1, <2>3, <2>4 DEF Return, BatchInv, DoneInv, NameInv, FreshInv
  <1>8. CASE ~row_err /\ i_row + nr_batch_size >= size
    <2>1. Return("success") /\ UNCHANGED batchVars
      BY <1>8 DEF Exec
    <2>2. i_row + nr_batch_size = size
      BY <1>2, <1>8
    <2>3. TypeOK'
      BY <1>1, <1>3, <2>1 DEF TypeOK, Return, batchVars
    <2>4. CountTells'
      BY <1>1, <1>2, <1>3, <1>6, <2>1, <2>2 DEF CountTells, Return
    <2> QED
      BY <1>1, <1>5, <2>1, <2>3, <2>4 DEF Return, BatchInv, DoneInv, NameInv, FreshInv
  <1>9. CASE ~row_err /\ ~(i_row + nr_batch_size >= size)
    <2>1. /\ i_row' = i_row + nr_batch_size
          /\ nr_batch_size' = Batch(i_row + nr_batch_size, size)
          /\ i_param' = 1 /\ row_err' = FALSE /\ pc' = "col" /\ UNCHANGED ret
      BY <1>9 DEF Exec
    <2>2. i_row' \in 0..(size - 1) /\ i_row' \in Nat /\ i_row' < size
      BY <1>2, <1>9, <2>1
    <2>3. nr_batch_size' \in 1..BatchMax /\ i_row' + nr_batch_size' <= size
      BY <1>2, <2>1, <2>2, BatchFits
    <2>4. TypeOK'
      BY <1>1, <1>3, <2>1, <2>2, <2>3 DEF TypeOK, Params
    <2>5. BatchInv'
      BY <1>1, <1>2, <1>3, <1>6, <2>1, <2>3 DEF BatchInv
    <2> QED
      BY <1>1, <1>5, <2>1, <2>4, <2>5 DEF DoneInv, NameInv, FreshInv, CountTells
  <1> QED BY <1>7, <1>8, <1>9

LEMMA UnansweredIInv == IInv /\ ExecUnanswered => IInv'
  <1> SUFFICES ASSUME IInv, ExecUnanswered PROVE IInv'
    OBVIOUS
  <1> USE ConstAssumption DEF IInv
  <1>1. /\ pc = "exec" /\ loaded' = loaded \o sent
        /\ pc' = "app" /\ ret' = "error"
        /\ UNCHANGED <<size, outcome, table, i_row, nr_batch_size, i_param, row_err,
                       subtbl, cells, sent, status, processed>>
    BY DEF ExecUnanswered, Return, inputVars, batchVars
  <1>2. loaded' \in Seq(Rows) /\ Len(loaded') = i_row + nr_batch_size /\ RowsArriveWhole'
    BY <1>1, Loading
  <1>3. processed = i_row + nr_batch_size /\ i_row + nr_batch_size \in Nat
    BY <1>1 DEF TypeOK, BatchInv
  <1>4. row_err' \in BOOLEAN
    BY <1>1 DEF TypeOK
  <1>5. TypeOK'
    BY <1>1, <1>2, <1>4 DEF TypeOK
  <1>6. CountTells'
    BY <1>1, <1>2, <1>3 DEF CountTells
  <1> QED BY <1>1, <1>2, <1>5, <1>6 DEF BatchInv, DoneInv, NameInv, FreshInv

LEMMA StepIInv == IInv /\ [Next]_vars => IInv'
  <1> SUFFICES ASSUME IInv, [Next]_vars PROVE IInv'
    OBVIOUS
  <1>1. row_err' \in BOOLEAN
    BY StepRowErr DEF IInv, TypeOK
  <1>2. CASE UNCHANGED vars
    <2> USE <1>2 DEF vars, inputVars, batchVars, outVars, IInv
    <2>1. TypeOK'
      BY <1>1 DEF TypeOK
    <2>2. BatchInv'
      BY DEF BatchInv, Own
    <2>3. DoneInv'
      BY DEF DoneInv, ColDone, Value
    <2>4. RowsArriveWhole'
      BY SameRows
    <2>5. NameInv' /\ FreshInv' /\ CountTells'
      BY DEF NameInv, FreshInv, CountTells
    <2> QED BY <2>1, <2>2, <2>3, <2>4, <2>5
  <1> QED
    BY <1>1, <1>2, DropIInv, ExecuteIInv, SubTblIInv, SubTblFailsIInv, ConvertColIInv,
       PrepareFailsIInv, BindIInv, ServerFailsIInv, ExecIInv, UnansweredIInv DEF Next, Driver

\* The inductive invariant holds in every reachable state.
THEOREM Invariance == Spec => []IInv
  BY InitIInv, StepIInv, PTL DEF Spec

\* The variables of the loop over the batches keep their types; in particular no
\* batch is larger than the driver's buffers and no row of the arrays is passed.
THEOREM TypeCorrect == Spec => []TypeOK
  <1>1. IInv => TypeOK
    BY DEF IInv
  <1> QED BY <1>1, Invariance, PTL

\* The server gets a prefix of the arrays' rows, each once, whole and in its table.
THEOREM RowsWhole == Spec => []RowsArriveWhole
  <1>1. IInv => RowsArriveWhole
    BY DEF IInv
  <1> QED BY <1>1, Invariance, PTL

\* The count and the statuses of a finished call tell what the server has.
THEOREM CountSound == Spec => []CountTells
  <1>1. IInv => CountTells
    BY DEF IInv
  <1> QED BY <1>1, Invariance, PTL
=============================================================================
