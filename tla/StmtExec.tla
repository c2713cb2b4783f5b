------------------------------- MODULE StmtExec -------------------------------
(***************************************************************************)
(* What a statement executes (stmt.c, tsdb.c): SQLPrepare, SQLExecute,     *)
(* SQLExecDirect, SQLMoreResults, closing the cursor, the catalog          *)
(* functions and SQLNumParams over one statement handle, the client        *)
(* library's results and prepared statements (stmt2) it holds, and the     *)
(* driver manager that says which of these calls come through.             *)
(*                                                                         *)
(* stmt_t is one record; the functions of the driver map a record to a     *)
(* record, as the C functions change it in place.  stmt.ret is how the     *)
(* last of them ended, and stmt.did what the call had the server execute.  *)
(***************************************************************************)
EXTENDS Naturals, Integers, Sequences, SequencesExt

CONSTANTS Texts,      \* what the application may have executed: its statements
          NoSql,      \* no statement
          MaxParams   \* bound: parameters an application binds

Stmts == UNION {Range(text.stmts) : text \in Texts}
ASSUME ExecAssumption ==
  /\ MaxParams \in Nat
  /\ \A text \in Texts : text.ok \in BOOLEAN /\ text.stmts \in Seq(Stmts) /\ IsInjective(text.stmts)
  /\ \A q \in Stmts : q.qms \in Nat /\ q.ext \in BOOLEAN
  /\ NoSql \notin Stmts /\ NoSql.qms = 0 /\ NoSql.cols = "none"

VARIABLES
  stmt,     \* stmt_t
  dm,       \* the driver manager's statement state: what is prepared, whether
            \* a result is open, whether the last SQLMoreResults failed on it
  intact,   \* since SQLPrepare: no SQLMoreResults, no topic closed
  ran,      \* statements of the text that the server was sent since it came,
  refused,  \* and those that a call refused to send
  call      \* the last call
vars == <<stmt, dm, intact, ran, refused, call>>

Catalog == {"tables", "columns", "primarykeys"}
Bases   == {"tsdb", "topic", "typesinfo"} \cup Catalog
NoRes   == [owner |-> "none", of |-> NoSql]

_stmt_init ==
  [sqls |-> <<>>, pos |-> 0, current_sql |-> NoSql, base |-> "tsdb",
   pointed |-> FALSE,   \* tsdb_stmt.current_sql # NULL (it points to current_sql)
   qms |-> 0,           \* tsdb_stmt.params.qms (and nr_params)
   stmt2 |-> NoSql, res |-> NoRes, topic |-> NoSql,
   bound |-> 0,         \* DESC_COUNT of the APD and of the IPD
   ird |-> "none",      \* whose columns the IRD describes
   live |-> 0, handles |-> 0,   \* results and stmt2 the client library holds
   ret |-> "ok", did |-> <<>>]

Ok(s)    == [s EXCEPT !.ret = "ok"]
Error(s) == [s EXCEPT !.ret = "error"]
Sends(s, sql, params) == [s EXCEPT !.did = Append(@, [sql |-> sql, params |-> params])]
Then(s, f) == IF s.ret = "ok" THEN f ELSE s

(***************************************************************************)
(* tsdb.c                                                                  *)
(***************************************************************************)
tsdb_res_reset(s) ==
  [s EXCEPT !.live = IF s.res.owner = "plain" THEN @ - 1 ELSE @, !.res = NoRes]

tsdb_stmt_unprepare(s) == [s EXCEPT !.pointed = FALSE, !.qms = 0]

tsdb_stmt_reset(s) ==
  [tsdb_res_reset(s) EXCEPT !.handles = IF s.stmt2 # NoSql THEN @ - 1 ELSE @, !.stmt2 = NoSql]

\* the fields of the parameters, which the library fails to tell ("fields") or which the
\* driver cannot use ("params": the server counts other markers than it did, no memory).
\* Only the first failure of a query resets the stmt2; the others, and every failure of
\* an insert (a statement with markers and without columns), leave it open.
_tsdb_stmt_get_fields(s, how) ==
  LET is_insert_stmt == s.stmt2.cols = "none"
  IN  CASE how = "fields" /\ ~is_insert_stmt                    -> Error(tsdb_stmt_reset(s))
        [] how = "params" \/ (how = "fields" /\ is_insert_stmt) -> Error(s)
        [] OTHER                                               -> s

_tsdb_stmt_prepare(s, how) ==
  LET open == [s EXCEPT !.stmt2 = s.current_sql, !.handles = @ + 1]
  IN  CASE how = "init"    -> Error(s)
        [] how = "prepare" -> Error(tsdb_stmt_reset(open))
        [] OTHER           -> _tsdb_stmt_get_fields(open, how)

_prepare(s, how) ==
  LET r == [tsdb_stmt_reset(tsdb_stmt_unprepare(s)) EXCEPT !.pointed = TRUE]
  IN  IF s.current_sql.qms = 0 THEN r
      ELSE _tsdb_stmt_prepare([r EXCEPT !.qms = s.current_sql.qms], how)

\* taos_query hands out a result for a failed query too; a NULL text is refused
\* without one, and a NULL statement is dereferenced
_query(s, how) ==
  LET r == tsdb_res_reset(s)
      answered == [Sends(r, s.current_sql, FALSE) EXCEPT
                     !.res = [owner |-> "plain", of |-> s.current_sql], !.live = @ + 1]
  IN  IF ~s.pointed THEN [r EXCEPT !.ret = "crash"]
      ELSE IF s.current_sql = NoSql THEN Error(r)
      ELSE IF how = "exec" THEN Error(answered) ELSE answered

\* Mutant: the driver frees the result of a stmt2, too.
_execute_Frees(s, how, params) ==
  LET r == tsdb_res_reset(s)
      sent == Sends(r, s.stmt2, params)
  IN  IF s.bound < s.qms \/ (s.qms = 0 /\ s.bound > 0) THEN Error(r)
      ELSE IF s.qms = 0 THEN _query(r, how)
      ELSE IF how = "exec" THEN Error(sent)
      ELSE [sent EXCEPT !.res = [owner |-> "plain", of |-> s.stmt2]]

\* a result of taos_stmt2_exec is its stmt2's
_execute(s, how, params) ==
  LET r == tsdb_res_reset(s)
      sent == Sends(r, s.stmt2, params)
  IN  IF s.bound < s.qms \/ (s.qms = 0 /\ s.bound > 0) THEN Error(r)
      ELSE IF s.qms = 0 THEN _query(r, how)
      ELSE IF how = "exec" THEN Error(sent)
      ELSE [sent EXCEPT !.res = [owner |-> "stmt2", of |-> s.stmt2]]

(***************************************************************************)
(* stmt.c                                                                  *)
(***************************************************************************)
\* Mutant: the statement is forgotten with its result.
_stmt_close_result_Forgets(s) ==
  [tsdb_res_reset(s) EXCEPT !.topic = NoSql, !.base = "tsdb", !.current_sql = NoSql]

_stmt_close_result(s) == [tsdb_res_reset(s) EXCEPT !.topic = NoSql, !.base = "tsdb"]

_stmt_unprepare(s) == tsdb_stmt_unprepare(_stmt_close_result(s))

_stmt_release(s) ==
  LET r == tsdb_stmt_reset(_stmt_close_result(s))
  IN  [_stmt_init EXCEPT !.live = r.live, !.handles = r.handles]

\* Mutant: the position is not moved on.
_stmt_get_next_sql_Again(s, how) ==
  LET z == [s EXCEPT !.current_sql = NoSql]
      next == s.sqls[s.pos + 1]
  IN  IF s.pos + 1 > Len(s.sqls) THEN [z EXCEPT !.ret = "no_data"]
      ELSE IF how = "charset" THEN Error(z)
      ELSE [z EXCEPT !.current_sql = next, !.qms = next.qms]

\* current_sql is cleared before it is known whether there is a next one
_stmt_get_next_sql(s, how) ==
  LET z == [s EXCEPT !.current_sql = NoSql]
      next == s.sqls[s.pos + 1]
  IN  IF s.pos + 1 > Len(s.sqls) THEN [z EXCEPT !.ret = "no_data"]
      ELSE IF Len(s.sqls) > 1 /\ next.qms > 0 THEN Error([z EXCEPT !.current_sql = next])
      ELSE IF how = "charset" THEN Error(z)
      ELSE [z EXCEPT !.current_sql = next, !.pos = @ + 1, !.qms = next.qms]

_stmt_sql_parse(s, text, how) ==
  LET cached == [s EXCEPT !.sqls = text.stmts, !.pos = 0]
      batch  == Len(text.stmts) > 1 /\ \E q \in Range(text.stmts) : q.qms > 0
      first  == _stmt_get_next_sql(cached, how)
  IN  IF ~text.ok \/ batch THEN Error(cached)
      ELSE IF first.ret = "no_data" THEN Error(first) ELSE first

\* topic_open, if the text behind the ! is that of a topic
_stmt_prepare_ext(s, how) ==
  IF s.current_sql.qms > 0 \/ how = "topic" THEN Error(s)
  ELSE [s EXCEPT !.topic = s.current_sql, !.base = "topic"]

\* the parameters are converted and bound; a batch more than one is ParamBatch's
_stmt_execute_with_params(s, how) ==
  IF s.qms # s.current_sql.qms THEN [s EXCEPT !.ret = "abort"]
  ELSE IF s.bound < s.qms \/ Len(s.sqls) > 1 \/ how = "bind" THEN Error(s)
  ELSE _execute(s, how, TRUE)

_stmt_execute(s, how) ==
  IF s.current_sql.qms > 0 THEN _stmt_execute_with_params(s, how)
  ELSE IF s.base # "topic" THEN _execute(s, how, FALSE)
  ELSE IF how = "exec" THEN Error(s) ELSE Sends(s, s.topic, FALSE)

\* whose columns the current result has
Columns(s) == CASE s.base = "tsdb"  -> s.res.of.cols
                [] s.base = "topic" -> s.topic.cols
                [] OTHER            -> s.base

\* a column of a type the driver does not know is an error
_stmt_fill_IRD(s, how) ==
  LET r == [s EXCEPT !.ird = Columns(s)]
  IN  IF how = "type" /\ Columns(s) # "none" THEN Error(r) ELSE r

_stmt_exec_direct_sql(s, how) ==
  LET closed   == _stmt_close_result(s)
      prepared == _prepare(closed, how)
      executed == _stmt_execute(prepared, how)
  IN  Then(prepared, Then(executed, _stmt_fill_IRD(executed, how)))

\* a statement that begins with ! is only taken as the first of its text
_stmt_exec_direct_with_simple_sql(s, how) ==
  IF s.current_sql.ext THEN Error(s) ELSE _stmt_exec_direct_sql(s, how)

stmt_prepare(s, text, how) ==
  LET parsed == _stmt_sql_parse(_stmt_unprepare(s), text, how)
  IN  Then(parsed, IF parsed.current_sql.ext THEN _stmt_prepare_ext(parsed, how)
                                             ELSE _prepare(parsed, how))

stmt_execute(s, how) ==
  LET executed == _stmt_execute(s, how)
  IN  Then(executed, _stmt_fill_IRD(executed, how))

stmt_exec_direct(s, text, how) ==
  LET parsed   == _stmt_sql_parse(_stmt_close_result(s), text, how)
      opened   == _stmt_prepare_ext(parsed, how)
      executed == _stmt_execute(opened, how)
  IN  Then(parsed, IF ~parsed.current_sql.ext THEN _stmt_exec_direct_with_simple_sql(parsed, how)
                   ELSE Then(opened, Then(executed, _stmt_fill_IRD(executed, how))))

\* the topic's part is module Topic's: here a message comes or does not
stmt_more_results(s, how) ==
  CASE s.base = "topic" -> IF how = "topic" THEN [s EXCEPT !.ret = "no_data"] ELSE _stmt_fill_IRD(s, how)
    [] s.base = "tsdb"  -> LET next == _stmt_get_next_sql(s, how)
                           IN  Then(next, _stmt_exec_direct_with_simple_sql(next, how))
    [] OTHER            -> [s EXCEPT !.ret = "no_data"]

\* Mutant: the columns are left to be those of the result before.
stmt_tables_Undescribed(s, base, how) ==
  LET r == [_stmt_close_result(s) EXCEPT !.bound = 0]
  IN  IF how = "exec" THEN Error(r) ELSE [r EXCEPT !.base = base]

\* stmt_columns and stmt_primary_keys alike; sqls keeps the text of before
stmt_tables(s, base, how) ==
  LET r == [_stmt_close_result(s) EXCEPT !.bound = 0]
  IN  IF how = "exec" THEN Error(r) ELSE _stmt_fill_IRD([r EXCEPT !.base = base], how)

\* without _stmt_close_result
stmt_get_type_info(s, how) == _stmt_fill_IRD([s EXCEPT !.base = "typesinfo"], how)

(***************************************************************************)
(* The calls, as far as the driver manager lets them through.              *)
(***************************************************************************)
Start(s)   == [s EXCEPT !.ret = "ok", !.did = <<>>]
Began      == Start(stmt)
Failures   == {"none", "charset", "init", "prepare", "fields", "params", "bind", "exec", "topic", "type"}
Running    == stmt.ret \notin {"crash", "abort"}
NoCursor   == dm.open # "cursor"
Opened(s)  == IF Columns(s) = "none" THEN "executed" ELSE "cursor"
Sent(s)    == [k \in DOMAIN s.did |-> s.did[k].sql]

Init ==
  /\ stmt = _stmt_init /\ call = "none"
  /\ dm = [prepared |-> NoSql, open |-> "none", failed |-> FALSE]
  /\ intact = FALSE /\ ran = <<>> /\ refused = {}

\* what is left of a call with result s
Ends(name, s) == /\ call' = name /\ stmt' = s
Unprepared(open) == dm' = [prepared |-> NoSql, open |-> open, failed |-> FALSE]
Idle(open) == dm' = [dm EXCEPT !.open = open, !.failed = FALSE]

SQLPrepare(text, how) ==
  LET s == stmt_prepare(Began, text, how)
  IN  /\ Running /\ NoCursor
      /\ Ends("SQLPrepare", s)
      /\ IF s.ret = "ok" THEN dm' = [prepared |-> text.stmts[1], open |-> "none", failed |-> FALSE]
                         ELSE Unprepared("none")
      /\ intact' = (s.ret = "ok") /\ ran' = <<>> /\ refused' = {}

SQLExecute(how) ==
  LET s == stmt_execute(Began, how)
  IN  /\ Running /\ dm.prepared # NoSql /\ NoCursor
      /\ Ends("SQLExecute", s)
      /\ Idle(IF s.ret = "ok" THEN Opened(s) ELSE "none")
      /\ UNCHANGED <<intact, ran, refused>>

SQLExecDirect(text, how) ==
  LET s == stmt_exec_direct(Began, text, how)
  IN  /\ Running /\ NoCursor
      /\ Ends("SQLExecDirect", s)
      /\ Unprepared(IF s.ret = "ok" THEN Opened(s) ELSE "none")
      /\ intact' = FALSE /\ ran' = Sent(s) /\ refused' = {}

SQLMoreResults(how) ==
  LET s == stmt_more_results(Began, how)
      taken == Range(SubSeq(s.sqls, stmt.pos + 1, s.pos))
  IN  /\ Running /\ dm.open # "none"
      /\ Ends("SQLMoreResults", s)
      /\ dm' = CASE s.ret = "ok"      -> [dm EXCEPT !.open = Opened(s), !.failed = FALSE]
                 [] s.ret = "no_data" -> [dm EXCEPT !.open = "none", !.failed = FALSE]
                 [] OTHER             -> [dm EXCEPT !.failed = TRUE]
      /\ ran' = IF s.base = "tsdb" THEN ran \o Sent(s) ELSE ran
      /\ refused' = refused \cup (taken \ Range(Sent(s)))
      /\ intact' = FALSE

\* SQLCloseCursor, SQLFreeStmt(SQL_CLOSE)
CloseCursor ==
  /\ Running
  /\ Ends("SQLCloseCursor", _stmt_close_result(Began))
  /\ Idle("none")
  /\ intact' = (intact /\ ~dm.prepared.ext)
  /\ UNCHANGED <<ran, refused>>

CatalogFunction(base, how) ==
  LET s == IF base = "typesinfo" THEN stmt_get_type_info(Began, how)
                                 ELSE stmt_tables(Began, base, how)
  IN  /\ Running /\ NoCursor
      /\ Ends(base, s)
      /\ Unprepared(IF s.ret = "ok" THEN "cursor" ELSE "none")
      /\ intact' = FALSE /\ UNCHANGED <<ran, refused>>

SQLBindParameter ==
  /\ Running /\ stmt.bound < MaxParams
  /\ Ends("SQLBindParameter", [Began EXCEPT !.bound = @ + 1])
  /\ UNCHANGED <<dm, intact, ran, refused>>

SQL_RESET_PARAMS ==
  /\ Running /\ stmt.bound > 0
  /\ Ends("SQLFreeStmt", [Began EXCEPT !.bound = 0])
  /\ UNCHANGED <<dm, intact, ran, refused>>

\* OA_NIY: params.qms is that of current_sql, or the process is aborted
SQLNumParams ==
  /\ Running /\ (dm.prepared # NoSql \/ dm.open # "none")
  /\ Ends("SQLNumParams",
          [Began EXCEPT !.ret = IF stmt.base # "tsdb" THEN "error"
                                ELSE IF stmt.qms # stmt.current_sql.qms THEN "abort" ELSE "ok"])
  /\ UNCHANGED <<dm, intact, ran, refused>>

\* SQLFreeHandle and SQLAllocHandle, and a process begun anew
SQLFreeHandle ==
  /\ Ends("SQLFreeHandle", IF Running THEN _stmt_release(stmt) ELSE _stmt_init)
  /\ Unprepared("none")
  /\ intact' = FALSE /\ ran' = <<>> /\ refused' = {}

Next ==
  \/ \E text \in Texts, how \in Failures : SQLPrepare(text, how) \/ SQLExecDirect(text, how)
  \/ \E how \in Failures : SQLExecute(how) \/ SQLMoreResults(how)
  \/ \E how \in Failures, base \in Catalog \cup {"typesinfo"} : CatalogFunction(base, how)
  \/ CloseCursor
  \/ SQLBindParameter \/ SQL_RESET_PARAMS
  \/ SQLNumParams
  \/ SQLFreeHandle
Spec == Init /\ [][Next]_vars

(***************************************************************************)
(* Properties.                                                             *)
(***************************************************************************)
\* The statement and what the driver manager knows of it have their types, and the
\* position stays within the text.
TypeOK ==
  /\ DOMAIN stmt = DOMAIN _stmt_init
  /\ stmt.sqls \in Seq(Stmts) /\ stmt.pos \in 0..Len(stmt.sqls)
  /\ stmt.current_sql \in Stmts \cup {NoSql} /\ stmt.bound \in 0..MaxParams
  /\ dm \in [prepared : Stmts \cup {NoSql}, open : {"none", "executed", "cursor"}, failed : BOOLEAN]
  /\ intact \in BOOLEAN

\* The client library's results and prepared statements have one owner each: a
\* result of taos_query is freed once and only when it is replaced or closed,
\* one of a stmt2 never, and not used when its stmt2 is closed; no stmt2 is left
\* behind when another one is prepared (tsdb.c: res_needs_free, tsdb_stmt_reset).
ResultsOwned ==
  /\ stmt.live = IF stmt.res.owner = "plain" THEN 1 ELSE 0
  /\ stmt.handles = IF stmt.stmt2 # NoSql THEN 1 ELSE 0
  /\ stmt.res.owner = "stmt2" => stmt.stmt2 # NoSql /\ stmt.res.of = stmt.stmt2

ExecutesOnly(q) ==
  /\ stmt.ret \notin {"abort", "crash"}
  /\ stmt.ret = "ok" => stmt.did # <<>>
  /\ \A k \in DOMAIN stmt.did : stmt.did[k] = [sql |-> q, params |-> q.qms > 0]

\* A prepared statement that was not taken through SQLMoreResults stays what
\* SQLExecute executes, whatever is executed, closed, bound and fails in between:
\* the statement itself, with its parameters bound for this execution.
PreparedIsExecuted ==
  /\ intact /\ call = "SQLExecute" => ExecutesOnly(dm.prepared)
  /\ intact /\ call = "SQLNumParams" => stmt.ret # "abort"

\* "no need to check whether it's prepared or not, DM would have already checked"
\* (stmt_execute): what the driver manager has found prepared can be executed.
DMHasChecked == call = "SQLExecute" => ExecutesOnly(dm.prepared)

\* done is sqls up to pos without those of out, each once and in its order: at
\* says where in sqls each of them stands.
InOrder(done, sqls, pos, out) ==
  \E at \in [DOMAIN done -> 1..pos] :
    /\ \A i, j \in DOMAIN done : i < j => at[i] < at[j]
    /\ \A i \in DOMAIN done : done[i] = sqls[at[i]]
    /\ Range(at) = {k \in 1..pos : sqls[k] \notin out}

\* The statements of a text given to SQLExecDirect reach the server one by one in
\* their order, each once; left out are those whose call returned an error before
\* it sent them.
BatchInOrder ==
  dm.prepared = NoSql /\ dm.open # "none" /\ stmt.base \in {"tsdb", "topic"} =>
    InOrder(ran, stmt.sqls, stmt.pos, refused)

\* As long as a cursor is open and the last SQLMoreResults has not failed, the
\* IRD describes the result SQLFetch reads.
IRDDescribes == dm.open = "cursor" /\ ~dm.failed => stmt.ird = Columns(stmt)
=============================================================================
