-------------------------- MODULE StatementProofs --------------------------
(***************************************************************************)
(* Proofs about StmtExec, for any texts of any statements, any parameters  *)
(* and any failures; and, further down, about Catalog and the patterns of  *)
(* Wild, for any tables, any names, any arguments and any failures.  The   *)
(* two have no state in common.                                            *)
(*                                                                         *)
(* Every function of the driver maps a statement to a statement: a lemma   *)
(* for each says which fields it leaves alone and what it does to those    *)
(* the properties are about.                                               *)
(***************************************************************************)
EXTENDS StmtExec, Catalog, FiniteSetTheorems, SequenceTheorems, NaturalsInduction, WellFoundedInduction, TLAPS

Fields == DOMAIN _stmt_init
Rec(s) == DOMAIN s = Fields

\* s and r differ in the fields changed at most.
Same(r, s, changed) == Rec(r) /\ \A f \in Fields \ changed : r[f] = s[f]

\* ResultsOwned, of any stmt_t.
Owned(s) ==
  /\ s.live = IF s.res.owner = "plain" THEN 1 ELSE 0
  /\ s.handles = IF s.stmt2 # NoSql THEN 1 ELSE 0
  /\ s.res.owner = "stmt2" => s.stmt2 # NoSql /\ s.res.of = s.stmt2

\* A statement with markers has its stmt2.
Ready(s) == s.qms # 0 => s.stmt2 # NoSql

LEMMA FieldNames ==
  Fields = {"sqls", "pos", "current_sql", "base", "pointed", "qms", "stmt2", "res", "topic",
            "bound", "ird", "live", "handles", "ret", "did"}
  BY DEF Fields, _stmt_init

-----------------------------------------------------------------------------
(* tsdb.c                                                                  *)

LEMMA SameTrans ==
  ASSUME NEW r, NEW q, NEW s, NEW some, NEW more, Same(r, q, some), Same(q, s, more)
  PROVE  Same(r, s, some \cup more)
  BY DEF Same

\* Only how the call ended changes.
LEMMA Ended ==
  ASSUME NEW s, Rec(s), NEW answer
  PROVE  LET r == [s EXCEPT !.ret = answer]
         IN  /\ Same(r, s, {"ret"}) /\ r.ret = answer
             /\ Owned(s) => Owned(r)
  BY FieldNames DEF Same, Rec, Owned

LEMMA ErrorEnded ==
  ASSUME NEW s, Rec(s)
  PROVE  /\ Same(Error(s), s, {"ret"}) /\ Error(s).ret = "error"
         /\ Owned(s) => Owned(Error(s))
  BY Ended DEF Error

LEMMA ResReset ==
  ASSUME NEW s, Rec(s), Owned(s)
  PROVE  /\ Same(tsdb_res_reset(s), s, {"live", "res"})
         /\ Owned(tsdb_res_reset(s)) /\ tsdb_res_reset(s).res = NoRes
  <1> DEFINE r == tsdb_res_reset(s)
  <1>1. Same(r, s, {"live", "res"}) /\ r.res = NoRes /\ r.live = IF s.res.owner = "plain" THEN s.live - 1 ELSE s.live
    BY FieldNames DEF tsdb_res_reset, Same, Rec
  <1>2. r.live = 0
    BY <1>1 DEF Owned
  <1>3. r.handles = s.handles /\ r.stmt2 = s.stmt2
    BY <1>1, FieldNames DEF Same
  <1> HIDE DEF r
  <1>4. Owned(r)
    BY <1>1, <1>2, <1>3 DEF Owned, NoRes
  <1> QED BY <1>1, <1>4 DEF r

LEMMA StmtReset ==
  ASSUME NEW s, Rec(s), Owned(s)
  PROVE  /\ Same(tsdb_stmt_reset(s), s, {"live", "res", "handles", "stmt2"})
         /\ Owned(tsdb_stmt_reset(s)) /\ tsdb_stmt_reset(s).res = NoRes /\ tsdb_stmt_reset(s).stmt2 = NoSql
  <1> DEFINE q == tsdb_res_reset(s)
             r == tsdb_stmt_reset(s)
  <1>1. Same(q, s, {"live", "res"}) /\ Owned(q) /\ q.res = NoRes
    BY ResReset
  <1>2. q.stmt2 = s.stmt2 /\ q.handles = s.handles /\ q.live = 0
    BY <1>1, FieldNames DEF Same, Owned, NoRes
  <1> HIDE DEF q
  <1>3. r = [q EXCEPT !.handles = IF s.stmt2 # NoSql THEN @ - 1 ELSE @, !.stmt2 = NoSql]
    BY DEF tsdb_stmt_reset, q
  <1> HIDE DEF r
  <1>4. /\ Same(r, q, {"handles", "stmt2"}) /\ r.stmt2 = NoSql
        /\ r.handles = IF s.stmt2 # NoSql THEN q.handles - 1 ELSE q.handles
    BY <1>1, <1>3, FieldNames DEF Same, Rec
  <1>5. r.handles = 0
    BY <1>2, <1>4 DEF Owned
  <1>6. r.live = 0 /\ r.res = NoRes
    BY <1>1, <1>2, <1>4, FieldNames DEF Same
  <1>7. Owned(r)
    <2>1. r.res.owner = "none" /\ r.stmt2 = NoSql
      BY <1>4, <1>6 DEF NoRes
    <2> QED BY <1>5, <1>6, <2>1 DEF Owned
  <1>8. Same(r, s, {"live", "res", "handles", "stmt2"})
    BY <1>1, <1>4 DEF Same
  <1> QED BY <1>4, <1>6, <1>7, <1>8 DEF r

\* What may come of executing sql: the result, how it ended, and what was sent.
Executed(r, s, sql, params) ==
  LET sent == Append(s.did, [sql |-> sql, params |-> params])
  IN  /\ Same(r, s, {"live", "res", "did", "ret"}) /\ Owned(r)
      /\ r.ret \in {"ok", "error", "crash"} /\ r.did \in {s.did, sent}
      /\ r.ret = "ok" => r.did = sent

LEMMA Query ==
  ASSUME NEW s, Rec(s), Owned(s), NEW how, s.ret = "ok"
  PROVE  /\ Executed(_query(s, how), s, s.current_sql, FALSE)
         /\ _query(s, how).ret = "crash" => ~s.pointed
  <1> DEFINE r == tsdb_res_reset(s)
             rec == [sql |-> s.current_sql, params |-> FALSE]
             sent == Sends(r, s.current_sql, FALSE)
             res == [owner |-> "plain", of |-> s.current_sql]
             answered == [sent EXCEPT !.res = res, !.live = @ + 1]
  <1>1. Same(r, s, {"live", "res"}) /\ Owned(r) /\ r.res = NoRes
    BY ResReset
  <1>2. r.live = 0 /\ r.did = s.did /\ r.ret = "ok" /\ r.handles = s.handles /\ r.stmt2 = s.stmt2
    BY <1>1, FieldNames DEF Same, Owned, NoRes
  <1>3. _query(s, how) = IF ~s.pointed THEN [r EXCEPT !.ret = "crash"]
                         ELSE IF s.current_sql = NoSql THEN Error(r)
                         ELSE IF how = "exec" THEN Error(answered) ELSE answered
    BY DEF _query
  <1> HIDE DEF r
  <1>4. Same(sent, r, {"did"}) /\ sent.did = Append(s.did, rec)
    BY <1>1, <1>2, FieldNames DEF Sends, Same, Rec
  <1> HIDE DEF sent
  <1>5. /\ Same(answered, sent, {"res", "live"}) /\ answered.res = res /\ answered.live = sent.live + 1
    BY <1>4, FieldNames DEF Same, Rec
  <1> HIDE DEF answered
  <1>6. /\ answered.live = 1 /\ answered.handles = s.handles /\ answered.stmt2 = s.stmt2
        /\ answered.did = Append(s.did, rec) /\ answered.ret = "ok"
    BY <1>2, <1>4, <1>5, FieldNames DEF Same
  <1>7. Owned(answered) /\ Same(answered, s, {"live", "res", "did", "ret"})
    BY <1>1, <1>4, <1>5, <1>6, FieldNames DEF Owned, Same
  <1>8. /\ Same(r, s, {"live", "res", "did", "ret"}) /\ Rec(r) /\ Rec(answered)
    BY <1>1, <1>7 DEF Same
  <1> DEFINE q == _query(s, how)
  <1>9. CASE ~s.pointed
    <2>1. q = [r EXCEPT !.ret = "crash"]
      BY <1>3, <1>9
    <2>2. Same(q, r, {"ret"}) /\ Owned(q) /\ q.ret = "crash"
      BY <1>1, <1>8, <2>1, Ended
    <2>3. Same(q, s, {"live", "res", "did", "ret"})
      BY <1>8, <2>2 DEF Same
    <2>4. q.did = s.did
      BY <1>2, <2>2, FieldNames DEF Same
    <2> QED BY <1>9, <2>2, <2>3, <2>4 DEF Executed
  <1>10. CASE s.pointed /\ s.current_sql = NoSql
    <2>1. q = Error(r)
      BY <1>3, <1>10
    <2>2. Same(q, r, {"ret"}) /\ Owned(q) /\ q.ret = "error"
      BY <1>1, <1>8, <2>1, ErrorEnded
    <2>3. Same(q, s, {"live", "res", "did", "ret"})
      BY <1>8, <2>2 DEF Same
    <2>4. q.did = s.did
      BY <1>2, <2>2, FieldNames DEF Same
    <2> QED BY <1>10, <2>2, <2>3, <2>4 DEF Executed
  <1>11. CASE s.pointed /\ s.current_sql # NoSql /\ how = "exec"
    <2>1. q = Error(answered)
      BY <1>3, <1>11
    <2>2. Same(q, answered, {"ret"}) /\ Owned(q) /\ q.ret = "error"
      BY <1>7, <1>8, <2>1, ErrorEnded
    <2>3. Same(q, s, {"live", "res", "did", "ret"})
      BY <1>7, <2>2 DEF Same
    <2>4. q.did = Append(s.did, rec)
      BY <1>6, <2>2, FieldNames DEF Same
    <2> QED BY <1>11, <2>2, <2>3, <2>4 DEF Executed
  <1>12. CASE s.pointed /\ s.current_sql # NoSql /\ how # "exec"
    <2>1. q = answered
      BY <1>3, <1>12
    <2> QED BY <1>6, <1>7, <2>1 DEF Executed
  <1> QED BY <1>9, <1>10, <1>11, <1>12

\* A statement with markers is executed through its stmt2, another by its text.
LEMMA Execute ==
  ASSUME NEW s, Rec(s), Owned(s), Ready(s), NEW how, NEW params, s.ret = "ok"
  PROVE  /\ s.qms = 0 => Executed(_execute(s, how, params), s, s.current_sql, FALSE)
         /\ s.qms # 0 => Executed(_execute(s, how, params), s, s.stmt2, params)
         /\ _execute(s, how, params).ret = "crash" => s.qms = 0 /\ ~s.pointed
  <1> DEFINE r == tsdb_res_reset(s)
             rec == [sql |-> s.stmt2, params |-> params]
             sent == Sends(r, s.stmt2, params)
             res == [owner |-> "stmt2", of |-> s.stmt2]
             q == _execute(s, how, params)
             denied == s.bound < s.qms \/ (s.qms = 0 /\ s.bound > 0)
  <1>1. Same(r, s, {"live", "res"}) /\ Owned(r) /\ r.res = NoRes
    BY ResReset
  <1>2. r.live = 0 /\ r.did = s.did /\ r.ret = "ok" /\ r.handles = s.handles /\ r.stmt2 = s.stmt2
        /\ r.current_sql = s.current_sql /\ r.pointed = s.pointed /\ Rec(r)
    BY <1>1, FieldNames DEF Same, Owned, NoRes
  <1>3. q = IF denied THEN Error(r)
            ELSE IF s.qms = 0 THEN _query(r, how)
            ELSE IF how = "exec" THEN Error(sent) ELSE [sent EXCEPT !.res = res]
    BY DEF _execute
  <1> HIDE DEF r, denied, q
  <1>4. Same(sent, r, {"did"}) /\ sent.did = Append(s.did, rec)
    BY <1>1, <1>2, FieldNames DEF Sends, Same, Rec
  <1> HIDE DEF sent
  <1>5. /\ sent.live = 0 /\ sent.handles = s.handles /\ sent.stmt2 = s.stmt2
        /\ sent.ret = "ok" /\ sent.res = NoRes /\ Rec(sent)
    BY <1>1, <1>2, <1>4, FieldNames DEF Same
  <1>6. Owned(sent) /\ Same(sent, s, {"live", "res", "did", "ret"})
    BY <1>1, <1>4, <1>5, FieldNames DEF Owned, Same, NoRes
  <1>7. CASE denied
    <2>1. q = Error(r)
      BY <1>3, <1>7
    <2>2. Same(q, r, {"ret"}) /\ Owned(q) /\ q.ret = "error"
      BY <1>1, <1>2, <2>1, ErrorEnded
    <2>3. Same(q, s, {"live", "res", "did", "ret"})
      BY <1>1, <2>2 DEF Same
    <2>4. q.did = s.did
      BY <1>2, <2>2, FieldNames DEF Same
    <2> QED BY <2>2, <2>3, <2>4 DEF Executed, q
  <1>8. CASE ~denied /\ s.qms = 0
    <2>1. q = _query(r, how)
      BY <1>3, <1>8
    <2>2. Executed(q, r, s.current_sql, FALSE) /\ (q.ret = "crash" => ~s.pointed)
      BY <1>1, <1>2, <2>1, Query
    <2>3. Same(q, s, {"live", "res", "did", "ret"})
      BY <1>1, <2>2 DEF Same, Executed
    <2>4. Executed(q, s, s.current_sql, FALSE)
      BY <1>2, <2>2, <2>3 DEF Executed
    <2> QED BY <1>8, <2>2, <2>4 DEF q
  <1>9. CASE ~denied /\ s.qms # 0 /\ how = "exec"
    <2>1. q = Error(sent)
      BY <1>3, <1>9
    <2>2. Same(q, sent, {"ret"}) /\ Owned(q) /\ q.ret = "error"
      BY <1>5, <1>6, <2>1, ErrorEnded
    <2>3. Same(q, s, {"live", "res", "did", "ret"})
      BY <1>6, <2>2 DEF Same
    <2>4. q.did = Append(s.did, rec)
      BY <1>4, <2>2, FieldNames DEF Same
    <2> QED BY <1>9, <2>2, <2>3, <2>4 DEF Executed, q
  <1>10. CASE ~denied /\ s.qms # 0 /\ how # "exec"
    <2>1. q = [sent EXCEPT !.res = res]
      BY <1>3, <1>10
    <2>2. Same(q, sent, {"res"}) /\ q.res = res
      BY <1>5, <2>1, FieldNames DEF Same, Rec
    <2>3. q.live = 0 /\ q.handles = s.handles /\ q.stmt2 = s.stmt2 /\ q.ret = "ok" /\ q.did = Append(s.did, rec)
      BY <1>4, <1>5, <2>2, FieldNames DEF Same
    <2>4. s.stmt2 # NoSql
      BY <1>10 DEF Ready
    <2>5. q.res.owner = "stmt2" /\ q.res.of = q.stmt2
      BY <2>2, <2>3
    <2>6. Owned(q)
      BY <2>3, <2>4, <2>5 DEF Owned
    <2>7. Same(q, s, {"live", "res", "did", "ret"})
      BY <1>6, <2>2 DEF Same
    <2> QED BY <1>10, <2>3, <2>6, <2>7 DEF Executed, q
  <1> QED BY <1>7, <1>8, <1>9, <1>10

\* What is prepared is what is current, and the stmt2 of before is closed.
Prepared(r, s) ==
  /\ Same(r, s, {"live", "res", "handles", "stmt2", "pointed", "qms", "ret"}) /\ Owned(r)
  /\ r.ret \in {"ok", "error"} /\ r.pointed = TRUE /\ r.qms = s.current_sql.qms
  /\ r.ret = "ok" /\ r.qms # 0 => r.stmt2 = s.current_sql

LEMMA Prepare ==
  ASSUME NEW s, Rec(s), Owned(s), NEW how, s.ret = "ok", s.current_sql \in Stmts \cup {NoSql}
  PROVE  Prepared(_prepare(s, how), s)
  <1> DEFINE u == tsdb_stmt_unprepare(s)
             z == tsdb_stmt_reset(u)
             r == [z EXCEPT !.pointed = TRUE]
             m == [r EXCEPT !.qms = s.current_sql.qms]
             open == [m EXCEPT !.stmt2 = m.current_sql, !.handles = @ + 1]
             q == _prepare(s, how)
  <1>1. Same(u, s, {"pointed", "qms"}) /\ u.qms = 0
    BY FieldNames DEF tsdb_stmt_unprepare, Same, Rec
  <1>2. u.live = s.live /\ u.handles = s.handles /\ u.stmt2 = s.stmt2 /\ u.res = s.res /\ Rec(u)
    BY <1>1, FieldNames DEF Same
  <1>3. Owned(u)
    BY <1>2 DEF Owned
  <1> HIDE DEF u
  <1>4. Same(z, u, {"live", "res", "handles", "stmt2"}) /\ Owned(z) /\ z.res = NoRes /\ z.stmt2 = NoSql
    BY <1>2, <1>3, StmtReset
  <1>5. z.live = 0 /\ z.handles = 0 /\ z.qms = 0 /\ z.ret = "ok" /\ z.current_sql = s.current_sql /\ Rec(z)
    BY <1>1, <1>4, FieldNames DEF Same, Owned, NoRes
  <1> HIDE DEF z
  <1>6. /\ Same(r, z, {"pointed"}) /\ r.pointed = TRUE
    BY <1>5, FieldNames DEF Same, Rec
  <1>7. /\ r.live = 0 /\ r.handles = 0 /\ r.qms = 0 /\ r.ret = "ok" /\ r.current_sql = s.current_sql
        /\ r.res = NoRes /\ r.stmt2 = NoSql /\ Rec(r)
    BY <1>4, <1>5, <1>6, FieldNames DEF Same
  <1>8. Same(r, s, {"live", "res", "handles", "stmt2", "pointed", "qms", "ret"})
    BY <1>1, <1>4, <1>6 DEF Same
  <1>9. q = IF s.current_sql.qms = 0 THEN r ELSE _tsdb_stmt_prepare(m, how)
    BY DEF _prepare, z, u
  <1> HIDE DEF r, q
  <1>10. Same(m, r, {"qms"}) /\ m.qms = s.current_sql.qms
    BY <1>7, FieldNames DEF Same, Rec
  <1>11. /\ m.live = 0 /\ m.handles = 0 /\ m.ret = "ok" /\ m.current_sql = s.current_sql
         /\ m.res = NoRes /\ m.stmt2 = NoSql /\ Rec(m) /\ m.pointed = TRUE
    BY <1>6, <1>7, <1>10, FieldNames DEF Same
  <1>12. _tsdb_stmt_prepare(m, how) \in {Error(m), Error(tsdb_stmt_reset(open)), Error(open), open}
    BY DEF _tsdb_stmt_prepare, _tsdb_stmt_get_fields
  <1> HIDE DEF m
  <1>13. Same(open, m, {"stmt2", "handles"}) /\ open.stmt2 = s.current_sql /\ open.handles = 1
    <2>1. Same(open, m, {"stmt2", "handles"}) /\ open.stmt2 = m.current_sql /\ open.handles = m.handles + 1
      BY <1>11, FieldNames DEF Same, Rec
    <2> HIDE DEF open
    <2> QED BY <1>11, <2>1
  <1>14. open.live = 0 /\ open.res = NoRes /\ open.ret = "ok" /\ open.qms = s.current_sql.qms /\ Rec(open) /\ open.pointed = TRUE
    BY <1>10, <1>11, <1>13, FieldNames DEF Same
  <1> HIDE DEF open
  <1>15. CASE s.current_sql.qms = 0
    <2>1. q = r
      BY <1>9, <1>15
    <2>2. Owned(r)
      BY <1>7 DEF Owned, NoRes
    <2> QED BY <1>6, <1>7, <1>8, <1>15, <2>1, <2>2 DEF Prepared, q
  <1>16. CASE s.current_sql.qms # 0
    <2>1. s.current_sql # NoSql
      BY <1>16, ExecAssumption
    <2>2. Owned(m)
      BY <1>11 DEF Owned, NoRes
    <2>3. Owned(open)
      BY <1>13, <1>14, <2>1 DEF Owned, NoRes
    <2>4. Same(m, s, {"live", "res", "handles", "stmt2", "pointed", "qms", "ret"})
      BY <1>8, <1>10 DEF Same
    <2>5. Same(open, s, {"live", "res", "handles", "stmt2", "pointed", "qms", "ret"})
      BY <1>13, <2>4 DEF Same
    <2>6. CASE q = Error(m)
      <3>1. Same(q, m, {"ret"}) /\ Owned(q) /\ q.ret = "error"
        BY <1>11, <2>2, <2>6, ErrorEnded
      <3>2. Same(q, s, {"live", "res", "handles", "stmt2", "pointed", "qms", "ret"})
        BY <2>4, <3>1 DEF Same
      <3>3. q.pointed = TRUE /\ q.qms = s.current_sql.qms
        BY <1>10, <1>11, <3>1, FieldNames DEF Same
      <3> QED BY <3>1, <3>2, <3>3 DEF Prepared, q
    <2>7. CASE q = Error(tsdb_stmt_reset(open))
      <3> DEFINE c == tsdb_stmt_reset(open)
      <3>1. Same(c, open, {"live", "res", "handles", "stmt2"}) /\ Owned(c)
        BY <1>14, <2>3, StmtReset
      <3> HIDE DEF c
      <3>2. Rec(c) /\ q = Error(c)
        BY <2>7, <3>1 DEF Same, c
      <3>3. Same(q, c, {"ret"}) /\ Owned(q) /\ q.ret = "error"
        BY <3>1, <3>2, ErrorEnded
      <3>4. Same(q, s, {"live", "res", "handles", "stmt2", "pointed", "qms", "ret"})
        BY <2>5, <3>1, <3>3 DEF Same
      <3>5. q.pointed = TRUE /\ q.qms = s.current_sql.qms
        BY <1>14, <3>1, <3>3, FieldNames DEF Same
      <3> QED BY <3>3, <3>4, <3>5 DEF Prepared, q
    <2>8. CASE q = Error(open)
      <3>1. Same(q, open, {"ret"}) /\ Owned(q) /\ q.ret = "error"
        BY <1>14, <2>3, <2>8, ErrorEnded
      <3>2. Same(q, s, {"live", "res", "handles", "stmt2", "pointed", "qms", "ret"})
        BY <2>5, <3>1 DEF Same
      <3>3. q.pointed = TRUE /\ q.qms = s.current_sql.qms
        BY <1>14, <3>1, FieldNames DEF Same
      <3> QED BY <3>1, <3>2, <3>3 DEF Prepared, q
    <2>9. CASE q = open
      BY <1>13, <1>14, <2>3, <2>5, <2>9 DEF Prepared, q
    <2>10. q = _tsdb_stmt_prepare(m, how)
      BY <1>9, <1>16
    <2> QED BY <1>12, <2>6, <2>7, <2>8, <2>9, <2>10
  <1> QED BY <1>15, <1>16

-----------------------------------------------------------------------------
(* stmt.c                                                                  *)

\* What TypeOK says of a stmt_t.
Typed(s) ==
  /\ Rec(s) /\ s.sqls \in Seq(Stmts) /\ s.pos \in 0..Len(s.sqls)
  /\ s.current_sql \in Stmts \cup {NoSql} /\ s.bound \in 0..MaxParams

LEMMA KeptTyped ==
  ASSUME NEW r, NEW s, NEW changed, Same(r, s, changed), Typed(s),
         changed \cap {"sqls", "pos", "current_sql", "bound"} = {}
  PROVE  Typed(r)
  <1>1. r.sqls = s.sqls /\ r.pos = s.pos /\ r.current_sql = s.current_sql /\ r.bound = s.bound /\ Rec(r)
    BY FieldNames DEF Same
  <1> QED BY <1>1 DEF Typed

LEMMA KeptOwned ==
  ASSUME NEW r, NEW s, NEW changed, Same(r, s, changed), Owned(s),
         changed \cap {"live", "handles", "res", "stmt2"} = {}
  PROVE  Owned(r)
  <1>1. r.live = s.live /\ r.handles = s.handles /\ r.res = s.res /\ r.stmt2 = s.stmt2
    BY FieldNames DEF Same
  <1> QED BY <1>1 DEF Owned

LEMMA KeptReady ==
  ASSUME NEW r, NEW s, NEW changed, Same(r, s, changed), Ready(s), changed \cap {"qms", "stmt2"} = {}
  PROVE  Ready(r)
  <1>1. r.qms = s.qms /\ r.stmt2 = s.stmt2
    BY FieldNames DEF Same
  <1> QED BY <1>1 DEF Ready

LEMMA KeptColumns ==
  ASSUME NEW r, NEW s, NEW changed, Same(r, s, changed), changed \cap {"base", "res", "topic"} = {}
  PROVE  Columns(r) = Columns(s)
  <1>1. r.base = s.base /\ r.res = s.res /\ r.topic = s.topic
    BY FieldNames DEF Same
  <1> QED BY <1>1 DEF Columns

LEMMA Marks ==
  /\ \A q \in Stmts : q.qms \in Nat
  /\ \A q \in Stmts \cup {NoSql} : q.qms \in Nat /\ (q.qms # 0 => q # NoSql)
  BY ExecAssumption

LEMMA CloseResult ==
  ASSUME NEW s, Rec(s), Owned(s)
  PROVE  LET r == _stmt_close_result(s)
         IN  Same(r, s, {"live", "res", "topic", "base"}) /\ Owned(r) /\ r.base = "tsdb"
  <1> DEFINE q == tsdb_res_reset(s)
             r == [q EXCEPT !.topic = NoSql, !.base = "tsdb"]
  <1>1. Same(q, s, {"live", "res"}) /\ Owned(q)
    BY ResReset
  <1>2. r = _stmt_close_result(s)
    BY DEF _stmt_close_result
  <1> HIDE DEF q
  <1>3. Same(r, q, {"topic", "base"}) /\ r.base = "tsdb"
    BY <1>1, FieldNames DEF Same, Rec
  <1> HIDE DEF r
  <1>4. Owned(r)
    BY <1>1, <1>3, KeptOwned
  <1>5. Same(r, s, {"live", "res", "topic", "base"})
    BY <1>1, <1>3 DEF Same
  <1> QED BY <1>2, <1>3, <1>4, <1>5

LEMMA Unprepare ==
  ASSUME NEW s, Rec(s), Owned(s)
  PROVE  LET r == _stmt_unprepare(s)
         IN  Same(r, s, {"live", "res", "topic", "base", "pointed", "qms"}) /\ Owned(r) /\ r.base = "tsdb"
  <1> DEFINE q == _stmt_close_result(s)
             r == tsdb_stmt_unprepare(q)
  <1>1. Same(q, s, {"live", "res", "topic", "base"}) /\ Owned(q) /\ q.base = "tsdb"
    BY CloseResult
  <1>2. r = _stmt_unprepare(s)
    BY DEF _stmt_unprepare
  <1> HIDE DEF q
  <1>3. Same(r, q, {"pointed", "qms"})
    BY <1>1, FieldNames DEF Same, Rec, tsdb_stmt_unprepare
  <1> HIDE DEF r
  <1>4. Owned(r)
    BY <1>1, <1>3, KeptOwned
  <1>5. Same(r, s, {"live", "res", "topic", "base", "pointed", "qms"})
    BY <1>1, <1>3 DEF Same
  <1>6. r.base = "tsdb"
    BY <1>1, <1>3, FieldNames DEF Same
  <1> QED BY <1>2, <1>4, <1>5, <1>6

LEMMA FillIRD ==
  ASSUME NEW s, Rec(s), NEW how, s.ret = "ok"
  PROVE  LET r == _stmt_fill_IRD(s, how)
         IN  Same(r, s, {"ird", "ret"}) /\ r.ret \in {"ok", "error"} /\ r.ird = Columns(r)
  <1> DEFINE d == [s EXCEPT !.ird = Columns(s)]
             r == _stmt_fill_IRD(s, how)
  <1>1. Same(d, s, {"ird"}) /\ d.ird = Columns(s)
    BY FieldNames DEF Same, Rec
  <1>2. r = IF how = "type" /\ Columns(s) # "none" THEN Error(d) ELSE d
    BY DEF _stmt_fill_IRD
  <1> HIDE DEF d, r
  <1>3. d.ret = "ok" /\ Rec(d)
    BY <1>1, FieldNames DEF Same
  <1>4. Same(r, d, {"ret"}) /\ r.ret \in {"ok", "error"}
    BY <1>2, <1>3, ErrorEnded DEF Same
  <1>5. Same(r, s, {"ird", "ret"}) /\ r.ird = Columns(s)
    BY <1>1, <1>4, FieldNames DEF Same
  <1>6. Columns(r) = Columns(s)
    BY <1>5, KeptColumns
  <1> QED BY <1>4, <1>5, <1>6 DEF r

\* A next statement is taken from behind the position, or none, or it fails.
LEMMA GetNextSql ==
  ASSUME NEW s, Typed(s), NEW how, s.ret = "ok"
  PROVE  LET r == _stmt_get_next_sql(s, how)
         IN  /\ Same(r, s, {"current_sql", "pos", "qms", "ret"}) /\ Typed(r)
             /\ r.ret \in {"ok", "error", "no_data"}
             /\ r.ret = "no_data" => s.pos + 1 > Len(s.sqls)
             /\ r.ret = "ok" => /\ s.pos + 1 <= Len(s.sqls) /\ r.pos = s.pos + 1 /\ r.current_sql = s.sqls[s.pos + 1]
                                /\ r.current_sql \in Stmts /\ r.qms = r.current_sql.qms /\ (Len(s.sqls) > 1 => r.qms = 0)
             /\ r.ret # "ok" => r.qms = s.qms /\ r.pos = s.pos
  <1> DEFINE next == s.sqls[s.pos + 1]
             z == [s EXCEPT !.current_sql = NoSql]
             zn == [z EXCEPT !.ret = "no_data"]
             zc == [z EXCEPT !.current_sql = next]
             ok == [z EXCEPT !.current_sql = next, !.pos = @ + 1, !.qms = next.qms]
             r == _stmt_get_next_sql(s, how)
  <1>1. Rec(s) /\ s.sqls \in Seq(Stmts) /\ Len(s.sqls) \in Nat /\ s.pos \in Nat /\ s.pos <= Len(s.sqls) /\ s.bound \in 0..MaxParams
    BY DEF Typed
  <1>2. r = IF s.pos + 1 > Len(s.sqls) THEN zn
            ELSE IF Len(s.sqls) > 1 /\ next.qms > 0 THEN Error(zc)
            ELSE IF how = "charset" THEN Error(z) ELSE ok
    BY DEF _stmt_get_next_sql
  <1>3. s.pos + 1 <= Len(s.sqls) => next \in Stmts /\ next.qms \in Nat
    <2>1. s.pos + 1 <= Len(s.sqls) => s.pos + 1 \in 1..Len(s.sqls)
      BY <1>1
    <2> QED BY <1>1, <2>1, Marks
  <1> HIDE DEF next, r
  <1>4. Same(z, s, {"current_sql"}) /\ z.current_sql = NoSql /\ Rec(z)
    BY <1>1, FieldNames DEF Same, Rec
  <1>5. z.pos = s.pos /\ z.qms = s.qms /\ z.ret = "ok" /\ z.sqls = s.sqls /\ z.bound = s.bound
    BY <1>4, FieldNames DEF Same
  <1> HIDE DEF z
  <1>6. CASE s.pos + 1 > Len(s.sqls)
    <2>1. r = zn
      BY <1>2, <1>6
    <2>2. Same(r, z, {"ret"}) /\ r.ret = "no_data"
      BY <1>4, <2>1, Ended
    <2>3. Same(r, s, {"current_sql", "pos", "qms", "ret"}) /\ r.qms = s.qms /\ r.pos = s.pos /\ r.current_sql = NoSql
          /\ r.sqls = s.sqls /\ r.bound = s.bound
      BY <1>4, <1>5, <2>2, FieldNames DEF Same
    <2>4. Typed(r)
      BY <1>1, <2>3 DEF Typed, Same
    <2> QED BY <1>6, <2>2, <2>3, <2>4 DEF r
  <1>7. CASE s.pos + 1 <= Len(s.sqls) /\ Len(s.sqls) > 1 /\ next.qms > 0
    <2>1. r = Error(zc)
      BY <1>1, <1>2, <1>7
    <2>2. Same(zc, z, {"current_sql"}) /\ zc.current_sql = next /\ Rec(zc)
      BY <1>4, FieldNames DEF Same, Rec
    <2> HIDE DEF zc
    <2>3. Same(r, zc, {"ret"}) /\ r.ret = "error"
      BY <2>1, <2>2, ErrorEnded
    <2>4. Same(r, s, {"current_sql", "pos", "qms", "ret"}) /\ r.qms = s.qms /\ r.pos = s.pos /\ r.current_sql = next
          /\ r.sqls = s.sqls /\ r.bound = s.bound
      BY <1>4, <1>5, <2>2, <2>3, FieldNames DEF Same
    <2>5. Typed(r)
      BY <1>1, <1>3, <1>7, <2>4 DEF Typed, Same
    <2> QED BY <2>3, <2>4, <2>5 DEF r
  <1>8. CASE s.pos + 1 <= Len(s.sqls) /\ ~(Len(s.sqls) > 1 /\ next.qms > 0) /\ how = "charset"
    <2>1. r = Error(z)
      BY <1>1, <1>2, <1>8
    <2>2. Same(r, z, {"ret"}) /\ r.ret = "error"
      BY <1>4, <2>1, ErrorEnded
    <2>3. Same(r, s, {"current_sql", "pos", "qms", "ret"}) /\ r.qms = s.qms /\ r.pos = s.pos /\ r.current_sql = NoSql
          /\ r.sqls = s.sqls /\ r.bound = s.bound
      BY <1>4, <1>5, <2>2, FieldNames DEF Same
    <2>4. Typed(r)
      BY <1>1, <2>3 DEF Typed, Same
    <2> QED BY <2>2, <2>3, <2>4 DEF r
  <1>9. CASE s.pos + 1 <= Len(s.sqls) /\ ~(Len(s.sqls) > 1 /\ next.qms > 0) /\ how # "charset"
    <2>1. r = ok
      BY <1>1, <1>2, <1>9
    <2>2. Same(r, z, {"current_sql", "pos", "qms"}) /\ r.current_sql = next /\ r.pos = z.pos + 1 /\ r.qms = next.qms
      BY <1>4, <2>1, FieldNames DEF Same, Rec
    <2>3. Same(r, s, {"current_sql", "pos", "qms", "ret"}) /\ r.ret = "ok" /\ r.sqls = s.sqls /\ r.bound = s.bound
          /\ r.pos = s.pos + 1
      BY <1>4, <1>5, <2>2, FieldNames DEF Same
    <2>4. Typed(r)
      BY <1>1, <1>3, <1>9, <2>2, <2>3 DEF Typed, Same
    <2>5. Len(s.sqls) > 1 => r.qms = 0
      BY <1>3, <1>9, <2>2
    <2> QED BY <1>3, <1>9, <2>2, <2>3, <2>4, <2>5 DEF r, next
  <1> QED BY <1>1, <1>6, <1>7, <1>8, <1>9

\* A text that is taken stands at its first statement.
LEMMA SqlParse ==
  ASSUME NEW s, Typed(s), NEW text \in Texts, NEW how, s.ret = "ok"
  PROVE  LET r == _stmt_sql_parse(s, text, how)
         IN  /\ Same(r, s, {"sqls", "current_sql", "pos", "qms", "ret"}) /\ Typed(r)
             /\ r.ret \in {"ok", "error"}
             /\ r.sqls = text.stmts
             /\ r.ret = "ok" => /\ r.pos = 1 /\ r.current_sql \in Stmts /\ r.current_sql = text.stmts[1]
                                /\ r.qms = r.current_sql.qms
  <1> DEFINE cached == [s EXCEPT !.sqls = text.stmts, !.pos = 0]
             first == _stmt_get_next_sql(cached, how)
             batch == Len(text.stmts) > 1 /\ \E q \in Range(text.stmts) : q.qms > 0
             r == _stmt_sql_parse(s, text, how)
  <1>1. Same(cached, s, {"sqls", "pos"}) /\ cached.sqls = text.stmts /\ cached.pos = 0 /\ Rec(cached)
    BY FieldNames DEF Same, Rec, Typed
  <1>2. cached.ret = "ok" /\ cached.current_sql = s.current_sql /\ cached.bound = s.bound
    BY <1>1, FieldNames DEF Same
  <1>3. text.stmts \in Seq(Stmts) /\ Len(text.stmts) \in Nat
    BY ExecAssumption
  <1>4. Typed(cached)
    BY <1>1, <1>2, <1>3 DEF Typed
  <1>5. r \in {Error(cached), Error(first), first} /\ (r = first => first.ret # "no_data")
    <2>1. r = IF ~text.ok \/ batch THEN Error(cached) ELSE IF first.ret = "no_data" THEN Error(first) ELSE first
      BY DEF _stmt_sql_parse
    <2> HIDE DEF cached, first, batch, r
    <2>2. Error(first).ret = "error"
      <3>1. Rec(first)
        BY <1>2, <1>4, GetNextSql DEF Same, first
      <3> QED BY <3>1, ErrorEnded
    <2>3. Error(cached).ret = "error"
      BY <1>1, ErrorEnded
    <2> QED BY <2>1, <2>2, <2>3
  <1> HIDE DEF cached
  <1>6. /\ Same(first, cached, {"current_sql", "pos", "qms", "ret"}) /\ Typed(first) /\ Rec(first)
        /\ first.ret \in {"ok", "error", "no_data"} /\ first.sqls = text.stmts
        /\ first.ret = "ok" => /\ first.pos = 1 /\ first.current_sql = text.stmts[1]
                               /\ first.current_sql \in Stmts /\ first.qms = first.current_sql.qms
    <2>1. /\ Same(first, cached, {"current_sql", "pos", "qms", "ret"}) /\ Typed(first)
          /\ first.ret \in {"ok", "error", "no_data"}
          /\ first.ret = "ok" => /\ first.pos = 1 /\ first.current_sql = text.stmts[1]
                                 /\ first.current_sql \in Stmts /\ first.qms = first.current_sql.qms
      BY <1>1, <1>2, <1>4, GetNextSql
    <2> HIDE DEF first
    <2> QED BY <1>1, <2>1, FieldNames DEF Same
  <1> HIDE DEF first, r
  <1>7. CASE r = Error(cached)
    <2>1. Same(r, cached, {"ret"}) /\ r.ret = "error"
      BY <1>1, <1>7, ErrorEnded
    <2>2. Typed(r)
      BY <1>4, <2>1, KeptTyped
    <2>3. Same(r, s, {"sqls", "current_sql", "pos", "qms", "ret"}) /\ r.sqls = text.stmts
      BY <1>1, <2>1, FieldNames DEF Same
    <2> QED BY <2>1, <2>2, <2>3 DEF r
  <1>8. CASE r = Error(first)
    <2>1. Same(r, first, {"ret"}) /\ r.ret = "error"
      BY <1>6, <1>8, ErrorEnded
    <2>2. Typed(r)
      BY <1>6, <2>1, KeptTyped
    <2>3. Same(r, s, {"sqls", "current_sql", "pos", "qms", "ret"}) /\ r.sqls = text.stmts
      BY <1>1, <1>6, <2>1, FieldNames DEF Same
    <2> QED BY <2>1, <2>2, <2>3 DEF r
  <1>9. CASE r = first
    <2>1. Same(r, s, {"sqls", "current_sql", "pos", "qms", "ret"})
      BY <1>1, <1>6, <1>9 DEF Same
    <2> QED BY <1>5, <1>6, <1>9, <2>1 DEF r
  <1> QED BY <1>5, <1>7, <1>8, <1>9

LEMMA PrepareExt ==
  ASSUME NEW s, Typed(s), NEW how, s.ret = "ok"
  PROVE  LET r == _stmt_prepare_ext(s, how)
         IN  /\ Same(r, s, {"topic", "base", "ret"}) /\ r.ret \in {"ok", "error"}
             /\ r.ret = "ok" => r.base = "topic" /\ r.topic = s.current_sql /\ s.current_sql.qms = 0
  <1> DEFINE open == [s EXCEPT !.topic = s.current_sql, !.base = "topic"]
             r == _stmt_prepare_ext(s, how)
  <1>1. r = IF s.current_sql.qms > 0 \/ how = "topic" THEN Error(s) ELSE open
    BY DEF _stmt_prepare_ext
  <1>2. Same(open, s, {"topic", "base"}) /\ open.topic = s.current_sql /\ open.base = "topic" /\ open.ret = "ok"
    BY FieldNames DEF Same, Rec, Typed
  <1>3. Same(Error(s), s, {"ret"}) /\ Error(s).ret = "error"
    BY ErrorEnded DEF Typed
  <1>4. s.current_sql.qms \in Nat
    BY Marks DEF Typed
  <1> HIDE DEF open, r
  <1>5. CASE r = Error(s)
    BY <1>3, <1>5 DEF Same, r
  <1>6. CASE r = open /\ ~(s.current_sql.qms > 0)
    <2>1. s.current_sql.qms = 0
      BY <1>4, <1>6
    <2> QED BY <1>2, <1>6, <2>1 DEF Same, r
  <1> QED BY <1>1, <1>5, <1>6

\* The statement is set up to execute what is current.
Current(s) ==
  /\ s.qms = s.current_sql.qms /\ (s.qms # 0 => s.stmt2 = s.current_sql)
  /\ s.base = "topic" => s.topic = s.current_sql

SentOf(s) == Append(s.did, [sql |-> s.current_sql, params |-> s.current_sql.qms > 0])

LEMMA MarkedSent ==
  ASSUME NEW s, s.current_sql.qms > 0
  PROVE  SentOf(s) = Append(s.did, [sql |-> s.current_sql, params |-> TRUE])
  <1>1. (s.current_sql.qms > 0) = TRUE
    OBVIOUS
  <1> QED BY <1>1, Zenon DEF SentOf

LEMMA PlainSent ==
  ASSUME NEW s, ~(s.current_sql.qms > 0)
  PROVE  SentOf(s) = Append(s.did, [sql |-> s.current_sql, params |-> FALSE])
  <1>1. (s.current_sql.qms > 0) = FALSE
    OBVIOUS
  <1> QED BY <1>1, Zenon DEF SentOf

LEMMA StmtExecute ==
  ASSUME NEW s, Typed(s), Owned(s), Ready(s), NEW how, s.ret = "ok"
  PROVE  LET r == _stmt_execute(s, how)
         IN  /\ Same(r, s, {"live", "res", "did", "ret"}) /\ Owned(r)
             /\ Current(s) => /\ r.ret \in {"ok", "error", "crash"} /\ r.did \in {s.did, SentOf(s)}
                              /\ r.ret = "ok" => r.did = SentOf(s)
                              /\ r.ret = "crash" => s.base # "topic" /\ ~s.pointed
  <1> DEFINE r == _stmt_execute(s, how)
             n == s.current_sql.qms
  <1>1. Rec(s) /\ n \in Nat
    BY Marks DEF Typed
  <1>2. ASSUME NEW params
        PROVE  /\ s.qms = 0 => Executed(_execute(s, how, params), s, s.current_sql, FALSE)
               /\ s.qms # 0 => Executed(_execute(s, how, params), s, s.stmt2, params)
               /\ _execute(s, how, params).ret = "crash" => s.qms = 0 /\ ~s.pointed
    BY <1>1, Execute
  <1>3. ASSUME NEW q, q = Error(s)
        PROVE  Same(q, s, {"live", "res", "did", "ret"}) /\ Owned(q) /\ q.ret = "error" /\ q.did = s.did
    <2>1. Same(q, s, {"ret"}) /\ Owned(q) /\ q.ret = "error"
      BY <1>1, <1>3, ErrorEnded
    <2> QED BY <2>1, FieldNames DEF Same
  <1>4. CASE n > 0
    <2>1. r = _stmt_execute_with_params(s, how)
      BY <1>4 DEF _stmt_execute
    <2>2. CASE s.qms # n
      <3>1. r = [s EXCEPT !.ret = "abort"]
        BY <2>1, <2>2 DEF _stmt_execute_with_params
      <3>2. Same(r, s, {"ret"}) /\ Owned(r)
        BY <1>1, <3>1, Ended
      <3> QED BY <2>2, <3>2 DEF Same, Current
    <2>3. CASE s.qms = n /\ r = Error(s)
      BY <1>3, <2>3
    <2>4. CASE s.qms = n /\ r = _execute(s, how, TRUE)
      <3>1. s.qms # 0
        BY <1>1, <1>4, <2>4
      <3>2. Executed(r, s, s.stmt2, TRUE) /\ r.ret # "crash"
        BY <1>2, <2>4, <3>1
      <3>3. Current(s) => SentOf(s) = Append(s.did, [sql |-> s.stmt2, params |-> TRUE])
        BY <1>4, <3>1, MarkedSent DEF Current
      <3> QED BY <3>2, <3>3 DEF Executed
    <2> QED BY <2>1, <2>2, <2>3, <2>4 DEF _stmt_execute_with_params
  <1>5. CASE ~(n > 0) /\ s.base = "topic"
    <2>1. r = Error(s) \/ r = Sends(s, s.topic, FALSE)
      BY <1>5 DEF _stmt_execute
    <2>2. CASE r = Sends(s, s.topic, FALSE)
      <3>1. Same(r, s, {"did"}) /\ r.did = Append(s.did, [sql |-> s.topic, params |-> FALSE]) /\ r.ret = "ok"
        BY <1>1, <2>2, FieldNames DEF Sends, Same, Rec
      <3>2. Owned(r)
        BY <3>1, KeptOwned
      <3>3. Current(s) => SentOf(s) = Append(s.did, [sql |-> s.topic, params |-> FALSE])
        BY <1>5, PlainSent DEF Current
      <3>4. Same(r, s, {"live", "res", "did", "ret"})
        BY <3>1 DEF Same
      <3> HIDE DEF r
      <3>5. Current(s) => r.did = SentOf(s)
        BY <3>1, <3>3
      <3> QED BY <3>1, <3>2, <3>4, <3>5 DEF r
    <2> QED BY <1>3, <2>1, <2>2
  <1>6. CASE ~(n > 0) /\ s.base # "topic"
    <2>1. r = _execute(s, how, FALSE)
      BY <1>6 DEF _stmt_execute
    <2>2. Current(s) => s.qms = 0 /\ SentOf(s) = Append(s.did, [sql |-> s.current_sql, params |-> FALSE])
      BY <1>1, <1>6, PlainSent DEF Current
    <2>3. Same(r, s, {"live", "res", "did", "ret"}) /\ Owned(r)
      BY <1>2, <2>1 DEF Executed
    <2>4. Current(s) => Executed(r, s, s.current_sql, FALSE) /\ (r.ret = "crash" => ~s.pointed)
      BY <1>2, <2>1, <2>2
    <2> QED BY <1>6, <2>2, <2>3, <2>4 DEF Executed
  <1> QED BY <1>4, <1>5, <1>6

\* How every call leaves the statement.
Done(r) == Typed(r) /\ Owned(r) /\ (r.ret = "ok" => r.ird = Columns(r))

\* The current statement was sent, or an error was returned.
Submitted(r, s) ==
  /\ Done(r) /\ r.pos = s.pos /\ r.qms = s.qms /\ r.sqls = s.sqls
  /\ s.base = "tsdb" => r.base = "tsdb"
  /\ r.did \in {s.did, SentOf(s)} /\ (r.ret = "ok" => r.did = SentOf(s))

LEMMA ExecDirectSql ==
  ASSUME NEW s, Typed(s), Owned(s), NEW how, s.ret = "ok", s.qms = s.current_sql.qms
  PROVE  Submitted(_stmt_exec_direct_sql(s, how), s)
  <1> DEFINE closed == _stmt_close_result(s)
             prepared == _prepare(closed, how)
             executed == _stmt_execute(prepared, how)
             filled == _stmt_fill_IRD(executed, how)
             r == _stmt_exec_direct_sql(s, how)
  <1>1. Same(closed, s, {"live", "res", "topic", "base"}) /\ Owned(closed) /\ closed.base = "tsdb"
    BY CloseResult DEF Typed
  <1>2. /\ Typed(closed) /\ closed.ret = "ok" /\ closed.current_sql = s.current_sql /\ closed.pos = s.pos
        /\ closed.sqls = s.sqls /\ closed.did = s.did
    <2>1. Typed(closed)
      BY <1>1, KeptTyped
    <2> QED BY <1>1, <2>1, FieldNames DEF Same
  <1>3. r = Then(prepared, Then(executed, filled))
    BY DEF _stmt_exec_direct_sql
  <1> HIDE DEF closed
  <1>4. Prepared(prepared, closed)
    BY <1>1, <1>2, Prepare DEF Typed
  <1>5. Typed(prepared)
    BY <1>2, <1>4, KeptTyped DEF Prepared
  <1>6. /\ Owned(prepared) /\ prepared.pos = s.pos /\ prepared.qms = s.qms /\ prepared.sqls = s.sqls
        /\ prepared.did = s.did /\ prepared.current_sql = s.current_sql /\ prepared.base = "tsdb"
    BY <1>1, <1>2, <1>4, FieldNames DEF Prepared, Same
  <1>7. prepared.ret = "ok" => Ready(prepared) /\ Current(prepared)
    <2>1. s.current_sql.qms # 0 => s.current_sql # NoSql
      BY Marks DEF Typed
    <2> QED BY <1>2, <1>4, <1>6, <2>1 DEF Prepared, Ready, Current
  <1>8. SentOf(prepared) = SentOf(s)
    BY <1>6 DEF SentOf
  <1> HIDE DEF prepared
  <1>9. CASE prepared.ret # "ok"
    BY <1>3, <1>5, <1>6, <1>9 DEF Then, Done, Submitted, r
  <1>10. CASE prepared.ret = "ok"
    <2>1. /\ Same(executed, prepared, {"live", "res", "did", "ret"}) /\ Owned(executed)
          /\ executed.did \in {s.did, SentOf(s)} /\ (executed.ret = "ok" => executed.did = SentOf(s))
      BY <1>5, <1>6, <1>7, <1>10, <1>8, StmtExecute
    <2>2. Typed(executed)
      BY <1>5, <2>1, KeptTyped
    <2>3. /\ executed.pos = s.pos /\ executed.qms = s.qms /\ executed.sqls = s.sqls /\ executed.base = "tsdb"
          /\ Rec(executed)
      BY <1>6, <2>1, FieldNames DEF Same
    <2> HIDE DEF executed
    <2>4. CASE executed.ret # "ok"
      <3>1. r = executed
        BY <1>3, <1>10, <2>4 DEF Then
      <3> QED BY <2>1, <2>2, <2>3, <2>4, <3>1 DEF Done, Submitted
    <2>5. CASE executed.ret = "ok"
      <3>1. r = filled
        BY <1>3, <1>10, <2>5 DEF Then
      <3>2. Same(r, executed, {"ird", "ret"}) /\ r.ird = Columns(r)
        BY <2>3, <2>5, <3>1, FillIRD
      <3> HIDE DEF r
      <3>3. Typed(r)
        BY <2>2, <3>2, KeptTyped
      <3>4. Owned(r)
        BY <2>1, <3>2, KeptOwned
      <3>5. /\ r.pos = s.pos /\ r.qms = s.qms /\ r.sqls = s.sqls /\ r.base = "tsdb" /\ r.did = SentOf(s)
        BY <2>1, <2>3, <2>5, <3>2, FieldNames DEF Same
      <3> QED BY <3>2, <3>3, <3>4, <3>5 DEF Done, Submitted, r
    <2> QED BY <2>4, <2>5
  <1> QED BY <1>9, <1>10

LEMMA ExecSimple ==
  ASSUME NEW s, Typed(s), Owned(s), NEW how, s.ret = "ok", s.qms = s.current_sql.qms
  PROVE  Submitted(_stmt_exec_direct_with_simple_sql(s, how), s)
  <1> DEFINE r == _stmt_exec_direct_with_simple_sql(s, how)
  <1>1. r = IF s.current_sql.ext THEN Error(s) ELSE _stmt_exec_direct_sql(s, how)
    BY DEF _stmt_exec_direct_with_simple_sql
  <1> HIDE DEF r
  <1>2. CASE r = Error(s)
    <2>1. Same(r, s, {"ret"}) /\ Owned(r) /\ r.ret = "error"
      BY <1>2, ErrorEnded DEF Typed
    <2>2. Typed(r)
      BY <2>1, KeptTyped
    <2>3. r.pos = s.pos /\ r.qms = s.qms /\ r.sqls = s.sqls /\ r.base = s.base /\ r.did = s.did
      BY <2>1, FieldNames DEF Same
    <2> QED BY <2>1, <2>2, <2>3 DEF Done, Submitted, r
  <1>3. CASE r = _stmt_exec_direct_sql(s, how)
    BY <1>3, ExecDirectSql DEF r
  <1> QED BY <1>1, <1>2, <1>3

\* The calls.
LEMMA TablesDone ==
  ASSUME NEW s, Typed(s), Owned(s), NEW how, NEW which, s.ret = "ok"
  PROVE  LET r == stmt_tables(s, which, how)
         IN  Done(r) /\ (r.ret = "ok" => r.base = which)
  <1> DEFINE closed == _stmt_close_result(s)
             z == [closed EXCEPT !.bound = 0]
             open == [z EXCEPT !.base = which]
             r == stmt_tables(s, which, how)
  <1>1. Same(closed, s, {"live", "res", "topic", "base"}) /\ Owned(closed)
    BY CloseResult DEF Typed
  <1>2. Typed(closed) /\ closed.ret = "ok" /\ Rec(closed)
    <2>1. Typed(closed)
      BY <1>1, KeptTyped
    <2> QED BY <1>1, <2>1, FieldNames DEF Same
  <1>3. r = IF how = "exec" THEN Error(z) ELSE _stmt_fill_IRD(open, how)
    BY DEF stmt_tables
  <1> HIDE DEF closed, r
  <1>4. Same(z, closed, {"bound"}) /\ z.bound = 0 /\ Rec(z)
    BY <1>2, FieldNames DEF Same, Rec
  <1>5. /\ z.sqls = closed.sqls /\ z.pos = closed.pos /\ z.current_sql = closed.current_sql /\ z.ret = "ok"
        /\ 0 \in 0..MaxParams
    BY <1>2, <1>4, FieldNames, ExecAssumption DEF Same
  <1>6. Typed(z) /\ Owned(z)
    BY <1>1, <1>2, <1>4, <1>5, KeptOwned DEF Typed
  <1> HIDE DEF z
  <1>7. CASE r = Error(z)
    <2>1. Same(r, z, {"ret"}) /\ Owned(r) /\ r.ret = "error"
      BY <1>4, <1>6, <1>7, ErrorEnded
    <2>2. Typed(r)
      BY <1>6, <2>1, KeptTyped
    <2> QED BY <2>1, <2>2 DEF Done, r
  <1>8. CASE r = _stmt_fill_IRD(open, how)
    <2>1. Same(open, z, {"base"}) /\ open.base = which
      BY <1>4, FieldNames DEF Same, Rec
    <2>2. Typed(open) /\ Owned(open) /\ open.ret = "ok" /\ Rec(open)
      <3>1. Typed(open) /\ Owned(open)
        BY <1>6, <2>1, KeptTyped, KeptOwned
      <3> QED BY <1>5, <2>1, <3>1, FieldNames DEF Same
    <2> HIDE DEF open
    <2>3. Same(r, open, {"ird", "ret"}) /\ r.ird = Columns(r)
      BY <1>8, <2>2, FillIRD
    <2>4. Typed(r) /\ Owned(r)
      BY <2>2, <2>3, KeptTyped, KeptOwned
    <2>5. r.base = which
      BY <2>1, <2>3, FieldNames DEF Same
    <2> QED BY <2>3, <2>4, <2>5 DEF Done, r
  <1> QED BY <1>3, <1>7, <1>8

LEMMA TypeInfoDone ==
  ASSUME NEW s, Typed(s), Owned(s), NEW how, s.ret = "ok"
  PROVE  Done(stmt_get_type_info(s, how)) /\ stmt_get_type_info(s, how).base = "typesinfo"
  <1> DEFINE open == [s EXCEPT !.base = "typesinfo"]
             r == _stmt_fill_IRD(open, how)
  <1>1. Same(open, s, {"base"}) /\ open.base = "typesinfo"
    BY FieldNames DEF Same, Rec, Typed
  <1>2. Typed(open) /\ Owned(open) /\ open.ret = "ok" /\ Rec(open)
    <2>1. Typed(open) /\ Owned(open)
      BY <1>1, KeptTyped, KeptOwned
    <2> QED BY <1>1, <2>1, FieldNames DEF Same
  <1> HIDE DEF open
  <1>3. Same(r, open, {"ird", "ret"}) /\ r.ird = Columns(r)
    BY <1>2, FillIRD
  <1>4. Typed(r) /\ Owned(r)
    BY <1>2, <1>3, KeptTyped, KeptOwned
  <1>5. r.base = "typesinfo"
    BY <1>1, <1>3, FieldNames DEF Same
  <1> QED BY <1>3, <1>4, <1>5 DEF Done, stmt_get_type_info, open

\* What SQLPrepare promises SQLExecute.
Set(r) ==
  /\ r.pos >= 1 /\ Ready(r) /\ Current(r)
  /\ IF r.current_sql.ext THEN r.base = "topic" ELSE r.base = "tsdb" /\ r.pointed = TRUE

LEMMA PrepareDone ==
  ASSUME NEW s, Typed(s), Owned(s), NEW text \in Texts, NEW how, s.ret = "ok"
  PROVE  LET r == stmt_prepare(s, text, how)
         IN  /\ Typed(r) /\ Owned(r)
             /\ r.ret = "ok" => Set(r) /\ r.current_sql = text.stmts[1] /\ r.current_sql \in Stmts
  <1> DEFINE u == _stmt_unprepare(s)
             parsed == _stmt_sql_parse(u, text, how)
             ext == _stmt_prepare_ext(parsed, how)
             prepared == _prepare(parsed, how)
             r == stmt_prepare(s, text, how)
  <1>1. Same(u, s, {"live", "res", "topic", "base", "pointed", "qms"}) /\ Owned(u) /\ u.base = "tsdb"
    BY Unprepare DEF Typed
  <1>2. Typed(u)
    BY <1>1, KeptTyped
  <1>3. u.ret = "ok"
    BY <1>1, FieldNames DEF Same
  <1>4. r = Then(parsed, IF parsed.current_sql.ext THEN ext ELSE prepared)
    BY DEF stmt_prepare
  <1> HIDE DEF u
  <1>5. /\ Same(parsed, u, {"sqls", "current_sql", "pos", "qms", "ret"}) /\ Typed(parsed)
        /\ parsed.ret = "ok" => /\ parsed.pos = 1 /\ parsed.current_sql \in Stmts /\ parsed.current_sql = text.stmts[1]
                                /\ parsed.qms = parsed.current_sql.qms
    BY <1>2, <1>3, SqlParse
  <1>6. Owned(parsed)
    BY <1>1, <1>5, KeptOwned
  <1>7. parsed.base = "tsdb"
    BY <1>1, <1>5, FieldNames DEF Same
  <1> HIDE DEF parsed
  <1>8. CASE parsed.ret # "ok"
    <2>1. r = parsed
      BY <1>4, <1>8 DEF Then
    <2> QED BY <1>5, <1>6, <1>8, <2>1 DEF r
  <1>9. CASE parsed.ret = "ok" /\ parsed.current_sql.ext
    <2>1. r = ext
      BY <1>4, <1>9 DEF Then
    <2> HIDE DEF r
    <2>2. /\ Same(r, parsed, {"topic", "base", "ret"})
          /\ r.ret = "ok" => r.base = "topic" /\ r.topic = parsed.current_sql /\ parsed.current_sql.qms = 0
      BY <1>5, <1>9, <2>1, PrepareExt
    <2>3. Typed(r)
      BY <1>5, <2>2, KeptTyped
    <2>4. Owned(r)
      BY <1>6, <2>2, KeptOwned
    <2>5. r.pos = 1 /\ r.current_sql = parsed.current_sql /\ r.qms = parsed.qms
      BY <1>5, <1>9, <2>2, FieldNames DEF Same
    <2>6. r.ret = "ok" => Set(r)
      BY <1>5, <1>9, <2>2, <2>5 DEF Set, Ready, Current
    <2> QED BY <1>5, <1>9, <2>3, <2>4, <2>5, <2>6 DEF r
  <1>10. CASE parsed.ret = "ok" /\ ~parsed.current_sql.ext
    <2>1. r = prepared
      BY <1>4, <1>10 DEF Then
    <2> HIDE DEF r
    <2>2. Prepared(r, parsed)
      BY <1>5, <1>6, <1>10, <2>1, Prepare DEF Typed
    <2>3. Typed(r)
      BY <1>5, <2>2, KeptTyped DEF Prepared
    <2>4. r.pos = 1 /\ r.current_sql = parsed.current_sql /\ r.base = "tsdb"
      BY <1>5, <1>7, <1>10, <2>2, FieldNames DEF Same, Prepared
    <2>5. r.current_sql.qms # 0 => r.current_sql # NoSql
      BY <1>5, <1>10, <2>4, Marks
    <2>6. r.ret = "ok" => Set(r)
      BY <1>10, <2>2, <2>4, <2>5 DEF Set, Ready, Current, Prepared
    <2> QED BY <1>5, <1>10, <2>2, <2>3, <2>4, <2>6 DEF r, Prepared
  <1> QED BY <1>8, <1>9, <1>10

LEMMA ExecuteDone ==
  ASSUME NEW s, Typed(s), Owned(s), Ready(s), NEW how, s.ret = "ok"
  PROVE  LET r == stmt_execute(s, how)
         IN  /\ Done(r) /\ Same(r, s, {"live", "res", "did", "ret", "ird"})
             /\ Set(s) => r.ret \in {"ok", "error"}
             /\ Current(s) => r.did \in {s.did, SentOf(s)} /\ (r.ret = "ok" => r.did = SentOf(s))
  <1> DEFINE executed == _stmt_execute(s, how)
             filled == _stmt_fill_IRD(executed, how)
             r == stmt_execute(s, how)
  <1>1. r = Then(executed, filled)
    BY DEF stmt_execute
  <1>2. /\ Same(executed, s, {"live", "res", "did", "ret"}) /\ Owned(executed)
        /\ Set(s) => executed.ret \in {"ok", "error"}
        /\ Current(s) => executed.did \in {s.did, SentOf(s)} /\ (executed.ret = "ok" => executed.did = SentOf(s))
    <2>1. Same(executed, s, {"live", "res", "did", "ret"}) /\ Owned(executed)
      BY StmtExecute
    <2>2. Current(s) => /\ executed.ret \in {"ok", "error", "crash"} /\ executed.did \in {s.did, SentOf(s)}
                        /\ executed.ret = "ok" => executed.did = SentOf(s)
                        /\ executed.ret = "crash" => s.base # "topic" /\ ~s.pointed
      BY StmtExecute
    <2>3. ASSUME Set(s)
          PROVE  executed.ret \in {"ok", "error"}
      <3>1. Current(s)
        BY <2>3 DEF Set
      <3> HIDE DEF executed
      <3>2. executed.ret # "crash"
        BY <2>2, <2>3, <3>1 DEF Set
      <3> QED BY <2>2, <3>1, <3>2
    <2> HIDE DEF executed
    <2> QED BY <2>1, <2>2, <2>3
  <1> HIDE DEF executed
  <1>3. Typed(executed) /\ Rec(executed)
    BY <1>2, KeptTyped DEF Same
  <1>4. CASE executed.ret # "ok"
    <2>1. r = executed
      BY <1>1, <1>4 DEF Then
    <2> HIDE DEF r
    <2>2. Same(r, s, {"live", "res", "did", "ret", "ird"})
      BY <1>2, <2>1 DEF Same
    <2> QED BY <1>2, <1>3, <1>4, <2>1, <2>2 DEF Done, r
  <1>5. CASE executed.ret = "ok"
    <2>1. r = filled
      BY <1>1, <1>5 DEF Then
    <2> HIDE DEF r
    <2>2. Same(r, executed, {"ird", "ret"}) /\ r.ret \in {"ok", "error"} /\ r.ird = Columns(r)
      BY <1>3, <1>5, <2>1, FillIRD
    <2>3. Typed(r) /\ Owned(r)
      BY <1>2, <1>3, <2>2, KeptTyped, KeptOwned
    <2>4. Same(r, s, {"live", "res", "did", "ret", "ird"})
      BY <1>2, <2>2 DEF Same
    <2>5. r.did = executed.did
      BY <2>2, FieldNames DEF Same
    <2> QED BY <1>2, <1>5, <2>2, <2>3, <2>4, <2>5 DEF Done, r
  <1> QED BY <1>4, <1>5

\* A text that is executed has its first statement sent.
LEMMA ExecDirectDone ==
  ASSUME NEW s, Typed(s), Owned(s), NEW text \in Texts, NEW how, s.ret = "ok"
  PROVE  LET r == stmt_exec_direct(s, text, how)
         IN  /\ Done(r)
             /\ r.ret = "ok" => /\ r.sqls = text.stmts /\ r.pos = 1
                                /\ \E p \in BOOLEAN : r.did = Append(s.did, [sql |-> text.stmts[1], params |-> p])
  <1> DEFINE closed == _stmt_close_result(s)
             parsed == _stmt_sql_parse(closed, text, how)
             opened == _stmt_prepare_ext(parsed, how)
             executed == _stmt_execute(opened, how)
             filled == _stmt_fill_IRD(executed, how)
             r == stmt_exec_direct(s, text, how)
  <1>1. Same(closed, s, {"live", "res", "topic", "base"}) /\ Owned(closed)
    BY CloseResult DEF Typed
  <1>2. Typed(closed)
    BY <1>1, KeptTyped
  <1>3. closed.ret = "ok" /\ closed.did = s.did
    BY <1>1, FieldNames DEF Same
  <1>4. r = Then(parsed, IF ~parsed.current_sql.ext THEN _stmt_exec_direct_with_simple_sql(parsed, how)
                         ELSE Then(opened, Then(executed, filled)))
    BY DEF stmt_exec_direct
  <1> HIDE DEF closed
  <1>5. /\ Same(parsed, closed, {"sqls", "current_sql", "pos", "qms", "ret"}) /\ Typed(parsed)
        /\ parsed.sqls = text.stmts
        /\ parsed.ret = "ok" => /\ parsed.qms = parsed.current_sql.qms /\ parsed.current_sql \in Stmts
                                /\ parsed.current_sql = text.stmts[1] /\ parsed.pos = 1
    BY <1>2, <1>3, SqlParse
  <1>6. Owned(parsed)
    BY <1>1, <1>5, KeptOwned
  <1>7. parsed.did = s.did
    BY <1>3, <1>5, FieldNames DEF Same
  <1> HIDE DEF parsed
  <1> DEFINE p == text.stmts[1].qms > 0
  <1>8. p \in BOOLEAN /\ (parsed.ret = "ok" => SentOf(parsed) = Append(s.did, [sql |-> text.stmts[1], params |-> p]))
    BY <1>5, <1>7 DEF SentOf
  <1> HIDE DEF p
  <1>9. CASE parsed.ret # "ok"
    <2>1. r = parsed
      BY <1>4, <1>9 DEF Then
    <2> QED BY <1>5, <1>6, <1>9, <2>1 DEF Done
  <1>10. CASE parsed.ret = "ok" /\ ~parsed.current_sql.ext
    <2>1. r = _stmt_exec_direct_with_simple_sql(parsed, how)
      BY <1>4, <1>10 DEF Then
    <2>2. Submitted(r, parsed)
      BY <1>5, <1>6, <1>10, <2>1, ExecSimple
    <2> HIDE DEF r
    <2>3. r.ret = "ok" => r.did = Append(s.did, [sql |-> text.stmts[1], params |-> p])
      BY <1>8, <1>10, <2>2 DEF Submitted
    <2> QED BY <1>5, <1>8, <1>10, <2>2, <2>3 DEF Submitted, r
  <1>11. CASE parsed.ret = "ok" /\ parsed.current_sql.ext
    <2>1. r = Then(opened, Then(executed, filled))
      BY <1>4, <1>11 DEF Then
    <2>2. /\ Same(opened, parsed, {"topic", "base", "ret"})
          /\ opened.ret = "ok" => /\ parsed.current_sql.qms = 0
                                  /\ opened.base = "topic" /\ opened.topic = parsed.current_sql
      BY <1>5, <1>11, PrepareExt
    <2> HIDE DEF opened
    <2>3. Typed(opened) /\ Owned(opened)
      BY <1>5, <1>6, <2>2, KeptTyped, KeptOwned
    <2>4. /\ opened.qms = parsed.qms /\ opened.current_sql = parsed.current_sql
          /\ opened.did = parsed.did /\ opened.sqls = text.stmts /\ opened.pos = parsed.pos
      BY <1>5, <2>2, FieldNames DEF Same
    <2>5. CASE opened.ret # "ok"
      <3>1. r = opened
        BY <2>1, <2>5 DEF Then
      <3> QED BY <2>3, <2>5, <3>1 DEF Done
    <2>6. CASE opened.ret = "ok"
      <3>1. Ready(opened) /\ Current(opened)
        BY <1>5, <1>11, <2>2, <2>4, <2>6 DEF Ready, Current
      <3>2. r = stmt_execute(opened, how)
        BY <2>1, <2>6 DEF stmt_execute, Then
      <3> HIDE DEF r
      <3>3. /\ Done(r) /\ Same(r, opened, {"live", "res", "did", "ret", "ird"})
            /\ r.ret = "ok" => r.did = SentOf(opened)
        BY <2>3, <2>6, <3>1, <3>2, ExecuteDone
      <3>4. SentOf(opened) = SentOf(parsed)
        BY <2>4 DEF SentOf
      <3>5. r.sqls = text.stmts /\ r.pos = 1
        BY <1>5, <1>11, <2>4, <3>3, FieldNames DEF Same
      <3> QED BY <1>8, <1>11, <3>3, <3>4, <3>5 DEF r
    <2> QED BY <2>5, <2>6
  <1> QED BY <1>9, <1>10, <1>11

\* What SQLMoreResults does about the text: it stays where it is and sends nothing,
\* or takes the next statement and sends that at most.
Moved(r, s) ==
  /\ r.sqls = s.sqls /\ (r.ret # "no_data" => s.base \in {"tsdb", "topic"})
  /\ s.base = "topic" => r.base = "topic" /\ r.pos = s.pos
  /\ \/ r.pos = s.pos /\ r.did = s.did
     \/ /\ r.pos = s.pos + 1 /\ r.pos <= Len(s.sqls) /\ r.base = "tsdb"
        /\ \/ r.did = s.did
           \/ \E p \in BOOLEAN : r.did = Append(s.did, [sql |-> s.sqls[r.pos], params |-> p])

LEMMA MoreResultsDone ==
  ASSUME NEW s, Typed(s), Owned(s), NEW how, s.ret = "ok"
  PROVE  LET r == stmt_more_results(s, how)
         IN  Done(r) /\ (s.pos >= 1 /\ Ready(s) => r.pos >= 1 /\ Ready(r)) /\ Moved(r, s)
  <1> DEFINE none == [s EXCEPT !.ret = "no_data"]
             next == _stmt_get_next_sql(s, how)
             r == stmt_more_results(s, how)
  <1>1. Rec(s)
    BY DEF Typed
  <1>2. CASE r = none
    <2>1. Same(r, s, {"ret"}) /\ r.ret = "no_data"
      BY <1>1, <1>2, Ended
    <2> HIDE DEF r
    <2>2. Typed(r) /\ Owned(r)
      BY <2>1, KeptTyped, KeptOwned
    <2>3. r.pos = s.pos /\ (Ready(s) => Ready(r)) /\ r.sqls = s.sqls /\ r.base = s.base /\ r.did = s.did
      BY <2>1, FieldNames DEF Same, Ready
    <2> QED BY <2>1, <2>2, <2>3 DEF Done, Moved, r
  <1>3. CASE s.base = "topic" /\ r = _stmt_fill_IRD(s, how)
    <2>1. Same(r, s, {"ird", "ret"}) /\ r.ird = Columns(r)
      BY <1>1, <1>3, FillIRD
    <2> HIDE DEF r
    <2>2. Typed(r) /\ Owned(r)
      BY <2>1, KeptTyped, KeptOwned
    <2>3. r.pos = s.pos /\ (Ready(s) => Ready(r)) /\ r.sqls = s.sqls /\ r.base = s.base /\ r.did = s.did
      BY <2>1, FieldNames DEF Same, Ready
    <2> QED BY <1>3, <2>1, <2>2, <2>3 DEF Done, Moved, r
  <1>4. CASE s.base = "tsdb" /\ r = Then(next, _stmt_exec_direct_with_simple_sql(next, how))
    <2>1. /\ Same(next, s, {"current_sql", "pos", "qms", "ret"}) /\ Typed(next)
          /\ next.ret = "ok" => /\ s.pos + 1 <= Len(s.sqls) /\ next.pos = s.pos + 1
                                /\ next.current_sql = s.sqls[s.pos + 1]
                                /\ next.qms = next.current_sql.qms /\ (Len(s.sqls) > 1 => next.qms = 0)
          /\ next.ret # "ok" => next.qms = s.qms /\ next.pos = s.pos
      BY GetNextSql
    <2> HIDE DEF next, r
    <2>2. Owned(next)
      BY <2>1, KeptOwned
    <2>3. s.pos \in Nat /\ Len(s.sqls) \in Nat
      BY DEF Typed
    <2>4. next.base = "tsdb" /\ next.sqls = s.sqls /\ next.did = s.did
      BY <1>4, <2>1, FieldNames DEF Same
    <2>5. CASE next.ret # "ok"
      <3>1. r = next
        BY <1>4, <2>5 DEF Then
      <3>2. next.stmt2 = s.stmt2
        BY <2>1, FieldNames DEF Same
      <3>3. Ready(s) => Ready(r)
        BY <2>1, <2>5, <3>1, <3>2 DEF Ready
      <3>4. Moved(r, s)
        BY <1>4, <2>1, <2>5, <2>4, <3>1 DEF Moved
      <3> QED BY <2>1, <2>2, <2>5, <3>1, <3>3, <3>4 DEF Done, r
    <2>6. CASE next.ret = "ok"
      <3>1. r = _stmt_exec_direct_with_simple_sql(next, how)
        BY <1>4, <2>6 DEF Then
      <3>2. Submitted(r, next)
        BY <2>1, <2>2, <2>6, <3>1, ExecSimple
      <3>3. s.pos >= 1 => r.pos >= 1 /\ r.qms = 0
        BY <2>1, <2>3, <2>6, <3>2 DEF Submitted
      <3>4. r.sqls = s.sqls /\ r.base = "tsdb" /\ r.pos = s.pos + 1 /\ r.pos <= Len(s.sqls)
        BY <2>1, <2>6, <2>4, <3>2 DEF Submitted
      <3> DEFINE p == s.sqls[s.pos + 1].qms > 0
      <3>5. p \in BOOLEAN
        OBVIOUS
      <3>6. SentOf(next) = Append(s.did, [sql |-> s.sqls[s.pos + 1], params |-> p])
        BY <2>1, <2>6, <2>4 DEF SentOf
      <3> HIDE DEF p
      <3>7. \/ r.did = s.did
            \/ \E q \in BOOLEAN : r.did = Append(s.did, [sql |-> s.sqls[s.pos + 1], params |-> q])
        BY <2>4, <3>2, <3>5, <3>6 DEF Submitted
      <3>8. Moved(r, s)
        BY <1>4, <3>4, <3>7 DEF Moved
      <3> QED BY <3>2, <3>3, <3>8 DEF Submitted, Ready, r
    <2> QED BY <2>5, <2>6
  <1>5. \/ r = none
        \/ s.base = "topic" /\ r = _stmt_fill_IRD(s, how)
        \/ s.base = "tsdb" /\ r = Then(next, _stmt_exec_direct_with_simple_sql(next, how))
    BY DEF stmt_more_results
  <1> QED BY <1>2, <1>3, <1>4, <1>5
-----------------------------------------------------------------------------
(* The inductive invariant.  What SQLPrepare leaves behind is kept by every   *)
(* call that keeps the statement prepared (Kept) and, until SQLMoreResults    *)
(* takes it on, is the prepared statement itself (Intact).                    *)

Kept   == dm.prepared # NoSql => stmt.pos >= 1 /\ Ready(stmt)
Intact == intact => dm.prepared \in Stmts /\ stmt.current_sql = dm.prepared /\ Set(stmt)
IInv   == TypeOK /\ ResultsOwned /\ Kept /\ Intact /\ IRDDescribes /\ PreparedIsExecuted

DMTyped == dm \in [prepared : Stmts \cup {NoSql}, open : {"none", "executed", "cursor"}, failed : BOOLEAN]

\* TypeOK and ResultsOwned are Typed and Owned of the statement.
LEMMA Parts ==
  /\ TypeOK <=> Typed(stmt) /\ DMTyped /\ intact \in BOOLEAN
  /\ ResultsOwned <=> Owned(stmt)
  BY DEF TypeOK, ResultsOwned, Typed, Owned, Rec, Fields, DMTyped

LEMMA PartsPrimed ==
  /\ TypeOK' <=> Typed(stmt') /\ DMTyped' /\ intact' \in BOOLEAN
  /\ ResultsOwned' <=> Owned(stmt')
  BY DEF TypeOK, ResultsOwned, Typed, Owned, Rec, Fields, DMTyped, _stmt_init

\* A call begins with nothing done and nothing failed.
LEMMA Begins ==
  ASSUME IInv
  PROVE  /\ Same(Began, stmt, {"ret", "did"}) /\ Began.ret = "ok" /\ Began.did = <<>>
         /\ Typed(Began) /\ Owned(Began) /\ Rec(Began)
  <1>1. Typed(stmt) /\ Owned(stmt)
    BY Parts DEF IInv
  <1>2. Same(Began, stmt, {"ret", "did"}) /\ Began.ret = "ok" /\ Began.did = <<>>
    BY <1>1, FieldNames DEF Began, Start, Same, Rec, Typed
  <1>3. Typed(Began) /\ Owned(Began)
    BY <1>1, <1>2, KeptTyped, KeptOwned
  <1> QED BY <1>2, <1>3 DEF Same

\* Only the fields named decide what SQLPrepare promised.
LEMMA KeptSet ==
  ASSUME NEW r, NEW s, NEW changed, Same(r, s, changed), Set(s),
         changed \cap {"pos", "qms", "stmt2", "current_sql", "base", "topic", "pointed"} = {}
  PROVE  Set(r)
  <1>1. /\ r.pos = s.pos /\ r.qms = s.qms /\ r.stmt2 = s.stmt2 /\ r.current_sql = s.current_sql
        /\ r.base = s.base /\ r.topic = s.topic /\ r.pointed = s.pointed
    BY FieldNames DEF Same
  <1> QED BY <1>1 DEF Set, Ready, Current
\* What a step has to show.
LEMMA Concludes ==
  ASSUME Typed(stmt'), Owned(stmt'), DMTyped', intact' \in BOOLEAN, Kept', Intact', IRDDescribes',
         PreparedIsExecuted'
  PROVE  IInv'
  BY PartsPrimed DEF IInv

\* A call of another name says nothing of what is executed.
LEMMA OtherCall ==
  ASSUME call' \notin {"SQLExecute", "SQLNumParams"}
  PROVE  PreparedIsExecuted'
  BY DEF PreparedIsExecuted

LEMMA PrepareStep ==
  ASSUME IInv, NEW text \in Texts, NEW how, SQLPrepare(text, how)
  PROVE  IInv'
  <1>1. /\ stmt' = stmt_prepare(Began, text, how) /\ call' = "SQLPrepare" /\ intact' = (stmt'.ret = "ok")
        /\ IF stmt'.ret = "ok" THEN dm' = [prepared |-> text.stmts[1], open |-> "none", failed |-> FALSE]
                               ELSE dm' = [prepared |-> NoSql, open |-> "none", failed |-> FALSE]
    BY DEF SQLPrepare, Ends, Unprepared
  <1>2. /\ Typed(stmt') /\ Owned(stmt')
        /\ stmt'.ret = "ok" => Set(stmt') /\ stmt'.current_sql = text.stmts[1] /\ stmt'.current_sql \in Stmts
    BY <1>1, Begins, PrepareDone
  <1>3. /\ stmt'.ret = "ok" => dm'.prepared = text.stmts[1]
        /\ stmt'.ret # "ok" => dm'.prepared = NoSql
        /\ dm'.open = "none"
    BY <1>1
  <1>4. DMTyped'
    <2>1. ASSUME NEW q \in Stmts \cup {NoSql}, dm' = [prepared |-> q, open |-> "none", failed |-> FALSE]
          PROVE  DMTyped'
      BY <2>1 DEF DMTyped
    <2>2. CASE stmt'.ret = "ok"
      BY <1>1, <1>2, <2>1, <2>2
    <2>3. CASE stmt'.ret # "ok"
      BY <1>1, <2>1, <2>3
    <2> QED BY <2>2, <2>3
  <1>5. IRDDescribes' /\ intact' \in BOOLEAN
    BY <1>1, <1>3 DEF IRDDescribes
  <1>6. Kept' /\ Intact'
    <2>1. CASE stmt'.ret = "ok"
      <3>1. dm'.prepared = stmt'.current_sql /\ stmt'.current_sql \in Stmts /\ Set(stmt')
        BY <1>2, <1>3, <2>1
      <3>2. stmt'.pos >= 1 /\ Ready(stmt')
        BY <3>1 DEF Set
      <3> QED BY <3>1, <3>2 DEF Kept, Intact
    <2>2. CASE stmt'.ret # "ok"
      BY <1>1, <1>3, <2>2 DEF Kept, Intact
    <2> QED BY <2>1, <2>2
  <1> QED BY <1>1, <1>2, <1>4, <1>5, <1>6, OtherCall, Concludes

LEMMA ExecuteStep ==
  ASSUME IInv, NEW how, SQLExecute(how)
  PROVE  IInv'
  <1>1. /\ stmt' = stmt_execute(Began, how) /\ call' = "SQLExecute" /\ intact' = intact
        /\ dm.prepared # NoSql
        /\ dm' = [dm EXCEPT !.open = IF stmt'.ret = "ok" THEN Opened(stmt') ELSE "none", !.failed = FALSE]
    BY DEF SQLExecute, Ends, Idle
  <1>2. Ready(stmt) /\ stmt.pos >= 1 /\ DMTyped /\ intact \in BOOLEAN
    BY <1>1, Parts DEF IInv, Kept
  <1>3. Ready(Began)
    BY <1>2, Begins, KeptReady
  <1>4. /\ Done(stmt') /\ Same(stmt', Began, {"live", "res", "did", "ret", "ird"})
        /\ Set(Began) => stmt'.ret \in {"ok", "error"}
        /\ Current(Began) => /\ stmt'.did \in {Began.did, SentOf(Began)}
                             /\ stmt'.ret = "ok" => stmt'.did = SentOf(Began)
    BY <1>1, <1>3, Begins, ExecuteDone
  <1>5. Same(stmt', stmt, {"live", "res", "did", "ret", "ird"})
    BY <1>4, Begins DEF Same
  <1>6. dm'.prepared = dm.prepared /\ DMTyped' /\ IRDDescribes'
    BY <1>1, <1>2, <1>4 DEF DMTyped, IRDDescribes, Done, Opened
  <1>7. Kept'
    <2>1. stmt'.pos = stmt.pos
      BY <1>5, FieldNames DEF Same
    <2>2. Ready(stmt')
      BY <1>2, <1>5, KeptReady
    <2> QED BY <1>2, <2>1, <2>2 DEF Kept
  <1>8. Intact'
    <2> SUFFICES ASSUME intact
                 PROVE  dm'.prepared \in Stmts /\ stmt'.current_sql = dm'.prepared /\ Set(stmt')
      BY <1>1 DEF Intact
    <2>1. dm.prepared \in Stmts /\ stmt.current_sql = dm.prepared /\ Set(stmt)
      BY DEF IInv, Intact
    <2>2. Set(stmt')
      BY <1>5, <2>1, KeptSet
    <2>3. stmt'.current_sql = stmt.current_sql
      BY <1>5, FieldNames DEF Same
    <2> QED BY <1>6, <2>1, <2>2, <2>3
  <1>9. PreparedIsExecuted'
    <2> SUFFICES ASSUME intact
                 PROVE  /\ stmt'.ret \notin {"abort", "crash"} /\ (stmt'.ret = "ok" => stmt'.did # <<>>)
                        /\ \A k \in DOMAIN stmt'.did :
                             stmt'.did[k] = [sql |-> dm'.prepared, params |-> dm'.prepared.qms > 0]
      BY <1>1 DEF PreparedIsExecuted, ExecutesOnly
    <2>1. stmt.current_sql = dm.prepared /\ Set(stmt)
      BY DEF IInv, Intact
    <2>2. Set(Began) /\ Current(Began)
      <3>1. Set(Began)
        BY <2>1, Begins, KeptSet
      <3> QED BY <3>1 DEF Set
    <2>3. Began.current_sql = dm.prepared /\ Began.did = <<>>
      BY <2>1, Begins, FieldNames DEF Same
    <2> DEFINE rec == [sql |-> dm.prepared, params |-> dm.prepared.qms > 0]
    <2>4. SentOf(Began) = Append(<<>>, rec)
      BY <2>3 DEF SentOf
    <2> HIDE DEF rec
    <2>5. Append(<<>>, rec) # <<>> /\ DOMAIN Append(<<>>, rec) = {1} /\ Append(<<>>, rec)[1] = rec /\ DOMAIN <<>> = {}
      OBVIOUS
    <2>6. stmt'.ret \in {"ok", "error"} /\ stmt'.did \in {<<>>, Append(<<>>, rec)}
          /\ (stmt'.ret = "ok" => stmt'.did = Append(<<>>, rec))
      BY <1>4, <2>2, <2>3, <2>4
    <2>7. \A k \in DOMAIN stmt'.did : stmt'.did[k] = rec
      BY <2>5, <2>6
    <2> QED BY <1>6, <2>5, <2>6, <2>7 DEF rec
  <1> QED BY <1>1, <1>2, <1>4, <1>6, <1>7, <1>8, <1>9, Concludes DEF Done

LEMMA ExecDirectStep ==
  ASSUME IInv, NEW text \in Texts, NEW how, SQLExecDirect(text, how)
  PROVE  IInv'
  <1>1. /\ stmt' = stmt_exec_direct(Began, text, how) /\ call' = "SQLExecDirect" /\ intact' = FALSE
        /\ dm' = [prepared |-> NoSql, open |-> IF stmt'.ret = "ok" THEN Opened(stmt') ELSE "none",
                  failed |-> FALSE]
    BY DEF SQLExecDirect, Ends, Unprepared
  <1>2. Done(stmt')
    BY <1>1, Begins, ExecDirectDone
  <1>3. DMTyped' /\ IRDDescribes'
    BY <1>1, <1>2 DEF DMTyped, IRDDescribes, Done, Opened
  <1>4. Kept' /\ Intact'
    BY <1>1 DEF Kept, Intact
  <1> QED BY <1>1, <1>2, <1>3, <1>4, OtherCall, Concludes DEF Done

LEMMA CatalogStep ==
  ASSUME IInv, NEW which \in Catalog \cup {"typesinfo"}, NEW how, CatalogFunction(which, how)
  PROVE  IInv'
  <1>1. /\ stmt' = IF which = "typesinfo" THEN stmt_get_type_info(Began, how) ELSE stmt_tables(Began, which, how)
        /\ call' = which /\ intact' = FALSE
        /\ dm' = [prepared |-> NoSql, open |-> IF stmt'.ret = "ok" THEN "cursor" ELSE "none", failed |-> FALSE]
    BY DEF CatalogFunction, Ends, Unprepared
  <1>2. Done(stmt')
    BY <1>1, Begins, TablesDone, TypeInfoDone
  <1>3. DMTyped' /\ IRDDescribes'
    BY <1>1, <1>2 DEF DMTyped, IRDDescribes, Done
  <1>4. Kept' /\ Intact' /\ call' \notin {"SQLExecute", "SQLNumParams"}
    BY <1>1 DEF Kept, Intact, Catalog
  <1> QED BY <1>1, <1>2, <1>3, <1>4, OtherCall, Concludes DEF Done

LEMMA MoreResultsStep ==
  ASSUME IInv, NEW how, SQLMoreResults(how)
  PROVE  IInv'
  <1>1. /\ stmt' = stmt_more_results(Began, how) /\ call' = "SQLMoreResults" /\ intact' = FALSE
        /\ dm' = CASE stmt'.ret = "ok"      -> [dm EXCEPT !.open = Opened(stmt'), !.failed = FALSE]
                   [] stmt'.ret = "no_data" -> [dm EXCEPT !.open = "none", !.failed = FALSE]
                   [] OTHER                 -> [dm EXCEPT !.failed = TRUE]
    BY DEF SQLMoreResults, Ends
  <1>2. Done(stmt') /\ (Began.pos >= 1 /\ Ready(Began) => stmt'.pos >= 1 /\ Ready(stmt'))
    BY <1>1, Begins, MoreResultsDone
  <1>3. DMTyped
    BY Parts DEF IInv
  <1>4. dm'.prepared = dm.prepared /\ DMTyped' /\ IRDDescribes'
    BY <1>1, <1>2, <1>3 DEF DMTyped, IRDDescribes, Done, Opened
  <1>5. Kept' /\ Intact'
    <2>1. Began.pos = stmt.pos /\ Began.qms = stmt.qms /\ Began.stmt2 = stmt.stmt2
      BY Begins, FieldNames DEF Same
    <2>2. dm.prepared # NoSql => Began.pos >= 1 /\ Ready(Began)
      BY <2>1 DEF IInv, Kept, Ready
    <2> QED BY <1>1, <1>2, <1>4, <2>2 DEF Kept, Intact
  <1> QED BY <1>1, <1>2, <1>4, <1>5, OtherCall, Concludes DEF Done

LEMMA CloseStep ==
  ASSUME IInv, CloseCursor
  PROVE  IInv'
  <1>1. /\ stmt' = _stmt_close_result(Began) /\ call' = "SQLCloseCursor"
        /\ intact' = (intact /\ ~dm.prepared.ext)
        /\ dm' = [dm EXCEPT !.open = "none", !.failed = FALSE]
    BY DEF CloseCursor, Ends, Idle
  <1>2. Same(stmt', Began, {"live", "res", "topic", "base"}) /\ Owned(stmt') /\ stmt'.base = "tsdb"
    BY <1>1, Begins, CloseResult
  <1>3. Typed(stmt')
    BY <1>2, Begins, KeptTyped
  <1>4. Same(stmt', stmt, {"live", "res", "topic", "base", "ret", "did"})
    BY <1>2, Begins DEF Same
  <1>5. DMTyped
    BY Parts DEF IInv
  <1>6. dm'.prepared = dm.prepared /\ DMTyped' /\ IRDDescribes'
    BY <1>1, <1>5 DEF DMTyped, IRDDescribes
  <1>7. intact' \in BOOLEAN
    BY <1>1
  <1>8. /\ stmt'.pos = stmt.pos /\ stmt'.qms = stmt.qms /\ stmt'.stmt2 = stmt.stmt2
        /\ stmt'.current_sql = stmt.current_sql /\ stmt'.pointed = stmt.pointed
    BY <1>4, FieldNames DEF Same
  <1>9. Kept'
    BY <1>6, <1>8 DEF IInv, Kept, Ready
  <1>10. Intact'
    BY <1>1, <1>2, <1>6, <1>8 DEF IInv, Intact, Set, Ready, Current
  <1> QED BY <1>1, <1>2, <1>3, <1>6, <1>7, <1>9, <1>10, OtherCall, Concludes

\* A call that changes none of the fields a promise is about, and no dm.
LEMMA QuietStep ==
  ASSUME IInv, Same(stmt', stmt, {"ret", "did", "bound"}), stmt'.bound \in 0..MaxParams,
         UNCHANGED <<dm, intact>>, PreparedIsExecuted'
  PROVE  IInv'
  <1>1. Typed(stmt) /\ Owned(stmt) /\ DMTyped /\ intact \in BOOLEAN
    BY Parts DEF IInv
  <1>2. /\ stmt'.sqls = stmt.sqls /\ stmt'.pos = stmt.pos /\ stmt'.current_sql = stmt.current_sql
        /\ stmt'.ird = stmt.ird /\ Rec(stmt')
    BY FieldNames DEF Same
  <1>3. Typed(stmt') /\ Owned(stmt')
    <2>1. Owned(stmt')
      BY <1>1, KeptOwned
    <2> QED BY <1>1, <1>2, <2>1 DEF Typed
  <1>4. DMTyped' /\ intact' \in BOOLEAN
    BY <1>1 DEF DMTyped
  <1>5. Kept'
    <2>1. Ready(stmt) => Ready(stmt')
      BY KeptReady
    <2> QED BY <1>2, <2>1 DEF IInv, Kept
  <1>6. Intact'
    <2>1. Set(stmt) => Set(stmt')
      BY KeptSet
    <2> QED BY <1>2, <2>1 DEF IInv, Intact
  <1>7. IRDDescribes'
    <2>1. Columns(stmt') = Columns(stmt)
      BY KeptColumns
    <2> QED BY <1>2, <2>1 DEF IInv, IRDDescribes
  <1> QED BY <1>3, <1>4, <1>5, <1>6, <1>7, Concludes

LEMMA BindStep ==
  ASSUME IInv, SQLBindParameter \/ SQL_RESET_PARAMS
  PROVE  IInv'
  <1>1. Began.bound = stmt.bound /\ stmt.bound \in 0..MaxParams /\ MaxParams \in Nat
    BY Begins, Parts, FieldNames, ExecAssumption DEF IInv, Typed, Same
  <1>2. ASSUME NEW n, stmt' = [Began EXCEPT !.bound = n]
        PROVE  Same(stmt', stmt, {"ret", "did", "bound"}) /\ stmt'.bound = n
    <2>1. Same(stmt', Began, {"bound"}) /\ stmt'.bound = n
      BY <1>2, Begins, FieldNames DEF Same, Rec
    <2> QED BY <2>1, Begins DEF Same
  <1>3. CASE SQLBindParameter
    <2>1. stmt' = [Began EXCEPT !.bound = stmt.bound + 1] /\ stmt.bound + 1 \in 0..MaxParams
      BY <1>1, <1>3 DEF SQLBindParameter, Ends
    <2>2. UNCHANGED <<dm, intact>> /\ PreparedIsExecuted'
      BY <1>3 DEF SQLBindParameter, Ends, PreparedIsExecuted
    <2>3. Same(stmt', stmt, {"ret", "did", "bound"}) /\ stmt'.bound \in 0..MaxParams
      BY <1>2, <2>1
    <2> QED BY <2>2, <2>3, QuietStep
  <1>4. CASE SQL_RESET_PARAMS
    <2>1. stmt' = [Began EXCEPT !.bound = 0]
      BY <1>4 DEF SQL_RESET_PARAMS, Ends
    <2>2. UNCHANGED <<dm, intact>> /\ PreparedIsExecuted'
      BY <1>4 DEF SQL_RESET_PARAMS, Ends, PreparedIsExecuted
    <2>3. Same(stmt', stmt, {"ret", "did", "bound"}) /\ stmt'.bound = 0
      BY <1>2, <2>1
    <2> QED BY <1>1, <2>2, <2>3, QuietStep
  <1> QED BY <1>3, <1>4

LEMMA NumParamsStep ==
  ASSUME IInv, SQLNumParams
  PROVE  IInv'
  <1> DEFINE answer == IF stmt.base # "tsdb" THEN "error"
                    ELSE IF stmt.qms # stmt.current_sql.qms THEN "abort" ELSE "ok"
  <1>1. stmt' = [Began EXCEPT !.ret = answer] /\ call' = "SQLNumParams" /\ UNCHANGED <<dm, intact>>
    BY DEF SQLNumParams, Ends
  <1>2. Same(stmt', Began, {"ret"}) /\ stmt'.ret = answer
    BY <1>1, Begins, Ended
  <1>3. Same(stmt', stmt, {"ret", "did", "bound"}) /\ stmt'.bound = stmt.bound
    BY <1>2, Begins, FieldNames DEF Same
  <1>4. stmt'.bound \in 0..MaxParams
    BY <1>3, Parts DEF IInv, Typed
  <1>5. PreparedIsExecuted'
    <2>1. intact => stmt.qms = stmt.current_sql.qms
      BY DEF IInv, Intact, Set, Current
    <2> QED BY <1>1, <1>2, <2>1 DEF PreparedIsExecuted
  <1> QED BY <1>1, <1>3, <1>4, <1>5, QuietStep

\* A statement that was just allocated.
LEMMA Fresh == Typed(_stmt_init) /\ Owned(_stmt_init)
  <1>1. <<>> \in Seq(Stmts) /\ 0 \in 0..Len(<<>>) /\ 0 \in 0..MaxParams
    BY ExecAssumption
  <1>2. /\ _stmt_init.sqls = <<>> /\ _stmt_init.pos = 0 /\ _stmt_init.current_sql = NoSql /\ _stmt_init.bound = 0
        /\ _stmt_init.live = 0 /\ _stmt_init.handles = 0 /\ _stmt_init.stmt2 = NoSql
        /\ _stmt_init.res.owner = "none" /\ Rec(_stmt_init)
    BY DEF _stmt_init, NoRes, Rec, Fields
  <1> QED BY <1>1, <1>2 DEF Typed, Owned

\* Nothing of the client library's is left behind when a statement is freed.
LEMMA Released ==
  ASSUME NEW s, Rec(s), Owned(s)
  PROVE  _stmt_release(s) = _stmt_init
  <1> DEFINE c == _stmt_close_result(s)
             r == tsdb_stmt_reset(c)
  <1>1. Rec(c) /\ Owned(c)
    BY CloseResult DEF Same
  <1> HIDE DEF c
  <1>2. Owned(r) /\ r.res = NoRes /\ r.stmt2 = NoSql
    BY <1>1, StmtReset
  <1>3. _stmt_release(s) = [_stmt_init EXCEPT !.live = r.live, !.handles = r.handles]
    BY DEF _stmt_release, c
  <1> HIDE DEF r
  <1>4. r.live = 0 /\ r.handles = 0
    BY <1>2 DEF Owned, NoRes
  <1>5. _stmt_release(s) = [_stmt_init EXCEPT !.live = 0, !.handles = 0]
    BY <1>3, <1>4
  <1>6. [_stmt_init EXCEPT !.live = 0, !.handles = 0] = _stmt_init
    <2>1. _stmt_init.live = 0 /\ _stmt_init.handles = 0
      BY DEF _stmt_init
    <2>2. ASSUME NEW f, NEW x, NEW y
          PROVE  [f EXCEPT !.live = x, !.handles = y]
                   = [n \in DOMAIN f |-> IF n = "handles" THEN y ELSE IF n = "live" THEN x ELSE f[n]]
      OBVIOUS
    <2>3. _stmt_init = [n \in DOMAIN _stmt_init |-> _stmt_init[n]]
      BY DEF _stmt_init
    <2> QED BY <2>1, <2>2, <2>3
  <1> QED BY <1>5, <1>6

LEMMA FreeStep ==
  ASSUME IInv, SQLFreeHandle
  PROVE  IInv'
  <1>1. Rec(stmt) /\ Owned(stmt)
    BY Parts DEF IInv, Typed
  <1>2. /\ stmt' = _stmt_init /\ call' = "SQLFreeHandle" /\ intact' = FALSE
        /\ dm' = [prepared |-> NoSql, open |-> "none", failed |-> FALSE]
    BY <1>1, Released DEF SQLFreeHandle, Ends, Unprepared
  <1>3. Typed(stmt') /\ Owned(stmt')
    BY <1>2, Fresh
  <1>4. DMTyped' /\ intact' \in BOOLEAN /\ Kept' /\ Intact' /\ IRDDescribes'
    BY <1>2 DEF DMTyped, Kept, Intact, IRDDescribes
  <1> QED BY <1>2, <1>3, <1>4, OtherCall, Concludes
-----------------------------------------------------------------------------
(* The order of a batch: the second inductive invariant, beside the first.   *)
(* The statements of a text are distinct, and those a call refused stand     *)
(* before the position.                                                      *)

Behind(sqls, upto) == {sqls[k] : k \in 1..upto}
Underway(s) == dm.prepared = NoSql /\ dm.open # "none" /\ s.base \in {"tsdb", "topic"}
Ordered(s, done, out) ==
  /\ IsInjective(s.sqls) /\ done \in Seq(Stmts) /\ out \subseteq Behind(s.sqls, s.pos)
  /\ InOrder(done, s.sqls, s.pos, out)
BatchKept == Underway(stmt) => Ordered(stmt, ran, refused)

LEMMA RunningPrimed ==
  BatchKept' <=> (dm'.prepared = NoSql /\ dm'.open # "none" /\ stmt'.base \in {"tsdb", "topic"}
                    => Ordered(stmt', ran', refused'))
  BY DEF BatchKept, Underway, Ordered, InOrder, Behind

\* Distinct statements stand at distinct places.
LEMMA Apart ==
  ASSUME NEW sqls \in Seq(Stmts), IsInjective(sqls), NEW i \in 1..Len(sqls), NEW j \in 1..Len(sqls), sqls[i] = sqls[j]
  PROVE  i = j
  <1>1. DOMAIN sqls = 1..Len(sqls)
    OBVIOUS
  <1> QED BY <1>1 DEF IsInjective

\* A statement that was refused is passed over.
LEMMA PassedOver ==
  ASSUME NEW sqls \in Seq(Stmts), IsInjective(sqls), NEW upto \in Nat, upto + 1 <= Len(sqls), NEW done, NEW out,
         InOrder(done, sqls, upto, out)
  PROVE  InOrder(done, sqls, upto + 1, out \cup {sqls[upto + 1]})
  <1> DEFINE more == out \cup {sqls[upto + 1]}
  <1>1. PICK at \in [DOMAIN done -> 1..upto] :
          /\ \A i, j \in DOMAIN done : i < j => at[i] < at[j]
          /\ \A i \in DOMAIN done : done[i] = sqls[at[i]]
          /\ Range(at) = {k \in 1..upto : sqls[k] \notin out}
    BY DEF InOrder
  <1>2. at \in [DOMAIN done -> 1..(upto + 1)]
    OBVIOUS
  <1>3. {k \in 1..upto : sqls[k] \notin out} = {k \in 1..(upto + 1) : sqls[k] \notin more}
    <2>1. \A k \in 1..upto : sqls[k] # sqls[upto + 1]
      <3> TAKE k \in 1..upto
      <3>1. k \in 1..Len(sqls) /\ upto + 1 \in 1..Len(sqls) /\ k # upto + 1
        OBVIOUS
      <3> QED BY <3>1, Apart
    <2>2. \A k \in 1..(upto + 1) : k \in 1..upto \/ k = upto + 1
      OBVIOUS
    <2>3. \A k \in 1..upto : k \in 1..(upto + 1)
      OBVIOUS
    <2> QED BY <2>1, <2>2, <2>3
  <1> HIDE DEF more
  <1> QED BY <1>1, <1>2, <1>3 DEF InOrder, more

\* A statement that was sent stands behind those sent before it.
LEMMA SentNext ==
  ASSUME NEW sqls \in Seq(Stmts), IsInjective(sqls), NEW upto \in Nat, upto + 1 <= Len(sqls), NEW done \in Seq(Stmts),
         NEW out, out \subseteq Behind(sqls, upto), InOrder(done, sqls, upto, out)
  PROVE  InOrder(Append(done, sqls[upto + 1]), sqls, upto + 1, out)
  <1> DEFINE n == Len(done)
             more == Append(done, sqls[upto + 1])
  <1>1. PICK at \in [DOMAIN done -> 1..upto] :
          /\ \A i, j \in DOMAIN done : i < j => at[i] < at[j]
          /\ \A i \in DOMAIN done : done[i] = sqls[at[i]]
          /\ Range(at) = {k \in 1..upto : sqls[k] \notin out}
    BY DEF InOrder
  <1>2. /\ n \in Nat /\ DOMAIN done = 1..n /\ DOMAIN more = 1..(n + 1)
        /\ \A i \in 1..n : more[i] = done[i]
        /\ more[n + 1] = sqls[upto + 1]
    <2>1. sqls[upto + 1] \in Stmts
      OBVIOUS
    <2> QED BY <2>1
  <1> HIDE DEF n, more
  <1> DEFINE to == [i \in 1..(n + 1) |-> IF i = n + 1 THEN upto + 1 ELSE at[i]]
  <1>3. /\ to[n + 1] = upto + 1 /\ DOMAIN to = 1..(n + 1)
        /\ \A i \in 1..n : to[i] = at[i] /\ at[i] \in 1..upto
    BY <1>2
  <1>4. to = [i \in 1..(n + 1) |-> to[i]]
    OBVIOUS
  <1>5. \A i \in 1..(n + 1) : i \in 1..n \/ i = n + 1
    BY <1>2
  <1> HIDE DEF to
  <1>6. to \in [DOMAIN more -> 1..(upto + 1)]
    <2>1. \A i \in 1..n : to[i] \in 1..(upto + 1)
      BY <1>3
    <2>2. \A i \in 1..(n + 1) : to[i] \in 1..(upto + 1)
      BY <1>3, <1>5, <2>1
    <2> QED BY <1>2, <1>4, <2>2
  <1>7. \A i, j \in DOMAIN more : i < j => to[i] < to[j]
    <2> SUFFICES ASSUME NEW i \in 1..(n + 1), NEW j \in 1..(n + 1), i < j
                 PROVE  to[i] < to[j]
      BY <1>2
    <2>1. i \in 1..n
      BY <1>2
    <2>2. CASE j = n + 1
      BY <1>3, <2>1, <2>2
    <2>3. CASE j \in 1..n
      BY <1>1, <1>2, <1>3, <2>1, <2>3
    <2> QED BY <1>5, <2>2, <2>3
  <1>8. \A i \in DOMAIN more : more[i] = sqls[to[i]]
    BY <1>1, <1>2, <1>3, <1>5
  <1>9. sqls[upto + 1] \notin out
    <2> SUFFICES ASSUME sqls[upto + 1] \in out
                 PROVE  FALSE
      OBVIOUS
    <2>1. PICK k \in 1..upto : sqls[k] = sqls[upto + 1]
      BY DEF Behind
    <2>2. k \in 1..Len(sqls) /\ upto + 1 \in 1..Len(sqls) /\ k # upto + 1
      OBVIOUS
    <2> QED BY <2>1, <2>2, Apart
  <1>10. Range(to) = {k \in 1..(upto + 1) : sqls[k] \notin out}
    <2>1. \A k \in 1..(upto + 1) : k \in 1..upto \/ k = upto + 1
      OBVIOUS
    <2>2. \A k \in 1..upto : k \in Range(at) <=> sqls[k] \notin out
      BY <1>1
    <2>3. Range(at) = {at[i] : i \in 1..n}
      BY <1>2 DEF Range
    <2>4. Range(to) = Range(at) \cup {upto + 1}
      <3>1. Range(to) = {to[i] : i \in 1..(n + 1)}
        BY <1>3 DEF Range
      <3>2. {to[i] : i \in 1..(n + 1)} = {to[i] : i \in 1..n} \cup {to[n + 1]}
        BY <1>2, <1>5
      <3>3. {to[i] : i \in 1..n} = {at[i] : i \in 1..n}
        BY <1>3
      <3> QED BY <1>3, <2>3, <3>1, <3>2, <3>3
    <2>5. Range(at) \subseteq 1..upto
      BY <1>1
    <2> QED BY <1>9, <2>1, <2>2, <2>4, <2>5
  <1> QED BY <1>6, <1>7, <1>8, <1>10 DEF InOrder, more

\* What a call sent is one statement or none.
LEMMA SentOne ==
  ASSUME NEW s, NEW q, NEW p, s.did = Append(<<>>, [sql |-> q, params |-> p])
  PROVE  Sent(s) = <<q>>
  <1>1. s.did = <<[sql |-> q, params |-> p]>>
    OBVIOUS
  <1>2. DOMAIN s.did = {1} /\ s.did[1] = [sql |-> q, params |-> p]
    BY <1>1
  <1>3. DOMAIN Sent(s) = {1} /\ Sent(s)[1] = q
    BY <1>2 DEF Sent
  <1>4. Sent(s) = [k \in 1..1 |-> q]
    BY <1>2 DEF Sent
  <1> QED BY <1>4

LEMMA SentNone ==
  ASSUME NEW s, s.did = <<>>
  PROVE  Sent(s) = <<>>
  BY DEF Sent

\* A text that was taken has had its first statement sent.
LEMMA FirstSent ==
  ASSUME NEW sqls \in Seq(Stmts), IsInjective(sqls), 1 <= Len(sqls)
  PROVE  InOrder(<<sqls[1]>>, sqls, 1, {})
  <1> DEFINE done == <<sqls[1]>>
             at == [i \in {1} |-> 1]
  <1>1. DOMAIN done = {1} /\ done[1] = sqls[1] /\ 1..1 = {1}
    OBVIOUS
  <1> HIDE DEF done
  <1>2. at \in [DOMAIN done -> 1..1] /\ Range(at) = {1}
    BY <1>1 DEF Range
  <1>3. \A i, j \in DOMAIN done : i < j => at[i] < at[j]
    BY <1>1
  <1>4. \A i \in DOMAIN done : done[i] = sqls[at[i]]
    BY <1>1
  <1>5. Range(at) = {k \in 1..1 : sqls[k] \notin {}}
    BY <1>1, <1>2
  <1> HIDE DEF at
  <1> QED BY <1>2, <1>3, <1>4, <1>5 DEF InOrder, done

\* Only these two calls can leave a text under way.
LEMMA ExecDirectKeeps ==
  ASSUME IInv, NEW text \in Texts, NEW how, SQLExecDirect(text, how)
  PROVE  BatchKept'
  <1>1. /\ stmt' = stmt_exec_direct(Began, text, how) /\ ran' = Sent(stmt') /\ refused' = {}
        /\ dm' = [prepared |-> NoSql, open |-> IF stmt'.ret = "ok" THEN Opened(stmt') ELSE "none",
                  failed |-> FALSE]
    BY DEF SQLExecDirect, Ends, Unprepared
  <1>2. /\ Done(stmt')
        /\ stmt'.ret = "ok" =>
             /\ stmt'.sqls = text.stmts /\ stmt'.pos = 1
             /\ \E p \in BOOLEAN : stmt'.did = Append(Began.did, [sql |-> text.stmts[1], params |-> p])
    BY <1>1, Begins, ExecDirectDone
  <1> SUFFICES ASSUME dm'.open # "none"
               PROVE  Ordered(stmt', ran', refused')
    BY RunningPrimed
  <1>3. stmt'.ret = "ok"
    BY <1>1
  <1> DEFINE sqls == text.stmts
  <1>4. sqls \in Seq(Stmts) /\ IsInjective(sqls)
    BY ExecAssumption
  <1>5. stmt'.sqls = sqls /\ stmt'.pos = 1 /\ 1 <= Len(sqls)
    BY <1>2, <1>3 DEF Done, Typed
  <1>6. ran' = <<sqls[1]>>
    <2>1. PICK p \in BOOLEAN : stmt'.did = Append(<<>>, [sql |-> sqls[1], params |-> p])
      BY <1>2, <1>3, Begins
    <2> QED BY <1>1, <2>1, SentOne
  <1> HIDE DEF sqls
  <1>7. InOrder(<<sqls[1]>>, sqls, 1, {})
    BY <1>4, <1>5, FirstSent
  <1>8. <<sqls[1]>> \in Seq(Stmts)
    <2>1. sqls[1] \in Stmts
      BY <1>4, <1>5
    <2> QED BY <2>1
  <1> QED BY <1>1, <1>4, <1>5, <1>6, <1>7, <1>8 DEF Ordered

LEMMA MoreResultsKeeps ==
  ASSUME IInv, BatchKept, NEW how, SQLMoreResults(how)
  PROVE  BatchKept'
  <1> DEFINE sqls == stmt.sqls
             upto == stmt.pos
             taken == Range(SubSeq(sqls, upto + 1, stmt'.pos))
  <1>1. /\ stmt' = stmt_more_results(Began, how) /\ dm.open # "none"
        /\ dm' = CASE stmt'.ret = "ok"      -> [dm EXCEPT !.open = Opened(stmt'), !.failed = FALSE]
                   [] stmt'.ret = "no_data" -> [dm EXCEPT !.open = "none", !.failed = FALSE]
                   [] OTHER                 -> [dm EXCEPT !.failed = TRUE]
    BY DEF SQLMoreResults, Ends
  <1>2. Done(stmt') /\ Moved(stmt', Began)
    BY <1>1, Begins, MoreResultsDone
  <1>3. Began.sqls = sqls /\ Began.pos = upto /\ Began.base = stmt.base /\ Began.did = <<>>
    BY Begins, FieldNames DEF Same
  <1>4. DMTyped /\ Typed(stmt)
    BY Parts DEF IInv
  <1>5. dm'.prepared = dm.prepared /\ (stmt'.ret = "no_data" => dm'.open = "none")
    BY <1>1, <1>4 DEF DMTyped
  <1>6. stmt'.sqls = sqls
    BY <1>2, <1>3 DEF Moved
  <1>7. /\ ran' = IF stmt'.base = "tsdb" THEN ran \o Sent(stmt') ELSE ran
        /\ refused' = refused \cup (taken \ Range(Sent(stmt')))
    BY <1>6 DEF SQLMoreResults, Ends
  <1> SUFFICES ASSUME dm'.prepared = NoSql, dm'.open # "none"
               PROVE  Ordered(stmt', ran', refused')
    BY RunningPrimed
  <1>8. Ordered(stmt, ran, refused)
    <2>1. stmt.base \in {"tsdb", "topic"}
      BY <1>2, <1>3, <1>5 DEF Moved
    <2> QED BY <1>1, <1>5, <2>1 DEF BatchKept, Underway
  <1>9. /\ sqls \in Seq(Stmts) /\ IsInjective(sqls) /\ upto \in Nat /\ ran \in Seq(Stmts)
        /\ refused \subseteq Behind(sqls, upto) /\ InOrder(ran, sqls, upto, refused)
    BY <1>4, <1>8 DEF Ordered, Typed
  <1> HIDE DEF sqls, upto
  <1>10. CASE stmt'.pos = upto /\ stmt'.did = <<>>
    <2>1. Sent(stmt') = <<>>
      BY <1>10, SentNone
    <2>2. taken = {}
      <3>1. SubSeq(sqls, upto + 1, upto) = <<>>
        BY <1>9
      <3>2. Range(<<>>) = {}
        BY DEF Range
      <3> QED BY <1>10, <3>1, <3>2
    <2>3. ran' = ran /\ refused' = refused
      BY <1>7, <1>9, <2>1, <2>2
    <2> QED BY <1>6, <1>9, <1>10, <2>3 DEF Ordered
  <1>11. ASSUME stmt'.pos = upto + 1, upto + 1 <= Len(sqls)
         PROVE  taken = {sqls[upto + 1]} /\ Behind(sqls, upto) \cup {sqls[upto + 1]} = Behind(sqls, upto + 1)
    <2> DEFINE at == upto + 1
               one == SubSeq(sqls, at, at)
    <2>1. at \in 1..Len(sqls)
      BY <1>9, <1>11
    <2> HIDE DEF at
    <2>2. Len(one) = 1 /\ one[1] = sqls[at] /\ DOMAIN one = 1..Len(one)
      BY <1>9, <2>1
    <2>3. taken = {sqls[upto + 1]}
      <3> HIDE DEF one
      <3>1. Range(one) = {sqls[at]}
        BY <2>2 DEF Range
      <3> QED BY <1>11, <3>1 DEF one, at
    <2>4. \A k : k \in 1..(upto + 1) <=> k \in 1..upto \/ k = upto + 1
      BY <1>9
    <2> QED BY <2>3, <2>4 DEF Behind
  <1>12. CASE stmt'.pos = upto + 1 /\ stmt'.pos <= Len(sqls) /\ stmt'.did = <<>>
    <2>1. Sent(stmt') = <<>> /\ Range(<<>>) = {}
      BY <1>12, SentNone DEF Range
    <2>2. ran' = ran /\ refused' = refused \cup {sqls[upto + 1]}
      BY <1>7, <1>9, <1>11, <1>12, <2>1
    <2>3. InOrder(ran, sqls, upto + 1, refused \cup {sqls[upto + 1]})
      BY <1>9, <1>12, PassedOver
    <2>4. refused' \subseteq Behind(sqls, upto + 1)
      BY <1>9, <1>11, <1>12, <2>2
    <2> QED BY <1>6, <1>9, <1>12, <2>2, <2>3, <2>4 DEF Ordered
  <1>13. ASSUME stmt'.pos = upto + 1, stmt'.pos <= Len(sqls), stmt'.base = "tsdb", NEW p \in BOOLEAN,
                stmt'.did = Append(<<>>, [sql |-> sqls[upto + 1], params |-> p])
         PROVE  Ordered(stmt', ran', refused')
    <2>1. Sent(stmt') = <<sqls[upto + 1]>>
      BY <1>13, SentOne
    <2>2. Range(<<sqls[upto + 1]>>) = {sqls[upto + 1]}
      BY DEF Range
    <2>3. refused' = refused
      BY <1>7, <1>11, <1>13, <2>1, <2>2
    <2>4. sqls[upto + 1] \in Stmts
      BY <1>9, <1>13
    <2>5. ran' = Append(ran, sqls[upto + 1])
      BY <1>7, <1>9, <1>13, <2>1, <2>4
    <2>6. InOrder(Append(ran, sqls[upto + 1]), sqls, upto + 1, refused)
      BY <1>9, <1>13, SentNext
    <2>7. refused \subseteq Behind(sqls, upto + 1)
      BY <1>9, <1>11, <1>13
    <2>8. Append(ran, sqls[upto + 1]) \in Seq(Stmts)
      BY <1>9, <2>4
    <2> QED BY <1>6, <1>9, <1>13, <2>3, <2>5, <2>6, <2>7, <2>8 DEF Ordered
  <1> HIDE DEF taken
  <1>14. \/ stmt'.pos = upto /\ stmt'.did = <<>>
         \/ stmt'.pos = upto + 1 /\ stmt'.pos <= Len(sqls) /\ stmt'.did = <<>>
         \/ /\ stmt'.pos = upto + 1 /\ stmt'.pos <= Len(sqls) /\ stmt'.base = "tsdb"
            /\ \E p \in BOOLEAN : stmt'.did = Append(<<>>, [sql |-> sqls[upto + 1], params |-> p])
    BY <1>2, <1>3 DEF Moved
  <1> QED BY <1>10, <1>12, <1>13, <1>14

\* The other calls close what is open, keep another statement prepared, or leave
\* the text as it is.
LEMMA OtherKeeps ==
  ASSUME IInv, BatchKept,
         \/ \E text \in Texts, how \in Failures : SQLPrepare(text, how)
         \/ \E how \in Failures : SQLExecute(how)
         \/ \E how \in Failures, which \in Catalog \cup {"typesinfo"} : CatalogFunction(which, how)
         \/ CloseCursor \/ SQLFreeHandle
  PROVE  BatchKept'
  <1>1. ASSUME NEW text \in Texts, NEW how, SQLPrepare(text, how)
        PROVE  dm'.open = "none"
    BY <1>1 DEF SQLPrepare, Unprepared
  <1>2. DMTyped
    BY Parts DEF IInv
  <1>3. ASSUME NEW how, SQLExecute(how)
        PROVE  dm'.prepared # NoSql
    BY <1>2, <1>3 DEF SQLExecute, Idle, DMTyped
  <1>4. ASSUME NEW which \in Catalog \cup {"typesinfo"}, NEW how, CatalogFunction(which, how)
        PROVE  dm'.open = "none" \/ stmt'.base \notin {"tsdb", "topic"}
    <2>1. /\ stmt' = IF which = "typesinfo" THEN stmt_get_type_info(Began, how) ELSE stmt_tables(Began, which, how)
          /\ dm' = [prepared |-> NoSql, open |-> IF stmt'.ret = "ok" THEN "cursor" ELSE "none", failed |-> FALSE]
      BY <1>4 DEF CatalogFunction, Ends, Unprepared
    <2>2. stmt'.ret = "ok" => stmt'.base = which
      BY <2>1, Begins, TablesDone, TypeInfoDone
    <2> QED BY <2>1, <2>2 DEF Catalog
  <1>5. CASE CloseCursor
    <2>1. dm' = [dm EXCEPT !.open = "none", !.failed = FALSE]
      BY <1>5 DEF CloseCursor, Idle
    <2>2. dm'.open = "none"
      BY <1>2, <2>1 DEF DMTyped
    <2> QED BY <2>2, RunningPrimed
  <1>6. CASE SQLFreeHandle
    <2>1. dm'.open = "none"
      BY <1>6 DEF SQLFreeHandle, Unprepared
    <2> QED BY <2>1, RunningPrimed
  <1> QED BY <1>1, <1>3, <1>4, <1>5, <1>6, RunningPrimed

LEMMA QuietKeeps ==
  ASSUME IInv, BatchKept, SQLBindParameter \/ SQL_RESET_PARAMS \/ SQLNumParams
  PROVE  BatchKept'
  <1>1. \/ \E n : stmt' = [Began EXCEPT !.bound = n]
        \/ \E n : stmt' = [Began EXCEPT !.ret = n]
    BY DEF SQLBindParameter, SQL_RESET_PARAMS, SQLNumParams, Ends
  <1>2. stmt'.sqls = stmt.sqls /\ stmt'.pos = stmt.pos /\ stmt'.base = stmt.base
    <2>1. Same(stmt', Began, {"ret", "bound"})
      BY <1>1, Begins, FieldNames DEF Same, Rec
    <2>2. Same(stmt', stmt, {"ret", "bound", "did"})
      BY <2>1, Begins DEF Same
    <2> QED BY <2>2, FieldNames DEF Same
  <1>3. dm' = dm /\ ran' = ran /\ refused' = refused
    BY DEF SQLBindParameter, SQL_RESET_PARAMS, SQLNumParams
  <1>4. Ordered(stmt, ran, refused) => Ordered(stmt', ran', refused')
    BY <1>2, <1>3 DEF Ordered
  <1> QED BY <1>2, <1>3, <1>4, RunningPrimed DEF BatchKept, Underway

-----------------------------------------------------------------------------
(* The theorems.                                                             *)

\* No call, whatever fails in it, breaks what the calls before it left.
THEOREM Invariance == Spec => []IInv
  <1>1. Init => IInv
    <2> SUFFICES ASSUME Init
                 PROVE  IInv
      OBVIOUS
    <2>1. /\ stmt = _stmt_init /\ call = "none" /\ intact = FALSE
          /\ dm = [prepared |-> NoSql, open |-> "none", failed |-> FALSE]
      BY DEF Init
    <2>2. TypeOK /\ ResultsOwned
      <3>1. Typed(stmt) /\ Owned(stmt) /\ DMTyped
        BY <2>1, Fresh DEF DMTyped
      <3> QED BY <2>1, <3>1, Parts
    <2>3. Kept /\ Intact /\ IRDDescribes /\ PreparedIsExecuted
      BY <2>1 DEF Kept, Intact, IRDDescribes, PreparedIsExecuted
    <2> QED BY <2>2, <2>3 DEF IInv
  <1>2. IInv /\ [Next]_vars => IInv'
    <2> SUFFICES ASSUME IInv, [Next]_vars
                 PROVE  IInv'
      OBVIOUS
    <2>1. ASSUME NEW text \in Texts, NEW how \in Failures, SQLPrepare(text, how) \/ SQLExecDirect(text, how)
          PROVE  IInv'
      BY <2>1, PrepareStep, ExecDirectStep
    <2>2. ASSUME NEW how \in Failures, SQLExecute(how) \/ SQLMoreResults(how)
          PROVE  IInv'
      BY <2>2, ExecuteStep, MoreResultsStep
    <2>3. ASSUME NEW how \in Failures, NEW which \in Catalog \cup {"typesinfo"}, CatalogFunction(which, how)
          PROVE  IInv'
      BY <2>3, CatalogStep
    <2>4. CASE CloseCursor
      BY <2>4, CloseStep
    <2>5. CASE SQLBindParameter \/ SQL_RESET_PARAMS
      BY <2>5, BindStep
    <2>6. CASE SQLNumParams
      BY <2>6, NumParamsStep
    <2>7. CASE SQLFreeHandle
      BY <2>7, FreeStep
    <2>8. CASE UNCHANGED vars
      BY <2>8 DEF vars, IInv, TypeOK, ResultsOwned, Kept, Intact, Set, Ready, Current, IRDDescribes, Columns,
                  PreparedIsExecuted, ExecutesOnly
    <2> QED BY <2>1, <2>2, <2>3, <2>4, <2>5, <2>6, <2>7, <2>8 DEF Next
  <1> QED BY <1>1, <1>2, PTL DEF Spec

\* The statement and what the driver manager knows of it keep their types (stmt.c).
THEOREM TypeCorrect == Spec => []TypeOK
  <1>1. IInv => TypeOK
    BY DEF IInv
  <1> QED BY <1>1, Invariance, PTL

\* No result of the client library is freed twice or left behind, whatever is
\* executed, fails and is closed, in any order (tsdb_res_reset, tsdb_stmt_reset).
THEOREM ResultsSound == Spec => []ResultsOwned
  <1>1. IInv => ResultsOwned
    BY DEF IInv
  <1> QED BY <1>1, Invariance, PTL

\* The IRD is that of the open result (_stmt_fill_IRD).
THEOREM DescriptorSound == Spec => []IRDDescribes
  <1>1. IInv => IRDDescribes
    BY DEF IInv
  <1> QED BY <1>1, Invariance, PTL

\* SQLExecute executes what SQLPrepare prepared (stmt_execute).
THEOREM PreparedSound == Spec => []PreparedIsExecuted
  <1>1. IInv => PreparedIsExecuted
    BY DEF IInv
  <1> QED BY <1>1, Invariance, PTL

\* The statements of a text reach the server in their order, each once, whichever
\* of them fail and wherever (_stmt_get_next_sql, stmt_more_results).
THEOREM BatchSound == Spec => []BatchInOrder
  <1>1. Init => BatchKept
    BY DEF Init, BatchKept, Underway
  <1>2. IInv /\ BatchKept /\ [Next]_vars => BatchKept'
    <2> SUFFICES ASSUME IInv, BatchKept, [Next]_vars
                 PROVE  BatchKept'
      OBVIOUS
    <2>1. CASE \E text \in Texts, how \in Failures : SQLExecDirect(text, how)
      BY <2>1, ExecDirectKeeps
    <2>2. CASE \E how \in Failures : SQLMoreResults(how)
      BY <2>2, MoreResultsKeeps
    <2>3. CASE SQLBindParameter \/ SQL_RESET_PARAMS \/ SQLNumParams
      BY <2>3, QuietKeeps
    <2>4. CASE UNCHANGED vars
      BY <2>4, RunningPrimed DEF vars, BatchKept, Underway
    <2> QED BY <2>1, <2>2, <2>3, <2>4, OtherKeeps DEF Next
  <1>3. BatchKept => BatchInOrder
    BY DEF BatchKept, Underway, Ordered, BatchInOrder
  <1> QED BY <1>1, <1>2, <1>3, Invariance, PTL DEF Spec

-----------------------------------------------------------------------------
(***************************************************************************)
(* Catalog and Wild.  The provers take no induction over data from the     *)
(* library, and do not know that a literal is a STRING: sets of naturals   *)
(* take the place of the first, Glyph of the second.                       *)
(***************************************************************************)
(* Naturals.                                                               *)

\* A set of naturals that is not empty has a least member.
LEMMA Least ==
  ASSUME NEW C \in SUBSET Nat, C # {}
  PROVE  \E n \in C : \A m \in C : n <= m
  <1> DEFINE R == OpToRel(<, Nat)
  <1>1. IsWellFoundedOn(R, Nat)
    BY NatLessThanWellFounded
  <1>2. \A x, y \in Nat : <<x, y>> \in R <=> x < y
    BY DEF OpToRel
  <1> HIDE DEF R
  <1>3. PICK x \in C : \A y \in C : ~(<<y, x>> \in R)
    BY <1>1, WFMin
  <1>4. \A y \in C : y \in Nat
    OBVIOUS
  <1>5. \A y \in C : ~(y < x)
    BY <1>2, <1>3, <1>4
  <1>6. \A y \in C : x <= y
    BY <1>4, <1>5
  <1> QED BY <1>6

\* Induction: what holds of 0 and is passed on holds of every natural.
LEMMA Induct ==
  ASSUME NEW Ind \in SUBSET Nat, 0 \in Ind, \A n \in Ind : n + 1 \in Ind
  PROVE  Ind = Nat
  <1> DEFINE C == Nat \ Ind
  <1> SUFFICES ASSUME C # {} PROVE FALSE
    OBVIOUS
  <1>1. PICK n \in C : \A m \in C : n <= m
    BY Least
  <1>2. n \in Nat /\ n # 0
    OBVIOUS
  <1>3. n - 1 \in Nat /\ ~(n <= n - 1)
    BY <1>2
  <1>4. n - 1 \in Ind
    BY <1>1, <1>3
  <1>5. (n - 1) + 1 = n
    BY <1>2
  <1>6. n \in Ind
    BY <1>4, <1>5
  <1> QED BY <1>6

\* The greatest member of a bounded set of naturals.
LEMMA Greatest ==
  ASSUME NEW n \in Nat, NEW C \in SUBSET (0..n), C # {}
  PROVE  Max(C) \in C /\ \A m \in C : m <= Max(C)
  <1> DEFINE U == {k \in Nat : \A m \in C : m <= k}
  <1>0. \A m \in C : m \in Nat /\ m <= n
    OBVIOUS
  <1>1. n \in U
    BY <1>0
  <1>2. PICK k \in U : \A j \in U : k <= j
    BY <1>1, Least
  <1>3. k \in C
    <2> SUFFICES ASSUME k \notin C PROVE FALSE
      OBVIOUS
    <2>1. PICK m \in C : TRUE
      OBVIOUS
    <2>2. k \in Nat /\ m <= k /\ m # k /\ m \in Nat
      BY <1>0
    <2>3. k - 1 \in Nat /\ ~(k <= k - 1)
      BY <2>2
    <2>4. \A j \in C : j <= k - 1
      <3> SUFFICES ASSUME NEW j \in C PROVE j <= k - 1
        OBVIOUS
      <3>1. j \in Nat /\ j <= k /\ j # k
        BY <1>0
      <3> QED BY <2>2, <3>1
    <2>5. k - 1 \in U
      BY <2>3, <2>4
    <2> QED BY <1>2, <2>3, <2>5
  <1>4. \A m \in C : k >= m
    BY <1>0, <1>2
  <1>5. \E x \in C : \A m \in C : x >= m
    BY <1>3, <1>4
  <1>6. Max(C) \in C /\ \A m \in C : Max(C) >= m
    BY <1>5 DEF Max
  <1> QED BY <1>0, <1>6

LEMMA MaxOfUpTo ==
  ASSUME NEW k \in Nat, NEW s \in SUBSET (1..(k + 1)), k + 1 \in s
  PROVE  Max(s) = k + 1
  <1>1. s \in SUBSET (0..(k + 1)) /\ s # {}
    OBVIOUS
  <1>2. Max(s) \in s /\ \A m \in s : m <= Max(s)
    <2>1. k + 1 \in Nat
      OBVIOUS
    <2> QED BY <1>1, <2>1, Greatest
  <1>3. Max(s) \in 1..(k + 1) /\ k + 1 <= Max(s)
    BY <1>2
  <1> QED BY <1>3

-----------------------------------------------------------------------------
(* Flattened sequences.                                                    *)

\* f[i] is the first i members of s, one behind the other.
Chain(f, s, Elem) ==
  /\ f \in [0..Len(s) -> Seq(Elem)] /\ f[0] = <<>>
  /\ \A i \in 1..Len(s) : f[i] = f[i - 1] \o s[i]

LEMMA ChainExists ==
  ASSUME NEW Elem, NEW s \in Seq(Seq(Elem))
  PROVE  \E f : Chain(f, s, Elem)
  <1> DEFINE Good(f, k) == /\ f \in [0..k -> Seq(Elem)] /\ f[0] = <<>>
                           /\ \A i \in 1..k : f[i] = f[i - 1] \o s[i]
             Ind == {k \in Nat : k <= Len(s) => \E f : Good(f, k)}
  <1>1. 0 \in Ind
    <2>1. Good([i \in 0..0 |-> <<>>], 0)
      OBVIOUS
    <2> QED BY <2>1
  <1>2. ASSUME NEW k \in Nat, k + 1 <= Len(s), NEW f, Good(f, k) PROVE \E g : Good(g, k + 1)
    <2>1. s[k + 1] \in Seq(Elem) /\ k \in 0..k /\ f[k] \in Seq(Elem)
      BY <1>2
    <2> DEFINE g == [i \in 0..(k + 1) |-> IF i = k + 1 THEN f[k] \o s[k + 1] ELSE f[i]]
    <2>2. \A i \in 0..k : g[i] = f[i]
      OBVIOUS
    <2>3. g[k + 1] = f[k] \o s[k + 1]
      <3>1. k + 1 \in 0..(k + 1)
        OBVIOUS
      <3> QED BY <3>1
    <2>4. g \in [0..(k + 1) -> Seq(Elem)]
      BY <1>2, <2>1
    <2> HIDE DEF g
    <2>5. ASSUME NEW i \in 1..(k + 1) PROVE g[i] = g[i - 1] \o s[i]
      <3>1. i - 1 \in 0..k /\ g[i - 1] = f[i - 1]
        BY <2>2
      <3>2. CASE i = k + 1
        <4>1. i - 1 = k
          BY <3>2
        <4> QED BY <2>3, <3>1, <3>2, <4>1
      <3>3. CASE i # k + 1
        <4>1. i \in 1..k /\ i \in 0..k
          BY <3>3
        <4>2. f[i] = f[i - 1] \o s[i]
          BY <1>2, <4>1
        <4> QED BY <2>2, <3>1, <4>1, <4>2
      <3> QED BY <3>2, <3>3
    <2>6. g[0] = <<>>
      BY <1>2, <2>2
    <2>7. Good(g, k + 1)
      BY <2>4, <2>5, <2>6
    <2> QED BY <2>7
  <1> HIDE DEF Good
  <1>3. ASSUME NEW k \in Ind PROVE k + 1 \in Ind
    BY <1>2
  <1>4. Ind \subseteq Nat
    OBVIOUS
  <1>5. Len(s) \in Ind
    <2> HIDE DEF Ind
    <2>1. Ind = Nat
      BY <1>1, <1>3, <1>4, Induct
    <2> QED BY <2>1
  <1>6. PICK f : Good(f, Len(s))
    BY <1>5
  <1>7. Chain(f, s, Elem)
    BY <1>6 DEF Chain, Good
  <1> QED BY <1>7

\* FlattenSeq is the end of the chain.
LEMMA FlattenChain ==
  ASSUME NEW Elem, NEW s \in Seq(Seq(Elem)), NEW f, Chain(f, s, Elem)
  PROVE  FlattenSeq(s) = f[Len(s)]
  <1>1. CASE Len(s) = 0
    <2>1. s = <<>>
      BY <1>1
    <2> QED BY <1>1, <2>1 DEF Chain, FlattenSeq
  <1>2. CASE Len(s) # 0
    <2> DEFINE n == Len(s)
               Eq(g) == g = [i \in 1..n |-> IF i = 1 THEN s[i] ELSE g[i - 1] \o s[i]]
               flat == CHOOSE g : Eq(g)
    <2>1. n \in Nat \ {0}
      BY <1>2
    <2>2. FlattenSeq(s) = flat[n]
      BY <1>2 DEF FlattenSeq
    <2>3. Eq([i \in 1..n |-> f[i]])
      <3> DEFINE h == [i \in 1..n |-> f[i]]
      <3>1. ASSUME NEW i \in 1..n PROVE f[i] = IF i = 1 THEN s[i] ELSE h[i - 1] \o s[i]
        <4>1. f[i] = f[i - 1] \o s[i] /\ s[i] \in Seq(Elem)
          BY DEF Chain
        <4>2. CASE i = 1
          <5>1. f[1 - 1] = <<>> /\ \A q \in Seq(Elem) : <<>> \o q = q
            BY DEF Chain
          <5> QED BY <4>1, <4>2, <5>1
        <4>3. CASE i # 1
          <5>1. i - 1 \in 1..n
            BY <4>3
          <5> QED BY <4>1, <4>3, <5>1
        <4> QED BY <4>2, <4>3
      <3> QED BY <3>1
    <2>4. Eq(flat)
      <3> HIDE DEF Eq
      <3> QED BY <2>3
    <2> HIDE DEF flat
    <2>5. \A i \in 1..n : flat[i] = IF i = 1 THEN s[i] ELSE flat[i - 1] \o s[i]
      BY <2>4
    <2> DEFINE Ind == {k \in Nat : k + 1 <= n => flat[k + 1] = f[k + 1]}
    <2>6. 0 \in Ind
      <3>0. 1 \in 1..n /\ 1 - 1 = 0
        BY <2>1
      <3>1. f[1] = f[1 - 1] \o s[1] /\ f[1 - 1] = <<>>
        BY <3>0 DEF Chain
      <3>4. s[1] \in Seq(Elem)
        BY <3>0
      <3>2. \A q \in Seq(Elem) : <<>> \o q = q
        OBVIOUS
      <3>3. flat[1] = s[1]
        BY <2>1, <2>5
      <3> QED BY <3>1, <3>2, <3>3, <3>4
    <2>7. ASSUME NEW k \in Ind PROVE k + 1 \in Ind
      <3> SUFFICES ASSUME k + 1 + 1 <= n PROVE flat[k + 1 + 1] = f[k + 1 + 1]
        OBVIOUS
      <3>1. k \in Nat /\ k + 1 <= n /\ k + 1 + 1 \in 1..n /\ k + 1 + 1 # 1 /\ (k + 1 + 1) - 1 = k + 1
        BY <2>1
      <3>2. flat[k + 1] = f[k + 1]
        BY <3>1
      <3>3. flat[k + 1 + 1] = flat[k + 1] \o s[k + 1 + 1]
        BY <2>5, <3>1
      <3>4. f[k + 1 + 1] = f[k + 1] \o s[k + 1 + 1]
        BY <3>1 DEF Chain
      <3> QED BY <3>2, <3>3, <3>4
    <2>8. Ind = Nat
      <3> HIDE DEF Ind
      <3>1. Ind \subseteq Nat
        BY DEF Ind
      <3> QED BY <2>6, <2>7, <3>1, Induct
    <2>9. n - 1 \in Nat /\ (n - 1) + 1 = n
      BY <2>1
    <2>10. n - 1 \in Ind
      BY <2>8, <2>9
    <2>11. flat[(n - 1) + 1] = f[(n - 1) + 1]
      BY <2>9, <2>10
    <2> QED BY <2>2, <2>9, <2>11
  <1> QED BY <1>1, <1>2

LEMMA FlattenType ==
  ASSUME NEW Elem, NEW s \in Seq(Seq(Elem))
  PROVE  FlattenSeq(s) \in Seq(Elem)
  <1>1. PICK f : Chain(f, s, Elem)
    BY ChainExists
  <1>2. FlattenSeq(s) = f[Len(s)]
    BY <1>1, FlattenChain
  <1>3. f \in [0..Len(s) -> Seq(Elem)] /\ Len(s) \in 0..Len(s)
    BY <1>1 DEF Chain
  <1> QED BY <1>2, <1>3

LEMMA FlattenEmpty == FlattenSeq(<<>>) = <<>>
  BY DEF FlattenSeq

\* One more member adds its own members at the end.
LEMMA FlattenAppend ==
  ASSUME NEW Elem, NEW s \in Seq(Seq(Elem)), NEW e \in Seq(Elem)
  PROVE  FlattenSeq(Append(s, e)) = FlattenSeq(s) \o e
  <1>1. PICK f : Chain(f, s, Elem)
    BY ChainExists
  <1> DEFINE n == Len(s)
             t == Append(s, e)
             g == [i \in 0..(n + 1) |-> IF i = n + 1 THEN f[n] \o e ELSE f[i]]
  <1>2. n \in Nat /\ t \in Seq(Seq(Elem)) /\ Len(t) = n + 1 /\ t[n + 1] = e /\ \A i \in 1..n : t[i] = s[i]
    OBVIOUS
  <1>3. f \in [0..n -> Seq(Elem)] /\ f[0] = <<>> /\ n \in 0..n /\ n + 1 \in 0..(n + 1)
    BY <1>1, <1>2 DEF Chain
  <1>4. f[n] \o e \in Seq(Elem)
    <2>1. f[n] \in Seq(Elem)
      BY <1>3
    <2> HIDE DEF n
    <2> QED BY <2>1
  <1>5. g[n + 1] = f[n] \o e /\ \A i \in 0..n : g[i] = f[i]
    BY <1>2, <1>3
  <1>6. g \in [0..(n + 1) -> Seq(Elem)]
    BY <1>3, <1>4
  <1> HIDE DEF g, t
  <1>7. ASSUME NEW i \in 1..(n + 1) PROVE g[i] = g[i - 1] \o t[i]
    <2>1. i - 1 \in 0..n /\ g[i - 1] = f[i - 1]
      BY <1>2, <1>5
    <2>2. CASE i = n + 1
      <3>1. i - 1 = n
        BY <1>2, <2>2
      <3> QED BY <1>2, <1>5, <2>1, <2>2, <3>1
    <2>3. CASE i # n + 1
      <3>1. i \in 1..n /\ i \in 0..n
        BY <1>2, <2>3
      <3>2. f[i] = f[i - 1] \o s[i]
        BY <1>1, <3>1 DEF Chain
      <3> QED BY <1>2, <1>5, <2>1, <3>1, <3>2
    <2> QED BY <2>2, <2>3
  <1>8. Chain(g, t, Elem)
    BY <1>2, <1>3, <1>5, <1>6, <1>7 DEF Chain
  <1>9. FlattenSeq(t) = g[n + 1]
    BY <1>2, <1>8, FlattenChain
  <1>10. FlattenSeq(s) = f[n]
    BY <1>1, FlattenChain
  <1> QED BY <1>5, <1>9, <1>10 DEF t


LEMMA FlattenConcat ==
  ASSUME NEW Elem, NEW s \in Seq(Seq(Elem)), NEW t \in Seq(Seq(Elem))
  PROVE  FlattenSeq(s \o t) = FlattenSeq(s) \o FlattenSeq(t)
  <1> DEFINE P(u) == FlattenSeq(s \o u) = FlattenSeq(s) \o FlattenSeq(u)
             Ind == {k \in Nat : \A u \in Seq(Seq(Elem)) : Len(u) = k => P(u)}
  <1>1. 0 \in Ind
    <2> SUFFICES ASSUME NEW u \in Seq(Seq(Elem)), Len(u) = 0 PROVE P(u)
      OBVIOUS
    <2>1. u = <<>>
      OBVIOUS
    <2>2. s \o u = s /\ FlattenSeq(u) = <<>>
      BY <2>1, FlattenEmpty
    <2>3. FlattenSeq(s) \in Seq(Elem)
      BY FlattenType
    <2>4. FlattenSeq(s) \o <<>> = FlattenSeq(s)
      BY <2>3
    <2> QED BY <2>2, <2>4
  <1>2. ASSUME NEW k \in Ind PROVE k + 1 \in Ind
    <2> SUFFICES ASSUME NEW u \in Seq(Seq(Elem)), Len(u) = k + 1 PROVE P(u)
      OBVIOUS
    <2> DEFINE v == SubSeq(u, 1, k)
               e == u[k + 1]
    <2>1. k \in Nat
      OBVIOUS
    <2>2. v \in Seq(Seq(Elem)) /\ e \in Seq(Elem) /\ Len(v) = k /\ u = Append(v, e)
      BY <2>1
    <2>3. P(v)
      BY <2>2
    <2> HIDE DEF v, e
    <2>4. s \o u = Append(s \o v, e) /\ s \o v \in Seq(Seq(Elem))
      BY <2>2
    <2>5. FlattenSeq(Append(s \o v, e)) = FlattenSeq(s \o v) \o e
      BY <2>2, <2>4, FlattenAppend
    <2>6. FlattenSeq(u) = FlattenSeq(v) \o e
      BY <2>2, FlattenAppend
    <2>7. FlattenSeq(s) \in Seq(Elem) /\ FlattenSeq(v) \in Seq(Elem)
      BY <2>2, FlattenType
    <2>8. (FlattenSeq(s) \o FlattenSeq(v)) \o e = FlattenSeq(s) \o (FlattenSeq(v) \o e)
      <3> DEFINE a == FlattenSeq(s)
                 b == FlattenSeq(v)
      <3> HIDE DEF P, Ind, a, b
      <3>1. a \in Seq(Elem) /\ b \in Seq(Elem) /\ e \in Seq(Elem)
        BY <2>2, <2>7 DEF a, b
      <3>2. (a \o b) \o e = a \o (b \o e)
        BY <3>1, ConcatAssociative
      <3> QED BY <3>2 DEF a, b
    <2> QED BY <2>3, <2>4, <2>5, <2>6, <2>8
  <1>3. Ind \subseteq Nat
    OBVIOUS
  <1>4. Len(t) \in Ind
    <2> HIDE DEF Ind
    <2>1. Ind = Nat
      BY <1>1, <1>2, <1>3, Induct
    <2> QED BY <2>1
  <1> QED BY <1>4

-----------------------------------------------------------------------------
(* The three folds over texts: a pattern compiled, a pattern matched as    *)
(* ODBC means it, a list of table types.                                   *)

OneMore(way, c, ch) ==
  CASE way[1] = "comp"  -> Compile(c, ch)
    [] way[1] = "like"  -> Onward(way[2], c, ch)
    [] way[1] = "types" -> _tables_add_table_type(c, ch)

\* g[s] is what the characters at the places s make of from, from the greatest of a set of places.
Folds(way, from, text, Ind, g) ==
  g = [s \in SUBSET Ind |-> IF s = {} THEN from ELSE OneMore(way, g[s \ {Max(s)}], text[Max(s)])]

LEMMA FoldExists ==
  ASSUME NEW way, NEW from, NEW text, NEW n \in Nat
  PROVE  \E g : Folds(way, from, text, 1..n, g)
  <1> DEFINE Ind == {k \in Nat : \E g : Folds(way, from, text, 1..k, g)}
  <1>1. 0 \in Ind
    <2> DEFINE g == [s \in SUBSET (1..0) |-> from]
    <2>1. g = [s \in SUBSET (1..0) |-> IF s = {} THEN from ELSE OneMore(way, g[s \ {Max(s)}], text[Max(s)])]
      OBVIOUS
    <2> HIDE DEF g
    <2>2. Folds(way, from, text, 1..0, g)
      BY <2>1 DEF Folds
    <2> QED BY <2>2
  <1>2. ASSUME NEW k \in Nat, NEW f, Folds(way, from, text, 1..k, f) PROVE \E g : Folds(way, from, text, 1..(k + 1), g)
    <2> DEFINE T == 1..(k + 1)
               g == [s \in SUBSET T |-> IF k + 1 \in s THEN OneMore(way, f[s \ {k + 1}], text[k + 1]) ELSE f[s]]
    <2>1. f = [s \in SUBSET (1..k) |-> IF s = {} THEN from ELSE OneMore(way, f[s \ {Max(s)}], text[Max(s)])]
      BY <1>2 DEF Folds
    <2>2. ASSUME NEW s \in SUBSET T
          PROVE  g[s] = IF s = {} THEN from ELSE OneMore(way, g[s \ {Max(s)}], text[Max(s)])
      <3>1. CASE k + 1 \in s
        <4>1. Max(s) = k + 1 /\ s # {} /\ s \ {k + 1} \in SUBSET T /\ k + 1 \notin s \ {k + 1}
          BY <3>1, MaxOfUpTo
        <4>2. g[s \ {k + 1}] = f[s \ {k + 1}]
          BY <4>1
        <4>3. g[s] = OneMore(way, f[s \ {k + 1}], text[k + 1])
          BY <3>1
        <4> QED BY <4>1, <4>2, <4>3
      <3>2. CASE k + 1 \notin s
        <4>1. \A j \in s : j \in 1..k
          <5> TAKE j \in s
          <5>1. j \in 1..(k + 1) /\ j # k + 1
            BY <3>2
          <5> QED BY <5>1
        <4>2. s \in SUBSET (1..k) /\ s \ {Max(s)} \in SUBSET T /\ k + 1 \notin s \ {Max(s)}
          BY <3>2, <4>1
        <4>3. g[s] = f[s] /\ g[s \ {Max(s)}] = f[s \ {Max(s)}]
          BY <3>2, <4>2
        <4>4. f[s] = IF s = {} THEN from ELSE OneMore(way, f[s \ {Max(s)}], text[Max(s)])
          BY <2>1, <4>2
        <4> QED BY <4>3, <4>4
      <3> QED BY <3>1, <3>2
    <2>3. g = [s \in SUBSET T |-> g[s]]
      OBVIOUS
    <2> HIDE DEF g
    <2>4. g = [s \in SUBSET T |-> IF s = {} THEN from ELSE OneMore(way, g[s \ {Max(s)}], text[Max(s)])]
      BY <2>2, <2>3
    <2>5. Folds(way, from, text, T, g)
      BY <2>4 DEF Folds
    <2> QED BY <2>5
  <1>3. ASSUME NEW k \in Ind PROVE k + 1 \in Ind
    BY <1>2
  <1>4. Ind \subseteq Nat
    OBVIOUS
  <1> HIDE DEF Ind
  <1>5. n \in Ind
    BY <1>1, <1>3, <1>4, Induct
  <1> QED BY <1>5 DEF Ind

\* f[k] is what the first k characters make of from.
Read(way, from, text, f) ==
  /\ f[0] = from
  /\ \A k \in Nat : k + 1 <= Len(text) => f[k + 1] = OneMore(way, f[k], text[k + 1])

LEMMA FoldReads ==
  ASSUME NEW way, NEW from, NEW Elem, NEW text \in Seq(Elem), NEW h, Folds(way, from, text, DOMAIN text, h)
  PROVE  \E f : Read(way, from, text, f) /\ h[DOMAIN text] = f[Len(text)]
  <1> DEFINE n == Len(text)
             f == [k \in 0..n |-> h[1..k]]
  <1>1. n \in Nat /\ DOMAIN text = 1..n
    BY LenProperties
  <1>2. h = [s \in SUBSET (1..n) |-> IF s = {} THEN from ELSE OneMore(way, h[s \ {Max(s)}], text[Max(s)])]
    BY <1>1 DEF Folds
  <1> HIDE DEF n
  <1>3. f[0] = from
    <2>1. 0 \in 0..n /\ 1..0 = {}
      BY <1>1
    <2> QED BY <1>2, <2>1
  <1>4. ASSUME NEW k \in Nat, k + 1 <= n PROVE f[k + 1] = OneMore(way, f[k], text[k + 1])
    <2> DEFINE s == 1..(k + 1)
    <2>1. \A j \in s : j \in 1..n
      BY <1>1, <1>4
    <2>2. s \in SUBSET (1..n) /\ k + 1 \in s /\ s # {}
      <3>1. k + 1 \in s
        OBVIOUS
      <3> QED BY <2>1, <3>1
    <2>3. Max(s) = k + 1 /\ s \ {k + 1} = 1..k
      BY <2>2, MaxOfUpTo
    <2>4. h[s] = OneMore(way, h[s \ {Max(s)}], text[Max(s)])
      <3> HIDE DEF s
      <3> QED BY <1>2, <2>2
    <2>5. f[k + 1] = h[s] /\ f[k] = h[1..k]
      BY <1>1, <1>4
    <2> QED BY <2>3, <2>4, <2>5
  <1>5. f[n] = h[1..n]
    BY <1>1
  <1> HIDE DEF f
  <1>6. Read(way, from, text, f)
    BY <1>3, <1>4 DEF Read, n
  <1> QED BY <1>1, <1>5, <1>6 DEF n

Compiled(ex, f) ==
  /\ f[0] = [nodes |-> <<>>, prev |-> "none", escaping |-> FALSE, lit |-> <<>>, bad |-> FALSE]
  /\ \A k \in Nat : k + 1 <= Len(ex) => f[k + 1] = Compile(f[k], ex[k + 1])

LEMMA CompiledOneByOne ==
  ASSUME NEW Elem, NEW ex \in Seq(Elem)
  PROVE  \E f : Compiled(ex, f) /\ _wild_comp(ex) = Flush(f[Len(ex)])
  <1> DEFINE from == [nodes |-> <<>>, prev |-> "none", escaping |-> FALSE, lit |-> <<>>, bad |-> FALSE]
             way == <<"comp">>
             Is(g) == g = [s \in SUBSET DOMAIN ex |-> IF s = {} THEN from ELSE Compile(g[s \ {Max(s)}], ex[Max(s)])]
             h == CHOOSE g : Is(g)
  <1>1. FoldLeft(Compile, from, ex) = h[DOMAIN ex]
    BY DEF FoldLeft, MapThenFoldSet
  <1>2. _wild_comp(ex) = Flush(FoldLeft(Compile, from, ex))
    BY DEF _wild_comp
  <1>3. \A c, ch : OneMore(way, c, ch) = Compile(c, ch)
    BY DEF OneMore
  <1> HIDE DEF from, way
  <1>4. \A g : Folds(way, from, ex, DOMAIN ex, g) <=> Is(g)
    BY <1>3 DEF Folds
  <1>5. Len(ex) \in Nat /\ DOMAIN ex = 1..Len(ex)
    BY LenProperties
  <1>6. \E g : Is(g)
    <2> HIDE DEF Is
    <2>1. \E g : Folds(way, from, ex, DOMAIN ex, g)
      BY <1>5, FoldExists
    <2> QED BY <1>4, <2>1
  <1>7. Folds(way, from, ex, DOMAIN ex, h)
    <2> HIDE DEF Is
    <2> QED BY <1>4, <1>6
  <1> HIDE DEF h
  <1>8. PICK f : Read(way, from, ex, f) /\ h[DOMAIN ex] = f[Len(ex)]
    BY <1>7, FoldReads
  <1>9. Compiled(ex, f)
    BY <1>3, <1>8 DEF Read, Compiled, from
  <1> QED BY <1>1, <1>2, <1>8, <1>9

Alike(ex, str, f) ==
  /\ f[0] = [at |-> {0}, escaped |-> FALSE]
  /\ \A k \in Nat : k + 1 <= Len(ex) => f[k + 1] = Onward(str, f[k], ex[k + 1])

LEMMA LikeOneByOne ==
  ASSUME NEW Elem, NEW ex \in Seq(Elem), NEW str
  PROVE  \E f : Alike(ex, str, f) /\ (Like(ex, str) <=> Len(str) \in f[Len(ex)].at /\ ~f[Len(ex)].escaped)
  <1> DEFINE from == [at |-> {0}, escaped |-> FALSE]
             way == <<"like", str>>
             Is(g) == g = [s \in SUBSET DOMAIN ex |-> IF s = {} THEN from ELSE Onward(str, g[s \ {Max(s)}], ex[Max(s)])]
             h == CHOOSE g : Is(g)
             c == h[DOMAIN ex]
  <1>1. Like(ex, str) <=> Len(str) \in c.at /\ ~c.escaped
    BY DEF Like, FoldLeft, MapThenFoldSet
  <1>3. \A d, ch : OneMore(way, d, ch) = Onward(str, d, ch)
    BY DEF OneMore
  <1> HIDE DEF from, way
  <1>4. \A g : Folds(way, from, ex, DOMAIN ex, g) <=> Is(g)
    BY <1>3 DEF Folds
  <1>5. Len(ex) \in Nat /\ DOMAIN ex = 1..Len(ex)
    BY LenProperties
  <1>6. \E g : Is(g)
    <2> HIDE DEF Is
    <2>1. \E g : Folds(way, from, ex, DOMAIN ex, g)
      BY <1>5, FoldExists
    <2> QED BY <1>4, <2>1
  <1>7. Folds(way, from, ex, DOMAIN ex, h)
    <2> HIDE DEF Is
    <2> QED BY <1>4, <1>6
  <1> HIDE DEF h
  <1>8. PICK f : Read(way, from, ex, f) /\ h[DOMAIN ex] = f[Len(ex)]
    BY <1>7, FoldReads
  <1>9. Alike(ex, str, f)
    BY <1>3, <1>8 DEF Read, Alike, from
  <1> QED BY <1>1, <1>8, <1>9

Parsed(text, f) ==
  /\ f[0] = <<<<>>>>
  /\ \A k \in Nat : k + 1 <= Len(text) => f[k + 1] = _tables_add_table_type(f[k], text[k + 1])

LEMMA ParsedOneByOne ==
  ASSUME NEW Elem, NEW text \in Seq(Elem)
  PROVE  \E f : Parsed(text, f) /\ _tables_parse_table_type(text) = Range(f[Len(text)]) \ {<<>>}
  <1> DEFINE from == <<<<>>>>
             way == <<"types">>
             Is(g) == g = [s \in SUBSET DOMAIN text |->
                             IF s = {} THEN from ELSE _tables_add_table_type(g[s \ {Max(s)}], text[Max(s)])]
             h == CHOOSE g : Is(g)
  <1>1. FoldLeft(_tables_add_table_type, from, text) = h[DOMAIN text]
    BY DEF FoldLeft, MapThenFoldSet
  <1>2. _tables_parse_table_type(text) = Range(FoldLeft(_tables_add_table_type, from, text)) \ {<<>>}
    BY DEF _tables_parse_table_type
  <1>3. \A c, ch : OneMore(way, c, ch) = _tables_add_table_type(c, ch)
    BY DEF OneMore
  <1> HIDE DEF from, way
  <1>4. \A g : Folds(way, from, text, DOMAIN text, g) <=> Is(g)
    BY <1>3 DEF Folds
  <1>5. Len(text) \in Nat /\ DOMAIN text = 1..Len(text)
    BY LenProperties
  <1>6. \E g : Is(g)
    <2> HIDE DEF Is
    <2>1. \E g : Folds(way, from, text, DOMAIN text, g)
      BY <1>5, FoldExists
    <2> QED BY <1>4, <2>1
  <1>7. Folds(way, from, text, DOMAIN text, h)
    <2> HIDE DEF Is
    <2> QED BY <1>4, <1>6
  <1> HIDE DEF h
  <1>8. PICK f : Read(way, from, text, f) /\ h[DOMAIN text] = f[Len(text)]
    BY <1>7, FoldReads
  <1>9. Parsed(text, f)
    BY <1>3, <1>8 DEF Read, Parsed, from
  <1> QED BY <1>1, <1>2, <1>8, <1>9

-----------------------------------------------------------------------------
(* A pattern, compiled and run, against what it means.                     *)

\* The characters; the provers know of no string that it is one.
Glyph == STRING \cup {"\\", "%", "_"}
LEMMA Glyphs == "\\" \in Glyph /\ "%" \in Glyph /\ "_" \in Glyph
  BY DEF Glyph

Nodes == [match : {"all", "one", "specific"}, base : Seq(Glyph), nr : Nat]
Proper(node) ==
  CASE node.match = "one"      -> node.nr >= 1
    [] node.match = "specific" -> node.nr >= 1 /\ node.nr = Len(node.base)
    [] OTHER                   -> TRUE

\* The places of str behind lit, and behind a node, that begin at one of P.
Following(str, P, lit) ==
  {q \in 0..Len(str) : \E p \in P : q = p + Len(lit) /\ SubSeq(str, p + 1, p + Len(lit)) = lit}
BehindNode(str, P, node) ==
  CASE node.match = "all" -> {q \in 0..Len(str) : \E p \in P : p <= q}
    [] node.match = "one" -> {q \in 0..Len(str) : \E p \in P : q = p + node.nr}
    [] OTHER              -> {q \in 0..Len(str) : \E p \in P : /\ q = p + node.nr
                                                              /\ SubSeq(str, p + 1, p + node.nr) = node.base}

\* R[m] is where the first m nodes may end.
Runs(str, nodes, R) ==
  /\ R \in [0..Len(nodes) -> SUBSET (0..Len(str))] /\ R[0] = {0}
  /\ \A m \in 1..Len(nodes) : R[m] = BehindNode(str, R[m - 1], nodes[m])
Reaches(str, nodes, P) == \E R : Runs(str, nodes, R) /\ R[Len(nodes)] = P

LEMMA PlacesBehind ==
  ASSUME NEW str, NEW P, NEW node
  PROVE  BehindNode(str, P, node) \in SUBSET (0..Len(str))
  BY DEF BehindNode

LEMMA ReachesPlaces ==
  ASSUME NEW str \in Seq(Glyph), NEW nodes \in Seq(Nodes), NEW P, Reaches(str, nodes, P)
  PROVE  P \in SUBSET (0..Len(str))
  <1>1. PICK R : Runs(str, nodes, R) /\ R[Len(nodes)] = P
    BY DEF Reaches
  <1>2. Len(nodes) \in 0..Len(nodes)
    OBVIOUS
  <1> QED BY <1>1, <1>2 DEF Runs

LEMMA ReachesNone ==
  ASSUME NEW str \in Seq(Glyph)
  PROVE  Reaches(str, <<>>, {0})
  <1> DEFINE R == [m \in 0..0 |-> {0}]
  <1>1. Len(<<>>) = 0 /\ 1..0 = {} /\ 0 \in 0..Len(str)
    OBVIOUS
  <1>2. R \in [0..0 -> SUBSET (0..Len(str))] /\ R[0] = {0}
    BY <1>1
  <1>3. Runs(str, <<>>, R) /\ R[Len(<<>>)] = {0}
    BY <1>1, <1>2 DEF Runs
  <1> QED BY <1>3 DEF Reaches

LEMMA ReachesMore ==
  ASSUME NEW str \in Seq(Glyph), NEW nodes \in Seq(Nodes), NEW node \in Nodes, NEW P, Reaches(str, nodes, P)
  PROVE  Reaches(str, Append(nodes, node), BehindNode(str, P, node))
  <1>1. PICK R : Runs(str, nodes, R) /\ R[Len(nodes)] = P
    BY DEF Reaches
  <1> DEFINE n == Len(nodes)
             more == Append(nodes, node)
             Q == BehindNode(str, P, node)
             Ind == [m \in 0..(n + 1) |-> IF m = n + 1 THEN Q ELSE R[m]]
  <1>2. n \in Nat /\ more \in Seq(Nodes) /\ Len(more) = n + 1 /\ more[n + 1] = node /\ \A m \in 1..n : more[m] = nodes[m]
    OBVIOUS
  <1>3. R \in [0..n -> SUBSET (0..Len(str))] /\ R[0] = {0} /\ \A m \in 1..n : R[m] = BehindNode(str, R[m - 1], nodes[m])
    BY <1>1 DEF Runs
  <1>4. Q \in SUBSET (0..Len(str))
    BY PlacesBehind
  <1> HIDE DEF Q, more, n
  <1>5. Ind \in [0..(n + 1) -> SUBSET (0..Len(str))]
    <2>1. \A m \in 0..(n + 1) : m # n + 1 => m \in 0..n
      BY <1>2
    <2> QED BY <1>3, <1>4, <2>1
  <1>6. Ind[n + 1] = Q /\ \A m \in 0..n : Ind[m] = R[m]
    BY <1>2
  <1> HIDE DEF Ind
  <1>7. ASSUME NEW m \in 1..(n + 1) PROVE Ind[m] = BehindNode(str, Ind[m - 1], more[m])
    <2>1. m - 1 \in 0..n /\ Ind[m - 1] = R[m - 1]
      BY <1>2, <1>6
    <2>2. CASE m = n + 1
      <3>1. m - 1 = n /\ R[n] = P
        BY <1>1, <1>2, <2>2 DEF n
      <3> QED BY <1>2, <1>6, <2>1, <2>2, <3>1 DEF Q
    <2>3. CASE m # n + 1
      <3>1. m \in 1..n /\ m \in 0..n
        BY <1>2, <2>3
      <3> QED BY <1>2, <1>3, <1>6, <2>1, <3>1
    <2> QED BY <2>2, <2>3
  <1>8. Ind[0] = {0}
    BY <1>2, <1>3, <1>6
  <1>9. Runs(str, more, Ind) /\ Ind[Len(more)] = Q
    BY <1>2, <1>5, <1>6, <1>7, <1>8 DEF Runs
  <1> QED BY <1>9 DEF Reaches, more, Q

LEMMA ReachesLess ==
  ASSUME NEW str \in Seq(Glyph), NEW nodes \in Seq(Nodes), NEW node \in Nodes, NEW Q,
         Reaches(str, Append(nodes, node), Q)
  PROVE  \E P : Reaches(str, nodes, P) /\ Q = BehindNode(str, P, node)
  <1> DEFINE n == Len(nodes)
             more == Append(nodes, node)
  <1>1. PICK Ind : Runs(str, more, Ind) /\ Ind[Len(more)] = Q
    BY DEF Reaches
  <1>2. n \in Nat /\ more \in Seq(Nodes) /\ Len(more) = n + 1 /\ more[n + 1] = node /\ \A m \in 1..n : more[m] = nodes[m]
    OBVIOUS
  <1> HIDE DEF more, n
  <1>3. /\ Ind \in [0..(n + 1) -> SUBSET (0..Len(str))] /\ Ind[0] = {0}
        /\ \A m \in 1..(n + 1) : Ind[m] = BehindNode(str, Ind[m - 1], more[m])
    BY <1>1, <1>2 DEF Runs
  <1> DEFINE R == [m \in 0..n |-> Ind[m]]
  <1>4. R \in [0..n -> SUBSET (0..Len(str))]
    <2>1. \A m \in 0..n : m \in 0..(n + 1)
      BY <1>2
    <2> QED BY <1>3, <2>1
  <1>5. \A m \in 0..n : R[m] = Ind[m]
    OBVIOUS
  <1> HIDE DEF R
  <1>6. ASSUME NEW m \in 1..n PROVE R[m] = BehindNode(str, R[m - 1], nodes[m])
    <2>1. m - 1 \in 0..n /\ m \in 0..n /\ m \in 1..(n + 1)
      BY <1>2
    <2> QED BY <1>2, <1>3, <1>5, <2>1
  <1>7. R[0] = {0} /\ R[n] = Ind[n]
    <2>1. 0 \in 0..n /\ n \in 0..n
      BY <1>2
    <2> QED BY <1>3, <1>5, <2>1
  <1>8. Reaches(str, nodes, Ind[n])
    BY <1>4, <1>6, <1>7 DEF Runs, Reaches, n
  <1>9. n + 1 \in 1..(n + 1) /\ (n + 1) - 1 = n
    BY <1>2
  <1> QED BY <1>1, <1>2, <1>3, <1>8, <1>9

\* Plain characters, one more at a time.
LEMMA BehindNothing ==
  ASSUME NEW str \in Seq(Glyph), NEW P \in SUBSET (0..Len(str))
  PROVE  Following(str, P, <<>>) = P
  <1>1. Len(<<>>) = 0 /\ \A p \in P : p \in Nat /\ p <= Len(str) /\ p + 0 = p
    OBVIOUS
  <1>2. \A p \in P : SubSeq(str, p + 1, p + 0) = <<>>
    BY <1>1
  <1> QED BY <1>1, <1>2 DEF Following

\* lit stands in str behind p with ch behind it, if and only if lit and ch do.
OneLonger(str, lit, ch, p) ==
  SubSeq(str, p + 1, p + (Len(lit) + 1)) = Append(lit, ch)
    <=> SubSeq(str, p + 1, p + Len(lit)) = lit /\ str[p + Len(lit) + 1] = ch

LEMMA SubSeqMore ==
  ASSUME NEW Elem, NEW str \in Seq(Elem), NEW lit \in Seq(Elem), NEW ch \in Elem, NEW p \in Nat, p + Len(lit) + 1 <= Len(str)
  PROVE  OneLonger(str, lit, ch, p)
  <1> DEFINE n == Len(lit)
             s == SubSeq(str, p + 1, p + n)
             t == SubSeq(str, p + 1, p + (n + 1))
             more == Append(lit, ch)
  <1>1. n \in Nat /\ Len(more) = n + 1 /\ more[n + 1] = ch /\ more \in Seq(Elem) /\ \A k \in 1..n : more[k] = lit[k]
    BY AppendProperties, LenProperties
  <1>2. p + 1 \in Nat /\ p + n \in Nat /\ p + (n + 1) = p + n + 1 /\ p + n + 1 \in 1..Len(str) /\ Len(str) \in Nat
    BY <1>1, LenProperties
  <1>3. t = Append(s, str[p + n + 1]) /\ s \in Seq(Elem) /\ str[p + n + 1] \in Elem
    <2>1. str[p + n + 1] \in Elem
      BY <1>2, ElementOfSeq
    <2>2. s \in Seq(Elem)
      <3>1. \A i \in (p + 1)..(p + n) : i \in 1..Len(str)
        BY <1>2
      <3>2. \A i \in (p + 1)..(p + n) : str[i] \in Elem
        BY <3>1, ElementOfSeq
      <3> HIDE DEF n
      <3> QED BY <1>2, <3>2, SubSeqProperties
    <2>3. t = s \o <<str[p + n + 1]>>
      <3>0. CASE n = 0
        <4>1. p + 1 \in 1..Len(str)
          BY <1>2, <3>0
        <4>2. s = <<>>
          BY <1>2, <3>0, SubSeqEmpty
        <4>3. t = <<str[p + 1]>>
          <5>1. SubSeq(str, p + 1, p + 1) = <<str[p + 1]>> \o SubSeq(str, p + 1 + 1, p + 1)
            BY <4>1, SubSeqRecursiveFirst
          <5>2. SubSeq(str, p + 1 + 1, p + 1) = <<>>
            BY <1>2, SubSeqEmpty
          <5>3. <<str[p + 1]>> \in Seq(Elem)
            BY <2>1, <3>0
          <5>4. <<str[p + 1]>> \o <<>> = <<str[p + 1]>>
            BY <5>3, ConcatEmptySeq
          <5>5. p + (n + 1) = p + 1
            BY <1>2, <3>0
          <5> QED BY <5>1, <5>2, <5>4, <5>5
        <4>4. <<str[p + n + 1]>> \in Seq(Elem)
          BY <2>1
        <4>5. <<>> \o <<str[p + n + 1]>> = <<str[p + n + 1]>>
          BY <4>4, ConcatEmptySeq
        <4>6. p + n + 1 = p + 1
          BY <1>2, <3>0
        <4> QED BY <4>2, <4>3, <4>5, <4>6
      <3>1. CASE n # 0
        <4>1. p + 1 \in 1..Len(str) /\ p + (n + 1) \in (p + 1)..Len(str) /\ (p + (n + 1)) - 1 = p + n
          BY <1>1, <1>2
        <4>2. SubSeq(str, p + 1, p + (n + 1)) = SubSeq(str, p + 1, (p + (n + 1)) - 1) \o <<str[p + (n + 1)]>>
          <5> HIDE DEF n
          <5> QED BY <4>1, SubSeqRecursiveSecond
        <4> QED BY <1>2, <4>1, <4>2
      <3> QED BY <3>0, <3>1
    <2> HIDE DEF s, n
    <2> QED BY <2>1, <2>2, <2>3, AppendIsConcat
  <1>4. Append(s, str[p + n + 1]) = Append(lit, ch) <=> s = lit /\ str[p + n + 1] = ch
    <2> HIDE DEF s, n
    <2> QED BY <1>3, AppendInjective
  <1> QED BY <1>3, <1>4 DEF OneLonger

\* The places of str one character ch behind those of at.
Onto(str, at, ch) == {q \in 1..Len(str) : q - 1 \in at /\ str[q] = ch}
FurtherBy(str, P, lit, ch) == Following(str, P, Append(lit, ch)) = Onto(str, Following(str, P, lit), ch)

LEMMA OntoPlaces ==
  ASSUME NEW str, NEW at, NEW ch, Len(str) \in Nat
  PROVE  Onto(str, at, ch) \in SUBSET (0..Len(str)) /\ Onto(str, at, ch) \in SUBSET Nat
  BY DEF Onto

LEMMA BehindMore ==
  ASSUME NEW Elem, NEW str \in Seq(Elem), NEW P \in SUBSET (0..Len(str)), NEW lit \in Seq(Elem), NEW ch \in Elem
  PROVE  FurtherBy(str, P, lit, ch)
  <1> DEFINE n == Len(lit)
             more == Append(lit, ch)
             A == Following(str, P, more)
             Found == {q \in 1..Len(str) : q - 1 \in Following(str, P, lit) /\ str[q] = ch}
  <1>1. n \in Nat /\ Len(more) = n + 1 /\ Len(str) \in Nat
    BY AppendProperties, LenProperties
  <1>2. ASSUME NEW p \in P, p + n + 1 <= Len(str)
        PROVE  SubSeq(str, p + 1, p + Len(more)) = more <=> SubSeq(str, p + 1, p + n) = lit /\ str[p + n + 1] = ch
    <2>1. p \in Nat
      OBVIOUS
    <2>2. SubSeq(str, p + 1, p + (n + 1)) = more <=> SubSeq(str, p + 1, p + n) = lit /\ str[p + n + 1] = ch
      <3>1. p + Len(lit) + 1 <= Len(str)
        BY <1>2
      <3>2. OneLonger(str, lit, ch, p)
        BY <2>1, <3>1, SubSeqMore
      <3> QED BY <3>2 DEF OneLonger
    <2> QED BY <1>1, <2>2
  <1> HIDE DEF more, n
  <1>3. ASSUME NEW q \in A PROVE q \in Found
    <2>1. PICK p \in P : q = p + Len(more) /\ SubSeq(str, p + 1, p + Len(more)) = more /\ q \in 0..Len(str)
      BY DEF Following
    <2>2. p \in Nat /\ q = p + n + 1 /\ q \in 1..Len(str) /\ p + n + 1 <= Len(str) /\ q - 1 = p + n /\ q - 1 \in 0..Len(str)
      BY <1>1, <2>1
    <2>3. SubSeq(str, p + 1, p + n) = lit /\ str[q] = ch
      BY <1>2, <2>1, <2>2
    <2>4. q - 1 \in Following(str, P, lit)
      BY <2>2, <2>3 DEF Following, n
    <2> QED BY <2>2, <2>3, <2>4
  <1>4. ASSUME NEW q \in Found PROVE q \in A
    <2>1. PICK p \in P : q - 1 = p + n /\ SubSeq(str, p + 1, p + n) = lit
      BY DEF Following, n
    <2>2. p \in Nat /\ q \in 1..Len(str) /\ q = p + n + 1 /\ p + n + 1 <= Len(str) /\ q \in 0..Len(str) /\ q = p + Len(more)
      BY <1>1, <2>1
    <2>3. SubSeq(str, p + 1, p + Len(more)) = more
      BY <1>2, <2>1, <2>2
    <2> QED BY <2>2, <2>3 DEF Following
  <1>5. A = Found
    BY <1>3, <1>4
  <1> QED BY <1>5 DEF more, FurtherBy, Onto

-----------------------------------------------------------------------------
(* What a pattern is compiled to, and how far that reaches in a name.      *)

Compiling == [nodes : Seq(Nodes), prev : {"none", "all", "one"}, escaping : BOOLEAN, lit : Seq(Glyph), bad : BOOLEAN]

\* Nodes that make sense, and no two that match anything side by side.
Shape(nodes) ==
  \A m \in 1..Len(nodes) :
    /\ Proper(nodes[m])
    /\ (m + 1 <= Len(nodes) /\ nodes[m].match = "all") => nodes[m + 1].match # "all"

LEMMA OneChar ==
  ASSUME NEW ch \in Glyph
  PROVE  <<ch>> \in Seq(Glyph)
  <1>1. <<ch>> = Append(<<>>, ch) /\ <<>> \in Seq(Glyph)
    OBVIOUS
  <1> QED BY <1>1, AppendProperties

LEMMA ShapeNone == Shape(<<>>)
  BY DEF Shape

LEMMA ShapeMore ==
  ASSUME NEW nodes \in Seq(Nodes), NEW node \in Nodes, Shape(nodes), Proper(node),
         (nodes # <<>> /\ Last(nodes).match = "all") => node.match # "all"
  PROVE  Shape(Append(nodes, node))
  <1> DEFINE more == Append(nodes, node)
             n == Len(nodes)
  <1>1. /\ n \in Nat /\ Len(more) = n + 1 /\ more[n + 1] = node /\ \A m \in 1..n : more[m] = nodes[m]
        /\ n # 0 => nodes # <<>> /\ Last(nodes) = nodes[n]
    BY DEF Last
  <1>2. ASSUME NEW m \in 1..(n + 1)
        PROVE  /\ Proper(more[m])
               /\ (m + 1 <= n + 1 /\ more[m].match = "all") => more[m + 1].match # "all"
    <2>1. CASE m = n + 1
      BY <1>1, <2>1
    <2>2. CASE m # n + 1
      <3>1. m \in 1..n /\ more[m] = nodes[m] /\ n # 0
        BY <1>1, <2>2
      <3>2. CASE m = n
        <4>1. Proper(nodes[m]) /\ (nodes[m].match = "all" => node.match # "all")
          BY <1>1, <3>1, <3>2 DEF Shape
        <4> QED BY <1>1, <3>1, <3>2, <4>1
      <3>3. CASE m # n
        <4>1. m + 1 \in 1..n
          BY <1>1, <3>1, <3>3
        <4>2. Proper(nodes[m]) /\ (nodes[m].match = "all" => nodes[m + 1].match # "all")
          BY <3>1, <4>1 DEF Shape
        <4> QED BY <1>1, <3>1, <4>1, <4>2
      <3> QED BY <3>2, <3>3
    <2> QED BY <2>1, <2>2
  <1> HIDE DEF more
  <1> QED BY <1>1, <1>2 DEF Shape, more

LEMMA ShapeLess ==
  ASSUME NEW nodes \in Seq(Nodes), NEW node \in Nodes, Shape(Append(nodes, node))
  PROVE  Shape(nodes) /\ Proper(node)
  <1> DEFINE more == Append(nodes, node)
             n == Len(nodes)
  <1>1. n \in Nat /\ Len(more) = n + 1 /\ more[n + 1] = node /\ \A m \in 1..n : more[m] = nodes[m]
    OBVIOUS
  <1> HIDE DEF more
  <1>2. \A m \in 1..(n + 1) : /\ Proper(more[m])
                              /\ (m + 1 <= n + 1 /\ more[m].match = "all") => more[m + 1].match # "all"
    BY <1>1 DEF Shape, more
  <1>3. Proper(node)
    <2>1. n + 1 \in 1..(n + 1)
      BY <1>1
    <2> QED BY <1>1, <1>2, <2>1
  <1>4. ASSUME NEW m \in 1..n
        PROVE  /\ Proper(nodes[m])
               /\ (m + 1 <= n /\ nodes[m].match = "all") => nodes[m + 1].match # "all"
    <2>1. m \in 1..(n + 1) /\ (m + 1 <= n => m + 1 \in 1..n /\ m + 1 <= n + 1)
      BY <1>1
    <2> QED BY <1>1, <1>2, <2>1
  <1> QED BY <1>3, <1>4 DEF Shape

LEMMA SpecificIs ==
  ASSUME NEW chars \in Seq(Glyph)
  PROVE  /\ Specific(chars) \in Nodes /\ Specific(chars).match = "specific"
         /\ Specific(chars).nr = Len(chars) /\ Specific(chars).base = chars
         /\ chars # <<>> => Proper(Specific(chars))
  <1>1. Len(chars) \in Nat /\ (chars # <<>> => Len(chars) >= 1)
    BY EmptySeq, LenProperties
  <1> QED BY <1>1 DEF Specific, Nodes, Proper

LEMMA NodesAre ==
  /\ All \in Nodes /\ All.match = "all" /\ Proper(All)
  /\ One \in Nodes /\ One.match = "one" /\ One.nr = 1 /\ Proper(One)
  <1>1. All \in Nodes /\ All.match = "all" /\ Proper(All)
    BY DEF All, Nodes, Proper
  <1>2. One \in Nodes /\ One.match = "one" /\ One.nr = 1 /\ Proper(One)
    BY DEF One, Nodes, Proper
  <1> QED BY <1>1, <1>2

Flushed(c) == IF c.lit = <<>> THEN c.nodes ELSE Append(c.nodes, Specific(c.lit))

LEMMA FlushIs ==
  ASSUME NEW c \in Compiling
  PROVE  /\ Flush(c) \in Compiling /\ Flush(c).nodes = Flushed(c) /\ Flush(c).lit = <<>>
         /\ Flush(c).prev = c.prev /\ Flush(c).escaping = c.escaping /\ Flush(c).bad = c.bad
         /\ Flushed(c) \in Seq(Nodes)
  <1>1. Flushed(c) \in Seq(Nodes)
    <2>1. c.nodes \in Seq(Nodes) /\ c.lit \in Seq(Glyph)
      BY DEF Compiling
    <2>2. Specific(c.lit) \in Nodes
      BY <2>1, SpecificIs
    <2> QED BY <2>1, <2>2 DEF Flushed
  <1>2. Flush(c) = [c EXCEPT !.nodes = Flushed(c), !.lit = <<>>]
    <2>1. CASE c.lit = <<>>
      BY <2>1 DEF Flush, Flushed, Compiling
    <2>2. CASE c.lit # <<>>
      BY <2>2 DEF Flush, Flushed, _wild_append, Compiling
    <2> QED BY <2>1, <2>2
  <1>3. <<>> \in Seq(Glyph)
    OBVIOUS
  <1> HIDE DEF Flushed, Flush
  <1> QED BY <1>1, <1>2, <1>3 DEF Compiling

\* What one more character does to what is compiled so far, kind by kind.
Compiles(c, ch, d) ==
  /\ c.bad => d.bad
  /\ ch = "\\" => /\ d \in Compiling /\ d.nodes = Flushed(c) /\ d.lit = <<>> /\ d.prev = c.prev
                  /\ d.escaping /\ d.bad = (c.bad \/ c.escaping)
  /\ (ch \in {"%", "_"} /\ c.escaping) =>
       /\ d \in Compiling /\ d.nodes = Append(c.nodes, Specific(<<ch>>)) /\ d.lit = c.lit /\ d.prev = "none"
       /\ ~d.escaping /\ d.bad = c.bad
  /\ (ch = "%" /\ ~c.escaping) =>
       \/ c.prev = "all" /\ d = c
       \/ /\ c.prev # "all" /\ d \in Compiling /\ d.nodes = Append(Flushed(c), All) /\ d.lit = <<>>
          /\ d.prev = "all" /\ ~d.escaping /\ d.bad = c.bad
  /\ (ch = "_" /\ ~c.escaping /\ c.prev # "one") =>
       /\ d \in Compiling /\ d.nodes = Append(Flushed(c), One) /\ d.lit = <<>>
       /\ d.prev = "one" /\ ~d.escaping /\ d.bad = c.bad
  /\ (ch = "_" /\ ~c.escaping /\ c.prev = "one") =>
       d = [c EXCEPT !.nodes[Len(c.nodes)].nr = @ + 1]
  /\ ch \notin {"\\", "%", "_"} =>
       /\ d \in Compiling /\ d.nodes = c.nodes /\ d.lit = Append(c.lit, ch) /\ d.prev = "none"
       /\ d.escaping = c.escaping /\ d.bad = (c.bad \/ c.escaping)

LEMMA CompileIs ==
  ASSUME NEW c \in Compiling, NEW ch \in Glyph
  PROVE  Compiles(c, ch, Compile(c, ch))
  <1> DEFINE d == Compile(c, ch)
             f == Flush(c)
  <1>0. /\ f \in Compiling /\ f.nodes = Flushed(c) /\ f.lit = <<>> /\ f.prev = c.prev /\ f.escaping = c.escaping
        /\ f.bad = c.bad /\ Flushed(c) \in Seq(Nodes) /\ c.bad \in BOOLEAN /\ c.escaping \in BOOLEAN
    BY FlushIs DEF Compiling
  <1>1. ch = "\\" => /\ d \in Compiling /\ d.nodes = Flushed(c) /\ d.lit = <<>> /\ d.prev = c.prev
                     /\ d.escaping /\ d.bad = (c.bad \/ c.escaping)
    <2> SUFFICES ASSUME ch = "\\" PROVE /\ d \in Compiling /\ d.nodes = Flushed(c) /\ d.lit = <<>> /\ d.prev = c.prev
                                        /\ d.escaping /\ d.bad = (c.bad \/ c.escaping)
      OBVIOUS
    <2>1. d = [f EXCEPT !.bad = @ \/ c.escaping, !.escaping = TRUE]
      BY DEF Compile
    <2> HIDE DEF d, f
    <2> QED BY <1>0, <2>1 DEF Compiling
  <1>2. ASSUME ch \in {"%", "_"}, c.escaping
        PROVE  /\ d \in Compiling /\ d.nodes = Append(c.nodes, Specific(<<ch>>)) /\ d.lit = c.lit /\ d.prev = "none"
               /\ ~d.escaping /\ d.bad = c.bad
    <2>1. d = [[c EXCEPT !.nodes = Append(@, Specific(<<ch>>))] EXCEPT !.prev = "none", !.escaping = FALSE]
      BY <1>2 DEF Compile, Escaped, _wild_append
    <2>2. Specific(<<ch>>) \in Nodes
      <3>1. <<ch>> \in Seq(Glyph)
        BY OneChar
      <3> QED BY <3>1, SpecificIs
    <2> DEFINE s == Specific(<<ch>>)
    <2> HIDE DEF d, s
    <2>3. Append(c.nodes, s) \in Seq(Nodes)
      BY <2>2 DEF Compiling, s
    <2>4. d = [[c EXCEPT !.nodes = Append(@, s)] EXCEPT !.prev = "none", !.escaping = FALSE]
      BY <2>1 DEF s
    <2>5. /\ d \in Compiling /\ d.nodes = Append(c.nodes, s) /\ d.lit = c.lit /\ d.prev = "none"
          /\ ~d.escaping /\ d.bad = c.bad
      BY <2>3, <2>4 DEF Compiling
    <2> QED BY <2>5 DEF s
  <1>3. ASSUME ch = "%", ~c.escaping
        PROVE  \/ c.prev = "all" /\ d = c
               \/ /\ c.prev # "all" /\ d \in Compiling /\ d.nodes = Append(Flushed(c), All) /\ d.lit = <<>>
                  /\ d.prev = "all" /\ ~d.escaping /\ d.bad = c.bad
    <2>1. CASE c.prev = "all"
      BY <1>3, <2>1 DEF Compile
    <2>2. CASE c.prev # "all"
      <3>1. d = [[f EXCEPT !.nodes = Append(@, All)] EXCEPT !.prev = "all"]
        BY <1>3, <2>2 DEF Compile, _wild_append
      <3>2. Append(Flushed(c), All) \in Seq(Nodes)
        BY <1>0, NodesAre
      <3> DEFINE s == All
      <3>3. d = [[f EXCEPT !.nodes = Append(@, s)] EXCEPT !.prev = "all"] /\ Append(Flushed(c), s) \in Seq(Nodes)
        BY <3>1, <3>2
      <3> HIDE DEF d, f, s
      <3>4. /\ d \in Compiling /\ d.nodes = Append(Flushed(c), s) /\ d.lit = <<>>
            /\ d.prev = "all" /\ ~d.escaping /\ d.bad = c.bad
        BY <1>0, <1>3, <3>3 DEF Compiling
      <3> QED BY <2>2, <3>4 DEF s
    <2> QED BY <2>1, <2>2
  <1>4. ASSUME ch = "_", ~c.escaping, c.prev # "one"
        PROVE  /\ d \in Compiling /\ d.nodes = Append(Flushed(c), One) /\ d.lit = <<>>
               /\ d.prev = "one" /\ ~d.escaping /\ d.bad = c.bad
    <2>1. d = [[f EXCEPT !.nodes = Append(@, One)] EXCEPT !.prev = "one"]
      BY <1>4 DEF Compile, _wild_append
    <2> DEFINE s == One
    <2>2. d = [[f EXCEPT !.nodes = Append(@, s)] EXCEPT !.prev = "one"] /\ Append(Flushed(c), s) \in Seq(Nodes)
      BY <1>0, <2>1, NodesAre
    <2> HIDE DEF d, f, s
    <2>3. /\ d \in Compiling /\ d.nodes = Append(Flushed(c), s) /\ d.lit = <<>>
          /\ d.prev = "one" /\ ~d.escaping /\ d.bad = c.bad
      BY <1>0, <1>4, <2>2 DEF Compiling
    <2> QED BY <2>3 DEF s
  <1>5. ASSUME ch = "_", ~c.escaping, c.prev = "one" PROVE d = [c EXCEPT !.nodes[Len(c.nodes)].nr = @ + 1]
    BY <1>5 DEF Compile
  <1>6. ASSUME ch \notin {"\\", "%", "_"}
        PROVE  /\ d \in Compiling /\ d.nodes = c.nodes /\ d.lit = Append(c.lit, ch) /\ d.prev = "none"
               /\ d.escaping = c.escaping /\ d.bad = (c.bad \/ c.escaping)
    <2>1. d = [c EXCEPT !.bad = @ \/ c.escaping, !.lit = Append(@, ch), !.prev = "none"]
      BY <1>6 DEF Compile
    <2>2. Append(c.lit, ch) \in Seq(Glyph)
      BY DEF Compiling
    <2> HIDE DEF d
    <2> QED BY <1>0, <2>1, <2>2 DEF Compiling
  <1>7. c.bad => d.bad
    <2>1. (ch = "_" /\ ~c.escaping /\ c.prev = "one") => d.bad = c.bad
      <3> SUFFICES ASSUME ch = "_", ~c.escaping, c.prev = "one" PROVE d.bad = c.bad
        OBVIOUS
      <3>1. d = [c EXCEPT !.nodes[Len(c.nodes)].nr = @ + 1]
        BY <1>5
      <3> HIDE DEF d
      <3> QED BY <3>1 DEF Compiling
    <2> HIDE DEF d
    <2> QED BY <1>0, <1>1, <1>2, <1>3, <1>4, <1>6, <2>1
  <1> HIDE DEF d
  <1>8. Compiles(c, ch, d)
    BY <1>1, <1>2, <1>3, <1>4, <1>5, <1>6, <1>7 DEF Compiles
  <1> QED BY <1>8 DEF d

Reach == [at : SUBSET Nat, escaped : BOOLEAN]
\* The pattern read so far, compiled (c) and as ODBC means it (a), reaches the same places of str.
Simulates(str, c, a) ==
  /\ c \in Compiling /\ a.at \in SUBSET (0..Len(str)) /\ a \in Reach
  /\ a.escaped = c.escaping /\ (c.escaping => c.lit = <<>>)
  /\ Shape(c.nodes)
  /\ \E P : Reaches(str, c.nodes, P) /\ a.at = Following(str, P, c.lit)
  /\ c.prev # "none" => c.lit = <<>> /\ c.nodes # <<>> /\ Last(c.nodes).match = c.prev
  /\ (c.lit = <<>> /\ c.nodes # <<>> /\ Last(c.nodes).match = "all") => c.prev = "all"

OneAtEnd(seq, x) ==
  /\ Append(seq, x) = [m \in 1..(Len(seq) + 1) |-> Append(seq, x)[m]]
  /\ Append(seq, x)[Len(seq) + 1] = x /\ \A m \in 1..Len(seq) : Append(seq, x)[m] = seq[m]

LEMMA OneAppended ==
  ASSUME NEW Elem, NEW seq \in Seq(Elem), NEW x \in Elem
  PROVE  Append(seq, x) # <<>> /\ OneAtEnd(seq, x)
  <1>1. Append(seq, x) # <<>>
    BY AppendProperties
  <1>2. Append(seq, x) \in Seq(Elem) /\ Len(Append(seq, x)) = Len(seq) + 1 /\ Len(seq) \in Nat
    BY AppendProperties, LenProperties
  <1>3. Append(seq, x) = [m \in 1..(Len(seq) + 1) |-> Append(seq, x)[m]]
    BY <1>2, LenProperties
  <1>4. Append(seq, x)[Len(seq) + 1] = x /\ \A m \in 1..Len(seq) : Append(seq, x)[m] = seq[m]
    BY AppendProperties
  <1> QED BY <1>1, <1>3, <1>4 DEF OneAtEnd

LEMMA LastAppended ==
  ASSUME NEW nodes \in Seq(Nodes), NEW node \in Nodes
  PROVE  Append(nodes, node) # <<>> /\ Last(Append(nodes, node)) = node /\ Append(nodes, node) \in Seq(Nodes)
  BY DEF Last

LEMMA BehindSpecific ==
  ASSUME NEW str, NEW P, NEW lit \in Seq(Glyph)
  PROVE  BehindNode(str, P, Specific(lit)) = Following(str, P, lit)
  <1>1. Specific(lit).match = "specific" /\ Specific(lit).nr = Len(lit) /\ Specific(lit).base = lit
    BY DEF Specific
  <1> DEFINE s == Specific(lit)
  <1> HIDE DEF s
  <1>2. s.match = "specific" /\ s.nr = Len(lit) /\ s.base = lit
    BY <1>1 DEF s
  <1>3. BehindNode(str, P, s) = Following(str, P, lit)
    BY <1>2 DEF BehindNode, Following
  <1> QED BY <1>3 DEF s

LEMMA FlushReaches ==
  ASSUME NEW str \in Seq(Glyph), NEW c, NEW a, Simulates(str, c, a)
  PROVE  /\ Reaches(str, Flushed(c), a.at) /\ Shape(Flushed(c)) /\ Flushed(c) \in Seq(Nodes)
         /\ (Flushed(c) # <<>> /\ Last(Flushed(c)).match = "all") => c.prev = "all" /\ c.lit = <<>>
  <1>1. PICK P : Reaches(str, c.nodes, P) /\ a.at = Following(str, P, c.lit)
    BY DEF Simulates
  <1>2. c.nodes \in Seq(Nodes) /\ c.lit \in Seq(Glyph) /\ Shape(c.nodes)
    BY DEF Simulates, Compiling
  <1>3. P \in SUBSET (0..Len(str))
    BY <1>1, <1>2, ReachesPlaces
  <1>4. CASE c.lit = <<>>
    <2>1. a.at = P
      BY <1>1, <1>3, <1>4, BehindNothing
    <2> QED BY <1>1, <1>2, <1>4, <2>1 DEF Flushed, Simulates
  <1>5. CASE c.lit # <<>>
    <2>1. /\ Specific(c.lit) \in Nodes /\ Specific(c.lit).match = "specific" /\ Proper(Specific(c.lit))
      BY <1>2, <1>5, SpecificIs
    <2>2. Flushed(c) = Append(c.nodes, Specific(c.lit))
      BY <1>5 DEF Flushed
    <2>3. Reaches(str, Flushed(c), BehindNode(str, P, Specific(c.lit)))
      BY <1>1, <1>2, <2>1, <2>2, ReachesMore
    <2>4. BehindNode(str, P, Specific(c.lit)) = a.at
      BY <1>1, <1>2, BehindSpecific
    <2>5. Shape(Flushed(c))
      BY <1>2, <2>1, <2>2, ShapeMore
    <2>6. Last(Flushed(c)).match = "specific" /\ Flushed(c) \in Seq(Nodes)
      BY <1>2, <2>1, <2>2, LastAppended
    <2> QED BY <2>3, <2>4, <2>5, <2>6
  <1> QED BY <1>4, <1>5

LEMMA NoneOnward ==
  ASSUME NEW str \in Seq(Glyph), NEW P, P \in SUBSET (0..Len(str)), NEW ch \in Glyph
  PROVE  Following(str, P, <<ch>>) = Onto(str, P, ch)
  <1>1. Append(<<>>, ch) = <<ch>> /\ <<>> \in Seq(Glyph)
    OBVIOUS
  <1>2. Following(str, P, <<>>) = P
    BY BehindNothing
  <1>3. FurtherBy(str, P, <<>>, ch)
    BY <1>1, BehindMore
  <1> QED BY <1>1, <1>2, <1>3 DEF FurtherBy

LEMMA EscapeSimulates ==
  ASSUME NEW str \in Seq(Glyph), NEW c, NEW a, Simulates(str, c, a), ~Compile(c, "\\").bad
  PROVE  Simulates(str, Compile(c, "\\"), Onward(str, a, "\\"))
  <1> DEFINE d == Compile(c, "\\")
             e == Onward(str, a, "\\")
  <1>1. c \in Compiling
    BY DEF Simulates
  <1>2. /\ d \in Compiling /\ d.nodes = Flushed(c) /\ d.lit = <<>> /\ d.prev = c.prev
        /\ d.escaping /\ ~c.escaping
    <2>1. Compiles(c, "\\", d)
      <3>1. "\\" \in Glyph
        BY Glyphs
      <3> QED BY <1>1, <3>1, CompileIs
    <2>2. ~d.bad
      OBVIOUS
    <2> HIDE DEF d
    <2> QED BY <2>1, <2>2 DEF Compiles, Compiling
  <1>3. e = [a EXCEPT !.escaped = TRUE] /\ a.at \in SUBSET (0..Len(str)) /\ a \in Reach
    BY <1>2 DEF Onward, Simulates
  <1> HIDE DEF d, e
  <1>4. e.at = a.at /\ e.escaped = TRUE /\ e \in Reach
    BY <1>3 DEF Reach
  <1>5. Reaches(str, d.nodes, e.at) /\ e.at = Following(str, e.at, d.lit) /\ Shape(d.nodes)
    <2>1. a.at = Following(str, a.at, <<>>)
      BY <1>3, BehindNothing
    <2> QED BY <1>2, <1>4, <2>1, FlushReaches
  <1>6. d.escaping = TRUE
    BY <1>2 DEF Compiling
  <1>7. d.prev # "none" => d.lit = <<>> /\ d.nodes # <<>> /\ Last(d.nodes).match = d.prev
    BY <1>2 DEF Simulates, Flushed
  <1>8. (d.nodes # <<>> /\ Last(d.nodes).match = "all") => d.prev = "all"
    BY <1>2, FlushReaches
  <1> QED BY <1>2, <1>3, <1>4, <1>5, <1>6, <1>7, <1>8 DEF Simulates, d, e

LEMMA EscapedSimulates ==
  ASSUME NEW str \in Seq(Glyph), NEW c, NEW a, Simulates(str, c, a), NEW ch \in {"%", "_"}, c.escaping
  PROVE  Simulates(str, Compile(c, ch), Onward(str, a, ch))
  <1> DEFINE d == Compile(c, ch)
             e == Onward(str, a, ch)
             same == Onto(str, a.at, ch)
             s == Specific(<<ch>>)
  <1>1. c \in Compiling /\ ch \in Glyph /\ c.lit = <<>> /\ c.nodes \in Seq(Nodes)
    <2>1. c \in Compiling /\ (c.escaping => c.lit = <<>>)
      BY DEF Simulates
    <2>2. ch \in Glyph
      BY Glyphs
    <2>3. c.nodes \in Seq(Nodes)
      BY <2>1 DEF Compiling
    <2> QED BY <2>1, <2>2, <2>3
  <1>2. d \in Compiling /\ d.nodes = Append(c.nodes, s) /\ d.lit = <<>> /\ d.prev = "none" /\ ~d.escaping
    <2>1. Compiles(c, ch, d)
      BY <1>1, CompileIs
    <2> HIDE DEF d
    <2> QED BY <1>1, <2>1 DEF Compiles
  <1>3. e = [at |-> same, escaped |-> FALSE] /\ a.at \in SUBSET (0..Len(str))
    <2>1. a.escaped /\ a.at \in SUBSET (0..Len(str))
      BY DEF Simulates
    <2> QED BY <2>1 DEF Onward, Onto
  <1>4. s \in Nodes /\ s.match = "specific" /\ Proper(s) /\ <<ch>> \in Seq(Glyph)
    <2>1. <<ch>> \in Seq(Glyph) /\ <<ch>> # <<>>
      BY <1>1, OneChar
    <2> QED BY <2>1, SpecificIs
  <1>5. same \in SUBSET (0..Len(str)) /\ same \in SUBSET Nat
    BY OntoPlaces, LenProperties
  <1>6. Reaches(str, c.nodes, a.at) /\ Shape(c.nodes)
    BY <1>1, FlushReaches DEF Flushed
  <1>7. BehindNode(str, a.at, s) = same
    <2>1. BehindNode(str, a.at, s) = Following(str, a.at, <<ch>>)
      BY <1>4, BehindSpecific
    <2>2. Following(str, a.at, <<ch>>) = same
      BY <1>1, <1>3, NoneOnward
    <2> QED BY <2>1, <2>2
  <1>8. d.escaping = FALSE
    BY <1>2 DEF Compiling
  <1> HIDE DEF d, e, same, s
  <1>9. e.at = same /\ e.escaped = FALSE /\ e \in Reach
    BY <1>3, <1>5 DEF Reach
  <1>10. Reaches(str, d.nodes, same)
    BY <1>1, <1>2, <1>4, <1>6, <1>7, ReachesMore
  <1>11. same = Following(str, same, <<>>)
    BY <1>5, BehindNothing
  <1>12. Shape(d.nodes)
    BY <1>1, <1>2, <1>4, <1>6, ShapeMore
  <1>13. Last(d.nodes).match = "specific"
    BY <1>1, <1>2, <1>4, LastAppended
  <1> QED BY <1>2, <1>5, <1>8, <1>9, <1>10, <1>11, <1>12, <1>13 DEF Simulates, d, e

LEMMA AllSimulates ==
  ASSUME NEW str \in Seq(Glyph), NEW c, NEW a, Simulates(str, c, a), ~c.escaping
  PROVE  Simulates(str, Compile(c, "%"), Onward(str, a, "%"))
  <1> DEFINE d == Compile(c, "%")
             e == Onward(str, a, "%")
             up == {q \in 0..Len(str) : \E p \in a.at : p <= q}
  <1>1. c \in Compiling /\ a.at \in SUBSET (0..Len(str)) /\ a \in Reach /\ a.escaped = c.escaping /\ c.escaping = FALSE
    BY DEF Simulates, Compiling
  <1>2. e = [a EXCEPT !.at = up]
    BY <1>1 DEF Onward
  <1>3. up \in SUBSET (0..Len(str)) /\ up \in SUBSET Nat
    OBVIOUS
  <1>4. BehindNode(str, a.at, All) = up
    BY DEF BehindNode, All
  <1>5. \/ c.prev = "all" /\ d = c
        \/ /\ c.prev # "all" /\ d \in Compiling /\ d.nodes = Append(Flushed(c), All) /\ d.lit = <<>>
           /\ d.prev = "all" /\ ~d.escaping
    <2>1. Compiles(c, "%", d)
      <3>1. "%" \in Glyph
        BY Glyphs
      <3> QED BY <1>1, <3>1, CompileIs
    <2> HIDE DEF d
    <2> QED BY <1>1, <2>1 DEF Compiles
  <1> HIDE DEF d, e
  <1>6. e.at = up /\ e.escaped = FALSE /\ e \in Reach
    BY <1>1, <1>2, <1>3 DEF Reach
  <1>7. CASE c.prev = "all" /\ d = c
    <2>1. c.lit = <<>> /\ c.nodes # <<>> /\ Last(c.nodes).match = "all" /\ c.nodes \in Seq(Nodes)
      BY <1>7 DEF Simulates, Compiling
    <2>2. PICK less \in Seq(Nodes), node \in Nodes : c.nodes = Append(less, node)
      BY <2>1, SequenceEmptyOrAppend
    <2>3. node.match = "all"
      BY <2>1, <2>2, LastAppended
    <2>4. Reaches(str, c.nodes, a.at)
      BY <2>1, FlushReaches DEF Flushed
    <2>5. PICK P : Reaches(str, less, P) /\ a.at = BehindNode(str, P, node)
      BY <2>2, <2>4, ReachesLess
    <2>6. P \in SUBSET (0..Len(str))
      BY <2>5, ReachesPlaces
    <2>7. a.at = {q \in 0..Len(str) : \E p \in P : p <= q}
      BY <2>3, <2>5 DEF BehindNode
    <2>8. up = a.at
      <3>1. ASSUME NEW q \in up PROVE q \in a.at
        <4>1. PICK p \in a.at : p <= q
          OBVIOUS
        <4>2. PICK r \in P : r <= p
          BY <2>7, <4>1
        <4>3. r \in Int /\ p \in Int /\ q \in Int
          BY <1>1, <2>6, <3>1, <4>1, <4>2
        <4>4. r <= q
          BY <4>1, <4>2, <4>3
        <4> QED BY <2>7, <4>2, <4>4
      <3>2. ASSUME NEW q \in a.at PROVE q \in up
        BY <1>1
      <3> HIDE DEF up
      <3> QED BY <3>1, <3>2
    <2>9. e = a
      <3> HIDE DEF up
      <3> QED BY <1>2, <2>8 DEF Reach, Simulates
    <2> QED BY <1>7, <2>9 DEF d, e
  <1>8. CASE c.prev # "all" /\ d \in Compiling /\ d.nodes = Append(Flushed(c), All) /\ d.lit = <<>> /\ d.prev = "all" /\ ~d.escaping
    <2>1. /\ Reaches(str, Flushed(c), a.at) /\ Shape(Flushed(c)) /\ Flushed(c) \in Seq(Nodes)
          /\ (Flushed(c) # <<>> => Last(Flushed(c)).match # "all")
      BY <1>8, FlushReaches
    <2>2. All \in Nodes /\ All.match = "all" /\ Proper(All)
      BY NodesAre
    <2>3. Reaches(str, d.nodes, up)
      BY <1>4, <1>8, <2>1, <2>2, ReachesMore
    <2>4. Shape(d.nodes)
      BY <1>8, <2>1, <2>2, ShapeMore
    <2>5. Last(d.nodes) = All /\ d.nodes # <<>>
      BY <1>8, <2>1, <2>2, LastAppended
    <2>6. up = Following(str, up, <<>>)
      BY <1>3, BehindNothing
    <2>7. d.escaping = FALSE
      BY <1>8 DEF Compiling
    <2> HIDE DEF up
    <2> QED BY <1>3, <1>6, <1>8, <2>2, <2>3, <2>4, <2>5, <2>6, <2>7 DEF Simulates, d, e
  <1> QED BY <1>5, <1>7, <1>8

LEMMA OneSimulates ==
  ASSUME NEW str \in Seq(Glyph), NEW c, NEW a, Simulates(str, c, a), ~c.escaping
  PROVE  Simulates(str, Compile(c, "_"), Onward(str, a, "_"))
  <1> DEFINE d == Compile(c, "_")
             e == Onward(str, a, "_")
             next == {q \in 1..Len(str) : q - 1 \in a.at}
  <1>1. c \in Compiling /\ a.at \in SUBSET (0..Len(str)) /\ a \in Reach /\ a.escaped = c.escaping /\ c.escaping = FALSE
    BY DEF Simulates, Compiling
  <1>2. e = [a EXCEPT !.at = next]
    BY <1>1 DEF Onward
  <1>3. next \in SUBSET (0..Len(str)) /\ next \in SUBSET Nat
    OBVIOUS
  <1>4. next = Following(str, next, <<>>)
    BY <1>3, BehindNothing
  <1>9. Compiles(c, "_", d)
    <2>1. "_" \in Glyph
      BY Glyphs
    <2> QED BY <1>1, <2>1, CompileIs
  <1> HIDE DEF d, e
  <1>5. e.at = next /\ e.escaped = FALSE /\ e \in Reach
    BY <1>1, <1>2, <1>3 DEF Reach
  <1>6. CASE c.prev # "one"
    <2>1. /\ d \in Compiling /\ d.nodes = Append(Flushed(c), One) /\ d.lit = <<>>
          /\ d.prev = "one" /\ ~d.escaping
      BY <1>1, <1>6, <1>9 DEF Compiles
    <2>2. Reaches(str, Flushed(c), a.at) /\ Shape(Flushed(c)) /\ Flushed(c) \in Seq(Nodes)
      BY FlushReaches
    <2>3. One \in Nodes /\ One.match = "one" /\ One.nr = 1 /\ Proper(One)
      BY NodesAre
    <2>4. BehindNode(str, a.at, One) = next
      <3>1. BehindNode(str, a.at, One) = {q \in 0..Len(str) : \E p \in a.at : q = p + 1}
        BY <2>3 DEF BehindNode
      <3>2. \A q \in 0..Len(str) : (\E p \in a.at : q = p + 1) <=> q \in next
        <4> TAKE q \in 0..Len(str)
        <4>1. ASSUME NEW p \in a.at, q = p + 1 PROVE q \in next
          <5>1. p \in Nat /\ q - 1 = p /\ q \in 1..Len(str)
            BY <1>1, <4>1
          <5> QED BY <5>1
        <4>2. ASSUME q \in next PROVE q - 1 \in a.at /\ q = (q - 1) + 1
          BY <4>2
        <4> QED BY <4>1, <4>2
      <3> HIDE DEF next
      <3> QED BY <1>3, <3>1, <3>2
    <2>5. Reaches(str, d.nodes, next)
      BY <2>1, <2>2, <2>3, <2>4, ReachesMore
    <2>6. Shape(d.nodes)
      BY <2>1, <2>2, <2>3, ShapeMore
    <2>7. Last(d.nodes) = One /\ d.nodes # <<>>
      BY <2>1, <2>2, <2>3, LastAppended
    <2>8. d.escaping = FALSE
      BY <2>1 DEF Compiling
    <2> HIDE DEF next
    <2> QED BY <1>3, <1>4, <1>5, <2>1, <2>3, <2>5, <2>6, <2>7, <2>8 DEF Simulates, d, e
  <1>7. CASE c.prev = "one"
    <2>1. c.lit = <<>> /\ c.nodes # <<>> /\ Last(c.nodes).match = "one" /\ c.nodes \in Seq(Nodes)
      BY <1>7 DEF Simulates, Compiling
    <2>2. PICK less \in Seq(Nodes), node \in Nodes : c.nodes = Append(less, node)
      BY <2>1, SequenceEmptyOrAppend
    <2> DEFINE more == [node EXCEPT !.nr = @ + 1]
    <2>3. node.match = "one"
      BY <2>1, <2>2, LastAppended
    <2>4. more \in Nodes /\ more.match = "one" /\ more.nr = node.nr + 1 /\ node.nr \in Nat
      <3>1. node.nr \in Nat /\ node.nr + 1 \in Nat
        BY <2>2 DEF Nodes
      <3>2. more.match = "one" /\ more.nr = node.nr + 1
        BY <2>2, <2>3 DEF Nodes
      <3>3. more \in Nodes
        BY <2>2, <3>1 DEF Nodes
      <3> QED BY <3>1, <3>2, <3>3
    <2>5. d = [c EXCEPT !.nodes[Len(c.nodes)].nr = @ + 1]
      BY <1>1, <1>7, <1>9 DEF Compiles
    <2>6. [c.nodes EXCEPT ![Len(c.nodes)].nr = @ + 1] = Append(less, more)
      <3>1. Len(less) \in Nat /\ Len(c.nodes) = Len(less) + 1 /\ c.nodes[Len(less) + 1] = node /\ DOMAIN c.nodes = 1..(Len(less) + 1)
            /\ \A m \in 1..Len(less) : c.nodes[m] = less[m]
        BY <2>2
      <3> HIDE DEF more
      <3>2. /\ Append(less, more) = [m \in 1..(Len(less) + 1) |-> Append(less, more)[m]]
            /\ Append(less, more)[Len(less) + 1] = more /\ \A m \in 1..Len(less) : Append(less, more)[m] = less[m]
        <4>1. OneAtEnd(less, more)
          BY <2>2, <2>4, OneAppended
        <4> QED BY <4>1 DEF OneAtEnd
      <3> DEFINE f == [c.nodes EXCEPT ![Len(c.nodes)].nr = @ + 1]
      <3>3. f = [m \in 1..(Len(less) + 1) |-> f[m]]
        BY <3>1
      <3>4. f[Len(less) + 1] = more
        <4>1. Len(c.nodes) \in DOMAIN c.nodes
          BY <3>1
        <4> QED BY <3>1, <4>1 DEF more
      <3>5. \A m \in 1..Len(less) : f[m] = less[m]
        <4> TAKE m \in 1..Len(less)
        <4>1. m \in DOMAIN c.nodes /\ m # Len(c.nodes)
          BY <3>1
        <4> QED BY <3>1, <4>1
      <3> HIDE DEF f
      <3>6. \A m \in 1..(Len(less) + 1) : f[m] = Append(less, more)[m]
        <4> TAKE m \in 1..(Len(less) + 1)
        <4>1. m = Len(less) + 1 \/ m \in 1..Len(less)
          BY <3>1
        <4> QED BY <3>2, <3>4, <3>5, <4>1
      <3>7. f = Append(less, more)
        BY <3>2, <3>3, <3>6
      <3> QED BY <3>7 DEF f
    <2>7. Append(less, more) \in Seq(Nodes)
      BY <2>4
    <2> HIDE DEF more
    <2>8. /\ d \in Compiling /\ d.nodes = Append(less, more) /\ d.lit = <<>> /\ d.prev = "one" /\ d.escaping = FALSE
      <3>1. d = [c EXCEPT !.nodes = Append(less, more)]
        BY <2>5, <2>6 DEF Compiling
      <3> QED BY <1>1, <1>7, <2>1, <2>7, <3>1 DEF Compiling
    <2>9. Reaches(str, c.nodes, a.at) /\ Shape(c.nodes)
      BY <2>1, FlushReaches DEF Flushed
    <2>10. PICK P : Reaches(str, less, P) /\ a.at = BehindNode(str, P, node)
      BY <2>2, <2>9, ReachesLess
    <2>11. Shape(less) /\ Proper(node)
      BY <2>2, <2>9, ShapeLess
    <2>12. Proper(more)
      BY <2>3, <2>4, <2>11 DEF Proper
    <2>13. P \in SUBSET (0..Len(str))
      BY <2>10, ReachesPlaces
    <2>14. BehindNode(str, P, more) = next
      <3>1. BehindNode(str, P, more) = {q \in 0..Len(str) : \E p \in P : q = p + (node.nr + 1)}
        BY <2>4 DEF BehindNode
      <3>2. a.at = {q \in 0..Len(str) : \E p \in P : q = p + node.nr}
        BY <2>3, <2>10 DEF BehindNode
      <3>3. \A q \in 0..Len(str) : (\E p \in P : q = p + (node.nr + 1)) <=> q \in next
        <4> TAKE q \in 0..Len(str)
        <4>1. ASSUME NEW p \in P, q = p + (node.nr + 1) PROVE q \in next
          <5>1. p \in Nat /\ q - 1 = p + node.nr /\ q \in 1..Len(str) /\ q - 1 \in 0..Len(str)
            BY <2>4, <2>13, <4>1
          <5> QED BY <3>2, <5>1
        <4>2. ASSUME q \in next PROVE \E p \in P : q = p + (node.nr + 1)
          <5>1. q - 1 \in a.at
            BY <4>2
          <5>2. PICK p \in P : q - 1 = p + node.nr
            BY <3>2, <5>1
          <5>3. p \in Nat /\ q = p + (node.nr + 1)
            BY <2>4, <2>13, <5>2
          <5> QED BY <5>3
        <4> QED BY <4>1, <4>2
      <3> HIDE DEF next
      <3> QED BY <1>3, <3>1, <3>3
    <2>15. Reaches(str, d.nodes, next)
      BY <2>4, <2>8, <2>10, <2>14, ReachesMore
    <2>16. Shape(d.nodes)
      BY <2>4, <2>8, <2>11, <2>12, ShapeMore
    <2>17. Last(d.nodes) = more /\ d.nodes # <<>>
      BY <2>4, <2>8, LastAppended
    <2> HIDE DEF next
    <2> QED BY <1>3, <1>4, <1>5, <2>4, <2>8, <2>15, <2>16, <2>17 DEF Simulates, d, e
  <1> QED BY <1>6, <1>7

LEMMA PlainSimulates ==
  ASSUME NEW str \in Seq(Glyph), NEW c, NEW a, Simulates(str, c, a), NEW ch \in Glyph, ch \notin {"\\", "%", "_"},
         ~Compile(c, ch).bad
  PROVE  Simulates(str, Compile(c, ch), Onward(str, a, ch))
  <1> DEFINE d == Compile(c, ch)
             e == Onward(str, a, ch)
             same == Onto(str, a.at, ch)
  <1>1. c \in Compiling /\ a.at \in SUBSET (0..Len(str)) /\ a \in Reach /\ a.escaped = c.escaping /\ c.lit \in Seq(Glyph)
    BY DEF Simulates, Compiling
  <1>2. /\ d \in Compiling /\ d.nodes = c.nodes /\ d.lit = Append(c.lit, ch) /\ d.prev = "none"
        /\ d.escaping = c.escaping /\ ~c.escaping
    <2>1. Compiles(c, ch, d)
      BY <1>1, CompileIs
    <2>2. ~d.bad
      OBVIOUS
    <2> HIDE DEF d
    <2> QED BY <2>1, <2>2 DEF Compiles
  <1>4. e = [a EXCEPT !.at = same]
    BY <1>1, <1>2 DEF Onward, Onto
  <1>5. same \in SUBSET (0..Len(str)) /\ same \in SUBSET Nat
    BY OntoPlaces, LenProperties
  <1> HIDE DEF d, e
  <1>6. e.at = same /\ e.escaped = a.escaped /\ e \in Reach
    BY <1>1, <1>4, <1>5 DEF Reach
  <1>7. PICK P : Reaches(str, c.nodes, P) /\ a.at = Following(str, P, c.lit)
    BY DEF Simulates
  <1>8. P \in SUBSET (0..Len(str)) /\ c.nodes \in Seq(Nodes)
    BY <1>1, <1>7, ReachesPlaces DEF Compiling
  <1>9. Following(str, P, d.lit) = same
    <2>1. FurtherBy(str, P, c.lit, ch)
      BY <1>1, <1>8, BehindMore
    <2> QED BY <1>2, <1>7, <2>1 DEF FurtherBy
  <1>10. d.lit # <<>>
    BY <1>1, <1>2, OneAppended
  <1>11. Shape(d.nodes)
    BY <1>2 DEF Simulates
  <1>12. d.escaping = FALSE
    BY <1>2 DEF Compiling
  <1> HIDE DEF same
  <1> QED BY <1>1, <1>2, <1>5, <1>6, <1>7, <1>9, <1>10, <1>11, <1>12 DEF Simulates, d, e

LEMMA StepSimulates ==
  ASSUME NEW str \in Seq(Glyph), NEW c, NEW a, Simulates(str, c, a), NEW ch \in Glyph, ~Compile(c, ch).bad
  PROVE  Simulates(str, Compile(c, ch), Onward(str, a, ch))
  <1>1. CASE ch = "\\"
    BY <1>1, EscapeSimulates
  <1>2. CASE ch \in {"%", "_"} /\ c.escaping
    BY <1>2, EscapedSimulates
  <1>3. CASE ch \in {"%", "_"} /\ ~c.escaping
    BY <1>3, AllSimulates, OneSimulates
  <1>4. CASE ch \notin {"\\", "%", "_"}
    BY <1>4, PlainSimulates
  <1> QED BY <1>1, <1>2, <1>3, <1>4
\* What is wrong with a pattern stays wrong.
LEMMA BadStays ==
  ASSUME NEW c, c.bad = TRUE, "bad" \in DOMAIN c, NEW ch
  PROVE  Compile(c, ch).bad = TRUE /\ "bad" \in DOMAIN Compile(c, ch)
  <1> DEFINE f == Flush(c)
             d == Compile(c, ch)
  <1>1. f.bad = TRUE /\ "bad" \in DOMAIN f
    BY DEF Flush, _wild_append
  <1>2. CASE ch = "\\"
    <2>1. d = [f EXCEPT !.bad = @ \/ c.escaping, !.escaping = TRUE]
      BY <1>2 DEF Compile
    <2> HIDE DEF d, f
    <2>2. d.bad = TRUE /\ "bad" \in DOMAIN d
      BY <1>1, <2>1
    <2> QED BY <2>2 DEF d
  <1>3. CASE ch \in {"%", "_"} /\ c.escaping
    BY <1>3 DEF Compile, Escaped, _wild_append
  <1>4. CASE ch = "%" /\ ~c.escaping
    <2>1. d = c \/ d = [[f EXCEPT !.nodes = Append(@, All)] EXCEPT !.prev = "all"]
      BY <1>4 DEF Compile, _wild_append
    <2> HIDE DEF d, f
    <2>2. d.bad = TRUE /\ "bad" \in DOMAIN d
      BY <1>1, <2>1
    <2> QED BY <2>2 DEF d
  <1>5. CASE ch = "_" /\ ~c.escaping
    <2>1. d = [c EXCEPT !.nodes[Len(c.nodes)].nr = @ + 1] \/ d = [[f EXCEPT !.nodes = Append(@, One)] EXCEPT !.prev = "one"]
      BY <1>5 DEF Compile, _wild_append
    <2> HIDE DEF d, f
    <2>2. d.bad = TRUE /\ "bad" \in DOMAIN d
      BY <1>1, <2>1
    <2> QED BY <2>2 DEF d
  <1>6. CASE ch \notin {"\\", "%", "_"}
    <2>1. d = [c EXCEPT !.bad = @ \/ c.escaping, !.lit = Append(@, ch), !.prev = "none"]
      BY <1>6 DEF Compile
    <2> HIDE DEF d
    <2>2. d.bad = TRUE /\ "bad" \in DOMAIN d
      BY <2>1
    <2> QED BY <2>2 DEF d
  <1> QED BY <1>2, <1>3, <1>4, <1>5, <1>6

LEMMA CompiledBad ==
  ASSUME NEW c \in Compiling, NEW ch \in Glyph, Compile(c, ch).bad
  PROVE  Compile(c, ch).bad = TRUE /\ "bad" \in DOMAIN Compile(c, ch)
  <1> DEFINE d == Compile(c, ch)
  <1>1. Compiles(c, ch, d)
    BY CompileIs
  <1>2. d.bad
    OBVIOUS
  <1> HIDE DEF d
  <1>3. CASE d \in Compiling
    BY <1>2, <1>3 DEF Compiling, d
  <1>4. CASE d \notin Compiling
    <2>1. d = [c EXCEPT !.nodes[Len(c.nodes)].nr = @ + 1]
      BY <1>1, <1>4 DEF Compiles
    <2>2. d.bad = TRUE /\ "bad" \in DOMAIN d
      BY <1>2, <2>1 DEF Compiling
    <2> QED BY <2>2 DEF d
  <1> QED BY <1>3, <1>4

LEMMA StartSimulates ==
  ASSUME NEW str \in Seq(Glyph), NEW c, NEW a, a = [at |-> {0}, escaped |-> FALSE],
         c = [nodes |-> <<>>, prev |-> "none", escaping |-> FALSE, lit |-> <<>>, bad |-> FALSE]
  PROVE  Simulates(str, c, a)
  <1>1. <<>> \in Seq(Nodes) /\ <<>> \in Seq(Glyph) /\ Len(str) \in Nat
    OBVIOUS
  <1>2. {0} \in SUBSET (0..Len(str)) /\ {0} \in SUBSET Nat
    BY <1>1
  <1>3. a \in Reach /\ a.at = {0} /\ a.escaped = FALSE
    BY <1>2 DEF Reach
  <1>4. c \in Compiling /\ c.nodes = <<>> /\ c.prev = "none" /\ c.escaping = FALSE /\ c.lit = <<>>
    BY <1>1 DEF Compiling
  <1>5. Reaches(str, <<>>, {0}) /\ {0} = Following(str, {0}, <<>>) /\ Shape(<<>>)
    BY <1>2, ReachesNone, BehindNothing, ShapeNone
  <1> QED BY <1>2, <1>3, <1>4, <1>5 DEF Simulates

\* A pattern that compiles means, character by character, what ODBC says.
LEMMA ChainSimulates ==
  ASSUME NEW str \in Seq(Glyph), NEW ex \in Seq(Glyph), NEW f, Compiled(ex, f), ~f[Len(ex)].bad,
         NEW g, Alike(ex, str, g)
  PROVE  \A k \in 0..Len(ex) : ~f[k].bad /\ Simulates(str, f[k], g[k])
  <1> DEFINE n == Len(ex)
             Told(k) == k <= n => \/ ~f[k].bad /\ Simulates(str, f[k], g[k])
                                  \/ \A j \in k..n : f[j].bad = TRUE /\ "bad" \in DOMAIN f[j]
             Ind == {k \in Nat : Told(k)}
  <1>0. n \in Nat
    BY LenProperties
  <1>1. 0 \in Ind
    <2>1. Simulates(str, f[0], g[0])
      BY StartSimulates DEF Compiled, Alike
    <2>2. ~f[0].bad
      BY DEF Compiled
    <2> QED BY <2>1, <2>2
  <1>2. ASSUME NEW k \in Nat, Told(k) PROVE Told(k + 1)
    <2> SUFFICES ASSUME k + 1 <= n
                 PROVE  \/ ~f[k + 1].bad /\ Simulates(str, f[k + 1], g[k + 1])
                        \/ \A j \in (k + 1)..n : f[j].bad = TRUE /\ "bad" \in DOMAIN f[j]
      OBVIOUS
    <2>1. k \in Nat /\ k <= n /\ k + 1 \in 1..n
      BY <1>0
    <2>2. ex[k + 1] \in Glyph
      BY <2>1, ElementOfSeq
    <2>3. f[k + 1] = Compile(f[k], ex[k + 1]) /\ g[k + 1] = Onward(str, g[k], ex[k + 1])
      BY <2>1 DEF Compiled, Alike
    <2>4. CASE ~f[k].bad /\ Simulates(str, f[k], g[k])
      <3>1. CASE ~f[k + 1].bad
        BY <2>2, <2>3, <2>4, <3>1, StepSimulates
      <3>2. CASE f[k + 1].bad
        <4>1. f[k] \in Compiling
          BY <2>4 DEF Simulates
        <4>2. f[k + 1].bad = TRUE /\ "bad" \in DOMAIN f[k + 1]
          BY <2>2, <2>3, <3>2, <4>1, CompiledBad
        <4> DEFINE Spoilt(j) == k + 1 + j <= n => f[k + 1 + j].bad = TRUE /\ "bad" \in DOMAIN f[k + 1 + j]
                   Jnd == {j \in Nat : Spoilt(j)}
        <4>3. 0 \in Jnd
          <5>1. k + 1 + 0 = k + 1
            BY <2>1
          <5> QED BY <4>2, <5>1
        <4>4. ASSUME NEW j \in Nat, Spoilt(j) PROVE Spoilt(j + 1)
          <5> SUFFICES ASSUME k + 1 + (j + 1) <= n
                       PROVE  f[k + 1 + (j + 1)].bad = TRUE /\ "bad" \in DOMAIN f[k + 1 + (j + 1)]
            OBVIOUS
          <5> DEFINE m == k + 1 + j
          <5>1. m \in Nat /\ m + 1 <= n /\ m <= n /\ k + 1 + (j + 1) = m + 1
            BY <1>0, <2>1
          <5>2. f[m].bad = TRUE /\ "bad" \in DOMAIN f[m]
            BY <4>4, <5>1
          <5> HIDE DEF m
          <5>3. f[m + 1] = Compile(f[m], ex[m + 1])
            BY <5>1 DEF Compiled
          <5> QED BY <5>1, <5>2, <5>3, BadStays
        <4>5. Jnd \in SUBSET Nat
          OBVIOUS
        <4>6. Jnd = Nat
          <5> HIDE DEF Spoilt
          <5>1. \A j \in Jnd : j + 1 \in Jnd
            BY <4>4
          <5> HIDE DEF Jnd
          <5> QED BY <4>3, <4>5, <5>1, Induct
        <4>7. \A j \in (k + 1)..n : f[j].bad = TRUE /\ "bad" \in DOMAIN f[j]
          <5> TAKE j \in (k + 1)..n
          <5>1. j - (k + 1) \in Nat /\ k + 1 + (j - (k + 1)) = j /\ j <= n
            BY <1>0, <2>1
          <5>2. j - (k + 1) \in Jnd
            <6> HIDE DEF Jnd
            <6> QED BY <4>6, <5>1
          <5> QED BY <5>1, <5>2
        <4> QED BY <4>7
      <3> QED BY <3>1, <3>2
    <2>5. CASE \A j \in k..n : f[j].bad = TRUE /\ "bad" \in DOMAIN f[j]
      <3>1. \A j \in (k + 1)..n : j \in k..n
        BY <1>0, <2>1
      <3> QED BY <2>5, <3>1
    <2> QED BY <1>2, <2>1, <2>4, <2>5
  <1>3. Ind \in SUBSET Nat
    OBVIOUS
  <1>4. Ind = Nat
    <2> HIDE DEF Told
    <2>1. \A k \in Ind : k + 1 \in Ind
      BY <1>2
    <2> HIDE DEF Ind
    <2> QED BY <1>1, <1>3, <2>1, Induct
  <1> TAKE k \in 0..n
  <1>5. k \in Ind /\ k \in Nat /\ k <= n /\ n \in k..n
    <2> HIDE DEF Ind
    <2> QED BY <1>0, <1>4
  <1> QED BY <1>5
LEMMA UpToItself ==
  ASSUME NEW n \in Nat
  PROVE  n # 0 <=> n \in 1..n
  OBVIOUS

LEMMA SameUpTo ==
  ASSUME NEW m \in Nat, NEW n \in Nat, 1..m = 1..n
  PROVE  m = n
  <1>1. m # 0 => m \in 1..n
    <2>1. m # 0 => m \in 1..m
      OBVIOUS
    <2> QED BY <2>1
  <1>2. n # 0 => n \in 1..m
    <2>1. n # 0 => n \in 1..n
      OBVIOUS
    <2> QED BY <2>1
  <1> QED BY <1>1, <1>2

\* A wildcard leaves a node of its kind at the end.
LEMMA TailNode ==
  ASSUME NEW c \in Compiling, NEW d \in Compiling, NEW ch \in {"%", "_"}, Compiles(c, ch, d), ~c.escaping,
         c.prev # "none" => c.lit = <<>> /\ c.nodes # <<>> /\ Last(c.nodes).match = c.prev
  PROVE  d.lit = <<>> /\ d.nodes # <<>> /\ Last(d.nodes).match \in {"all", "one"}
  <1>1. c.nodes \in Seq(Nodes) /\ d.nodes \in Seq(Nodes) /\ Flushed(c) \in Seq(Nodes)
    BY FlushIs DEF Compiling
  <1>2. All \in Nodes /\ All.match = "all" /\ One \in Nodes /\ One.match = "one"
    BY NodesAre
  <1>3. CASE ch = "%"
    <2>1. CASE c.prev = "all" /\ d = c
      BY <2>1
    <2>2. CASE d.nodes = Append(Flushed(c), All) /\ d.lit = <<>>
      BY <1>1, <1>2, <2>2, LastAppended
    <2> QED BY <1>3, <2>1, <2>2 DEF Compiles
  <1>4. CASE ch = "_" /\ c.prev # "one"
    <2>1. d.nodes = Append(Flushed(c), One) /\ d.lit = <<>>
      BY <1>4 DEF Compiles
    <2> QED BY <1>1, <1>2, <2>1, LastAppended
  <1>5. CASE ch = "_" /\ c.prev = "one"
    <2> DEFINE nodes == c.nodes
               n == Len(nodes)
    <2>1. d = [c EXCEPT !.nodes[Len(c.nodes)].nr = @ + 1]
      BY <1>5 DEF Compiles
    <2>2. d.lit = c.lit /\ d.nodes = [nodes EXCEPT ![n].nr = @ + 1]
      BY <2>1 DEF Compiling
    <2>3. nodes # <<>> /\ Last(nodes).match = "one" /\ c.lit = <<>>
      BY <1>5
    <2>7. nodes \in Seq(Nodes) /\ d.nodes \in Seq(Nodes)
      BY <1>1
    <2> HIDE DEF nodes
    <2>4. n \in 1..n /\ DOMAIN nodes = 1..n /\ nodes[n].match = "one" /\ nodes[n] \in Nodes
      <3>1. n \in Nat /\ DOMAIN nodes = 1..n /\ n # 0
        BY <2>3, <2>7, LenProperties, EmptySeq
      <3>2. n \in 1..n
        <4> HIDE DEF n
        <4> QED BY <3>1, UpToItself
      <3>3. nodes[n] \in Nodes
        BY <2>7, <3>2, ElementOfSeq
      <3>4. nodes[n] = Last(nodes)
        BY DEF Last
      <3> QED BY <2>3, <3>1, <3>2, <3>3, <3>4
    <2>5. DOMAIN d.nodes = 1..n /\ d.nodes[n] = [nodes[n] EXCEPT !.nr = @ + 1]
      BY <2>2, <2>4
    <2>6. d.nodes[n].match = "one"
      BY <2>4, <2>5 DEF Nodes
    <2> DEFINE more == d.nodes
    <2>8. more \in Seq(Nodes) /\ DOMAIN more = 1..n /\ more[n].match = "one"
      BY <2>5, <2>6, <2>7
    <2>9. d.nodes = more
      OBVIOUS
    <2> HIDE DEF more
    <2>10. Len(more) = n /\ more # <<>> /\ Last(more) = more[n]
      <3>1. Len(more) \in Nat /\ DOMAIN more = 1..Len(more) /\ n \in Nat
        BY <2>7, <2>8, LenProperties
      <3> HIDE DEF n
      <3>2. Len(more) = n
        BY <2>8, <3>1, SameUpTo
      <3>3. more # <<>>
        <4>1. n # 0
          BY <2>4, <3>1, UpToItself
        <4> QED BY <2>8, <3>2, <4>1, EmptySeq
      <3> QED BY <3>2, <3>3 DEF Last
    <2> QED BY <2>2, <2>3, <2>8, <2>9, <2>10
  <1> QED BY <1>3, <1>4, <1>5

\* Where the pattern ends: escaped, in a wildcard, or in characters of its own.
LEMMA ChainEnds ==
  ASSUME NEW ex \in Seq(Glyph), NEW f, Compiled(ex, f), NEW str, NEW g,
         \A k \in 0..Len(ex) : ~f[k].bad /\ Simulates(str, f[k], g[k]), ex # <<>> => Last(ex) # "\\"
  PROVE  /\ ~f[Len(ex)].escaping
         /\ EndsWild(ex) <=> \/ Flushed(f[Len(ex)]) = <<>>
                             \/ Last(Flushed(f[Len(ex)])).match # "specific"
  <1> DEFINE n == Len(ex)
  <1>0. n \in Nat /\ (ex = <<>> <=> n = 0) /\ (ex # <<>> => Last(ex) = ex[n])
    BY LenProperties, EmptySeq DEF Last
  <1>1. ASSUME NEW k \in Nat, k + 1 <= n
        PROVE  /\ Compiles(f[k], ex[k + 1], f[k + 1]) /\ f[k] \in Compiling /\ f[k + 1] \in Compiling
               /\ ~f[k + 1].bad /\ ex[k + 1] \in Glyph
    <2>1. k \in 0..n /\ k + 1 \in 0..n /\ k + 1 \in 1..n
      BY <1>0, <1>1
    <2>2. ex[k + 1] \in Glyph
      BY <2>1, ElementOfSeq
    <2>3. f[k + 1] = Compile(f[k], ex[k + 1])
      BY <1>1 DEF Compiled
    <2>4. ~f[k + 1].bad /\ f[k] \in Compiling /\ f[k + 1] \in Compiling
      BY <2>1 DEF Simulates
    <2> QED BY <2>2, <2>3, <2>4, CompileIs
  <1>2. ASSUME NEW k \in Nat, k + 1 <= n PROVE f[k + 1].escaping <=> ex[k + 1] = "\\"
    <2> DEFINE c == f[k]
               d == f[k + 1]
               ch == ex[k + 1]
    <2>1. Compiles(c, ch, d) /\ c \in Compiling /\ d \in Compiling /\ ~d.bad
      BY <1>1, <1>2
    <2> HIDE DEF c, d, ch
    <2>2. CASE ch = "\\"
      BY <2>1, <2>2 DEF Compiles, c, d, ch
    <2>3. CASE ch \in {"%", "_"} /\ c.escaping
      <3>1. ~d.escaping /\ ch # "\\"
        BY <2>1, <2>3 DEF Compiles
      <3> QED BY <3>1 DEF d, ch
    <2>4. CASE ch = "%" /\ ~c.escaping
      <3>1. ~d.escaping /\ ch # "\\"
        BY <2>1, <2>4 DEF Compiles
      <3> QED BY <3>1 DEF d, ch
    <2>5. CASE ch = "_" /\ ~c.escaping
      <3>1. ~d.escaping /\ ch # "\\"
        <4>1. CASE c.prev # "one"
          BY <2>1, <2>5, <4>1 DEF Compiles
        <4>2. CASE c.prev = "one"
          <5>1. d = [c EXCEPT !.nodes[Len(c.nodes)].nr = @ + 1]
            BY <2>1, <2>5, <4>2 DEF Compiles
          <5>2. d.escaping = c.escaping
            BY <2>1, <5>1 DEF Compiling
          <5> QED BY <2>5, <5>2
        <4> QED BY <4>1, <4>2
      <3> QED BY <3>1 DEF d, ch
    <2>6. CASE ch \notin {"\\", "%", "_"}
      <3>1. ~d.escaping /\ ch # "\\"
        BY <2>1, <2>6 DEF Compiles
      <3> QED BY <3>1 DEF d, ch
    <2> QED BY <2>2, <2>3, <2>4, <2>5, <2>6
  <1>3. CASE n = 0
    <2>1. ~f[0].escaping /\ f[0].lit = <<>> /\ f[0].nodes = <<>>
      BY DEF Compiled
    <2> QED BY <1>0, <1>3, <2>1 DEF EndsWild, Flushed
  <1>4. CASE n # 0
    <2> DEFINE k == n - 1
               c == f[k]
               d == f[n]
               ch == ex[n]
               F == Flushed(d)
    <2>1. k \in Nat /\ k + 1 = n /\ k + 1 <= n
      BY <1>0, <1>4
    <2>2. Compiles(c, ch, d) /\ c \in Compiling /\ d \in Compiling /\ ~d.bad /\ ch \in Glyph
      BY <1>1, <2>1
    <2>3. ch # "\\" /\ ~d.escaping
      BY <1>0, <1>2, <1>4, <2>1
    <2>4. c.escaping <=> (n > 1 /\ ex[n - 1] = "\\")
      <3>1. CASE n = 1
        <4>1. k = 0
          BY <2>1, <3>1
        <4>2. ~f[0].escaping
          BY DEF Compiled
        <4> QED BY <3>1, <4>1, <4>2
      <3>2. CASE n # 1
        <4>1. n > 1 /\ n - 2 \in Nat /\ (n - 2) + 1 = n - 1 /\ (n - 2) + 1 <= n
          <5> HIDE DEF n, c, d, ch, k, F
          <5> QED BY <1>0, <1>4, <3>2
        <4>2. f[(n - 2) + 1].escaping <=> ex[(n - 2) + 1] = "\\"
          BY <1>2, <4>1
        <4> QED BY <4>1, <4>2
      <3> QED BY <3>1, <3>2
    <2>5. EndsWild(ex) <=> ch \in {"%", "_"} /\ ~c.escaping
      <3>1. n = 1 <=> ~(n > 1)
        <4> HIDE DEF n, c, d, ch, k, F
        <4> QED BY <1>0, <1>4
      <3> HIDE DEF c, d, k, F
      <3>2. EndsWild(ex) <=> ch \in {"%", "_"} /\ (n = 1 \/ ex[n - 1] # "\\")
        BY <1>0, <1>4 DEF EndsWild
      <3> HIDE DEF ch, n
      <3> QED BY <2>4, <3>1, <3>2
    <2>6. c.nodes \in Seq(Nodes) /\ d.nodes \in Seq(Nodes) /\ c.lit \in Seq(Glyph) /\ Flushed(c) \in Seq(Nodes)
      BY <2>2, FlushIs DEF Compiling
    <2>7. ~EndsWild(ex) => F # <<>> /\ Last(F).match = "specific"
      <3> SUFFICES ASSUME ~EndsWild(ex) PROVE F # <<>> /\ Last(F).match = "specific"
        OBVIOUS
      <3>1. CASE ch \in {"%", "_"}
        <4>1. c.escaping
          BY <2>5, <3>1
        <4> HIDE DEF c, d, ch, n
        <4>2. d.nodes = Append(c.nodes, Specific(<<ch>>)) /\ d.lit = c.lit
          BY <2>2, <3>1, <4>1 DEF Compiles
        <4>3. <<ch>> \in Seq(Glyph)
          BY <2>2, OneChar
        <4>4. Specific(<<ch>>) \in Nodes /\ Specific(<<ch>>).match = "specific"
          BY <4>3, SpecificIs
        <4>5. CASE d.lit = <<>>
          BY <2>6, <4>2, <4>4, <4>5, LastAppended DEF Flushed
        <4>6. CASE d.lit # <<>>
          <5>1. Specific(c.lit) \in Nodes /\ Specific(c.lit).match = "specific"
            BY <2>6, SpecificIs
          <5> QED BY <2>6, <4>2, <4>6, <5>1, LastAppended DEF Flushed
        <4> QED BY <4>5, <4>6
      <3>2. CASE ch \notin {"%", "_"}
        <4> HIDE DEF c, d, ch, n
        <4>1. ch \notin {"\\", "%", "_"}
          BY <2>3, <3>2
        <4>2. d.lit = Append(c.lit, ch)
          BY <2>2, <4>1 DEF Compiles
        <4>3. d.lit # <<>> /\ d.lit \in Seq(Glyph)
          BY <2>2, <2>6, <4>2, OneAppended DEF Compiling
        <4>4. Specific(d.lit) \in Nodes /\ Specific(d.lit).match = "specific"
          BY <4>3, SpecificIs
        <4> QED BY <2>6, <4>3, <4>4, LastAppended DEF Flushed
      <3> QED BY <3>1, <3>2
    <2>8. EndsWild(ex) => F # <<>> /\ Last(F).match # "specific"
      <3> SUFFICES ASSUME EndsWild(ex) PROVE F # <<>> /\ Last(F).match # "specific"
        OBVIOUS
      <3>0. c.prev # "none" => c.lit = <<>> /\ c.nodes # <<>> /\ Last(c.nodes).match = c.prev
        <4>1. k \in 0..n
          BY <2>1
        <4> QED BY <4>1 DEF Simulates
      <3>1. ch \in {"%", "_"} /\ ~c.escaping
        BY <2>5
      <3> HIDE DEF c, d, ch, n
      <3>2. d.lit = <<>> /\ d.nodes # <<>> /\ Last(d.nodes).match \in {"all", "one"}
        BY <2>2, <3>0, <3>1, TailNode
      <3> QED BY <3>2 DEF Flushed
    <2> HIDE DEF c, d, ch, k
    <2> QED BY <2>3, <2>7, <2>8 DEF d
  <1> QED BY <1>3, <1>4
-----------------------------------------------------------------------------
(* The compiled pattern run through a name.                                *)

LEMMA MatchIs ==
  ASSUME NEW str, NEW node \in Nodes, NEW last, NEW after
  PROVE  /\ node.match = "all" => _wild_match(node, last, after, str) = _wild_match_all(last, after, Len(str))
         /\ node.match = "one" => _wild_match(node, last, after, str) = _wild_match_one(node, last, after, Len(str))
         /\ node.match = "specific" => _wild_match(node, last, after, str) = _wild_match_specific(node, last, after, str)
         /\ node.match \in {"all", "one", "specific"} /\ node.nr \in Nat
  <1>1. node.match \in {"all", "one", "specific"} /\ node.nr \in Nat
    BY DEF Nodes
  <1> QED BY <1>1 DEF _wild_match

LEMMA NotAtEnd ==
  ASSUME NEW str \in Seq(Glyph), NEW node \in Nodes, Proper(node), node.match # "all", NEW last, NEW after
  PROVE  Len(str) \notin _wild_match(node, last, after, str)
  <1> DEFINE n == Len(str)
  <1>0. n \in Nat /\ node.nr \in Nat
    BY LenProperties, MatchIs
  <1>1. node.nr >= 1
    BY MatchIs DEF Proper
  <1>2. ~(n + node.nr <= n)
    <2> HIDE DEF n
    <2> QED BY <1>0, <1>1
  <1>3. CASE node.match = "one"
    BY <1>2, <1>3, MatchIs DEF _wild_match_one
  <1>4. CASE node.match = "specific"
    BY <1>2, <1>4, MatchIs DEF _wild_match_specific
  <1> QED BY <1>3, <1>4, MatchIs

\* Some place of P from which the node and those behind it match.
From(str, P, node, last, after) == \E s \in P : s \in _wild_match(node, last, after, str)
Meeting(str, P, node, after) == \E q \in BehindNode(str, P, node) : q \in after

LEMMA NodeMeets ==
  ASSUME NEW str \in Seq(Glyph), NEW node \in Nodes, Proper(node), NEW P, P \in SUBSET (0..Len(str)), NEW after,
         node.match = "all" => Len(str) \notin after
  PROVE  From(str, P, node, FALSE, after) <=> Meeting(str, P, node, after)
  <1> DEFINE n == Len(str)
             Here == BehindNode(str, P, node)
             M == _wild_match(node, FALSE, after, str)
  <1>0. n \in Nat /\ node.nr \in Nat
    BY LenProperties, MatchIs
  <1>1. CASE node.match = "all"
    <2>1. Here = {q \in 0..n : \E p \in P : p <= q} /\ M = {s \in 0..n : \E p \in s..n - 1 : p \in after}
      BY <1>1 DEF BehindNode, _wild_match, _wild_match_all
    <2>2. n \notin after
      BY <1>1
    <2> HIDE DEF n, M, Here
    <2>3. P \in SUBSET (0..n)
      BY DEF n
    <2>4. ASSUME NEW s \in P, s \in M PROVE \E q \in Here : q \in after
      <3>1. PICK p \in s..n - 1 : p \in after
        BY <2>1, <2>4
      <3>2. s \in 0..n
        BY <2>3
      <3>3. p \in 0..n /\ s <= p
        BY <1>0, <3>1, <3>2
      <3> QED BY <2>1, <3>1, <3>3
    <2>5. ASSUME NEW q \in Here, q \in after PROVE \E s \in P : s \in M
      <3>1. PICK p \in P : p <= q
        BY <2>1
      <3>2. q \in 0..n /\ q # n /\ p \in 0..n
        BY <2>1, <2>2, <2>3, <2>5
      <3>3. q \in p..n - 1
        BY <1>0, <3>1, <3>2
      <3> QED BY <2>1, <2>5, <3>2, <3>3
    <2> QED BY <2>4, <2>5 DEF From, Meeting, M, Here
  <1>2. CASE node.match = "one"
    <2>1. Here = {q \in 0..n : \E p \in P : q = p + node.nr}
      BY <1>2, MatchIs DEF BehindNode
    <2>2. M = {s \in 0..n - 1 : s + node.nr <= n /\ s + node.nr \in after}
      BY <1>2 DEF _wild_match, _wild_match_one
    <2>3. node.nr >= 1
      BY <1>2 DEF Proper
    <2>4. P \in SUBSET (0..n)
      OBVIOUS
    <2> HIDE DEF n, M, Here
    <2>5. ASSUME NEW s \in P, s \in M PROVE \E q \in Here : q \in after
      <3>1. s \in 0..n /\ s + node.nr <= n /\ s + node.nr \in after
        BY <2>2, <2>4, <2>5
      <3>2. s + node.nr \in 0..n
        BY <1>0, <3>1
      <3> QED BY <2>1, <3>1, <3>2
    <2>6. ASSUME NEW q \in Here, q \in after PROVE \E s \in P : s \in M
      <3>1. PICK p \in P : q = p + node.nr
        BY <2>1
      <3>2. p \in 0..n /\ q \in 0..n
        BY <2>1, <2>4
      <3>3. p \in 0..n - 1 /\ p + node.nr <= n
        BY <1>0, <2>3, <3>1, <3>2
      <3> QED BY <2>2, <2>6, <3>1, <3>3
    <2> QED BY <2>5, <2>6 DEF From, Meeting, M, Here
  <1>3. CASE node.match = "specific"
    <2> DEFINE Fits(s) == SubSeq(str, s + 1, s + node.nr) = node.base
    <2>1. Here = {q \in 0..n : \E p \in P : q = p + node.nr /\ Fits(p)}
      BY <1>3, MatchIs DEF BehindNode
    <2>2. M = {s \in 0..n : s + node.nr <= n /\ Fits(s) /\ s + node.nr \in after}
      BY <1>3 DEF _wild_match, _wild_match_specific
    <2>4. P \in SUBSET (0..n)
      OBVIOUS
    <2> HIDE DEF n, M, Here, Fits
    <2>5. ASSUME NEW s \in P, s \in M PROVE \E q \in Here : q \in after
      <3>1. s \in 0..n /\ s + node.nr <= n /\ s + node.nr \in after /\ Fits(s)
        BY <2>2, <2>4, <2>5
      <3>2. s + node.nr \in 0..n
        BY <1>0, <3>1
      <3> QED BY <2>1, <3>1, <3>2
    <2>6. ASSUME NEW q \in Here, q \in after PROVE \E s \in P : s \in M
      <3>1. PICK p \in P : q = p + node.nr /\ Fits(p)
        BY <2>1
      <3>2. p \in 0..n /\ q \in 0..n
        BY <2>1, <2>4
      <3>3. p + node.nr <= n
        BY <1>0, <3>1, <3>2
      <3> QED BY <2>2, <2>6, <3>1, <3>2, <3>3
    <2> QED BY <2>5, <2>6 DEF From, Meeting, M, Here
  <1> QED BY <1>1, <1>2, <1>3, MatchIs

\* What the last node decides: whether the name may end, or only whether it is reached.
EndsAt(str, node, Q) == IF node.match = "specific" THEN Q # {} ELSE Len(str) \in Q

LEMMA LastMeets ==
  ASSUME NEW str \in Seq(Glyph), NEW node \in Nodes, Proper(node), NEW P, P \in SUBSET (0..Len(str)), NEW after
  PROVE  From(str, P, node, TRUE, after) <=> EndsAt(str, node, BehindNode(str, P, node))
  <1> DEFINE n == Len(str)
             Here == BehindNode(str, P, node)
             M == _wild_match(node, TRUE, after, str)
  <1>0. n \in Nat /\ node.nr \in Nat /\ P \in SUBSET (0..n)
    BY LenProperties, MatchIs
  <1>1. CASE node.match = "all"
    <2>1. Here = {q \in 0..n : \E p \in P : p <= q} /\ M = {s \in 0..n : TRUE}
      BY <1>1 DEF BehindNode, _wild_match, _wild_match_all
    <2>2. EndsAt(str, node, Here) <=> n \in Here
      BY <1>1 DEF EndsAt
    <2> HIDE DEF n, M, Here
    <2>3. n \in Here <=> \E s \in P : s \in M
      BY <1>0, <2>1
    <2> QED BY <2>2, <2>3 DEF From, M, Here
  <1>2. CASE node.match = "one"
    <2>1. Here = {q \in 0..n : \E p \in P : q = p + node.nr}
      BY <1>2, MatchIs DEF BehindNode
    <2>2. M = {s \in 0..n - 1 : s + node.nr <= n /\ s + node.nr = n}
      BY <1>2 DEF _wild_match, _wild_match_one
    <2>3. node.nr >= 1
      BY <1>2 DEF Proper
    <2>4. EndsAt(str, node, Here) <=> n \in Here
      BY <1>2 DEF EndsAt
    <2> HIDE DEF n, M, Here
    <2>5. n \in Here <=> \E s \in P : s \in M
      <3>1. ASSUME NEW s \in P PROVE n = s + node.nr <=> s \in M
        <4>1. s \in 0..n
          BY <1>0
        <4> QED BY <1>0, <2>2, <2>3, <4>1
      <3>2. n \in 0..n
        BY <1>0
      <3> QED BY <2>1, <3>1, <3>2
    <2> QED BY <2>4, <2>5 DEF From, M, Here
  <1>3. CASE node.match = "specific"
    <2> DEFINE Fits(s) == SubSeq(str, s + 1, s + node.nr) = node.base
    <2>1. Here = {q \in 0..n : \E p \in P : q = p + node.nr /\ Fits(p)}
      BY <1>3, MatchIs DEF BehindNode
    <2>2. M = {s \in 0..n : s + node.nr <= n /\ Fits(s)}
      BY <1>3 DEF _wild_match, _wild_match_specific
    <2>3. EndsAt(str, node, Here) <=> Here # {}
      BY <1>3 DEF EndsAt
    <2> HIDE DEF n, M, Here, Fits
    <2>4. ASSUME NEW s \in P, s \in M PROVE Here # {}
      <3>1. s \in 0..n /\ s + node.nr <= n /\ Fits(s)
        BY <2>2, <2>4
      <3>2. s + node.nr \in 0..n
        BY <1>0, <3>1
      <3>3. s + node.nr \in Here
        BY <2>1, <3>1, <3>2
      <3> QED BY <3>3
    <2>5. ASSUME NEW q \in Here PROVE \E s \in P : s \in M
      <3>1. PICK p \in P : q = p + node.nr /\ Fits(p)
        BY <2>1
      <3>2. p \in 0..n /\ q \in 0..n
        BY <1>0, <2>1
      <3>3. p + node.nr <= n
        BY <1>0, <3>1, <3>2
      <3> QED BY <2>2, <3>1, <3>2, <3>3
    <2> QED BY <2>3, <2>4, <2>5 DEF From, M, Here
  <1> QED BY <1>1, <1>2, <1>3, MatchIs

\* e[i] is where the nodes from the i-th to the last match the rest.
Execs(str, nodes, j, e) ==
  e = [i \in j..Len(nodes) + 1 |->
         IF i > Len(nodes) THEN {Len(str)} ELSE _wild_match(nodes[i], i = Len(nodes), e[i + 1], str)]

LEMMA ExecExists ==
  ASSUME NEW str, NEW nodes \in Seq(Nodes)
  PROVE  \E e : Execs(str, nodes, 1, e)
  <1> DEFINE L == Len(nodes)
             Told(k) == k <= L => \E e : Execs(str, nodes, (L + 1) - k, e)
             Ind == {k \in Nat : Told(k)}
  <1>0. L \in Nat
    BY LenProperties
  <1>1. Told(0)
    <2> DEFINE e == [i \in (L + 1) - 0..L + 1 |-> {Len(str)}]
    <2>1. e = [i \in (L + 1) - 0..L + 1 |->
                 IF i > L THEN {Len(str)} ELSE _wild_match(nodes[i], i = L, e[i + 1], str)]
      <3>1. \A i \in (L + 1) - 0..L + 1 : i > L
        <4> HIDE DEF L
        <4> QED BY <1>0
      <3> QED BY <3>1
    <2> HIDE DEF e
    <2>2. Execs(str, nodes, (L + 1) - 0, e)
      BY <2>1 DEF Execs
    <2> QED BY <2>2
  <1>2. ASSUME NEW k \in Nat, Told(k) PROVE Told(k + 1)
    <2> SUFFICES ASSUME k + 1 <= L PROVE \E e : Execs(str, nodes, (L + 1) - (k + 1), e)
      OBVIOUS
    <2> DEFINE j == (L + 1) - k
               Node(i, after) == IF i > L THEN {Len(str)} ELSE _wild_match(nodes[i], i = L, after, str)
    <2>1. k <= L
      <3> HIDE DEF L
      <3> QED BY <1>0
    <2>2. PICK f : Execs(str, nodes, j, f)
      BY <1>2, <2>1
    <2> DEFINE e == [i \in j - 1..L + 1 |-> IF i = j - 1 THEN Node(i, f[j]) ELSE f[i]]
    <2>3. f = [i \in j..L + 1 |-> Node(i, f[i + 1])]
      BY <2>2 DEF Execs
    <2>4. /\ (L + 1) - (k + 1) = j - 1 /\ j \in Int /\ (j - 1) + 1 = j /\ j \in j - 1..L + 1 /\ j # j - 1
          /\ \A i \in j - 1..L + 1 : i # j - 1 => i \in j..L + 1 /\ (i # L + 1 => i + 1 \in j..L + 1 /\ i + 1 \in j - 1..L + 1 /\ i + 1 # j - 1)
          /\ \A i \in j - 1..L + 1 : i > L <=> i = L + 1
          /\ j - 1 # L + 1
      <3> HIDE DEF L
      <3> QED BY <1>0, <2>1
    <2> HIDE DEF j, L
    <2>5. ASSUME NEW i \in j - 1..L + 1 PROVE e[i] = Node(i, e[i + 1])
      <3>1. CASE i = j - 1
        <4>1. e[i + 1] = f[j]
          BY <2>4, <3>1
        <4> HIDE DEF Node
        <4> QED BY <3>1, <4>1
      <3>2. CASE i # j - 1 /\ i = L + 1
        <4>1. i > L /\ i \in j..L + 1
          BY <2>4, <3>2
        <4>2. e[i] = f[i]
          BY <3>2
        <4>3. f[i] = Node(i, f[i + 1])
          <5> HIDE DEF Node
          <5> QED BY <2>3, <4>1
        <4>4. \A x : Node(i, x) = {Len(str)}
          BY <4>1
        <4> HIDE DEF Node
        <4> QED BY <4>2, <4>3, <4>4
      <3>3. CASE i # j - 1 /\ i # L + 1
        <4>1. i \in j..L + 1 /\ i + 1 \in j - 1..L + 1 /\ i + 1 # j - 1
          BY <2>4, <3>3
        <4>2. e[i] = f[i] /\ e[i + 1] = f[i + 1]
          BY <3>3, <4>1
        <4> HIDE DEF Node
        <4> QED BY <2>3, <4>1, <4>2
      <3> QED BY <3>1, <3>2, <3>3
    <2>6. e = [i \in j - 1..L + 1 |-> e[i]]
      OBVIOUS
    <2> HIDE DEF e, Node
    <2>7. e = [i \in j - 1..L + 1 |-> Node(i, e[i + 1])]
      BY <2>5, <2>6
    <2>8. Execs(str, nodes, j - 1, e)
      BY <2>7 DEF Execs, Node, L
    <2> QED BY <2>4, <2>8 DEF L
  <1>3. Ind = Nat
    <2> HIDE DEF Told
    <2>1. Ind \in SUBSET Nat /\ 0 \in Ind /\ \A k \in Ind : k + 1 \in Ind
      BY <1>1, <1>2
    <2> HIDE DEF Ind
    <2> QED BY <2>1, Induct
  <1>4. Told(L)
    <2> HIDE DEF Told, L
    <2>1. L \in Ind
      <3> HIDE DEF Ind
      <3> QED BY <1>0, <1>3
    <2> QED BY <2>1
  <1>5. L <= L /\ (L + 1) - L = 1
    <2> HIDE DEF L
    <2> QED BY <1>0
  <1> QED BY <1>4, <1>5

LEMMA ExecIs ==
  ASSUME NEW ex, NEW str, NEW nodes \in Seq(Nodes), nodes = _wild_comp(ex).nodes
  PROVE  \E e : Execs(str, nodes, 1, e) /\ (wildexec(ex, str) <=> 0 \in e[1])
  <1> DEFINE Is(e) == e = [i \in 1..Len(nodes) + 1 |->
                             IF i > Len(nodes) THEN {Len(str)} ELSE _wild_match(nodes[i], i = Len(nodes), e[i + 1], str)]
             h == CHOOSE e : Is(e)
  <1>1. wildexec(ex, str) <=> 0 \in h[1]
    BY DEF wildexec
  <1>2. \A e : Execs(str, nodes, 1, e) <=> Is(e)
    BY DEF Execs
  <1> HIDE DEF Is
  <1>3. \E e : Is(e)
    BY <1>2, ExecExists
  <1>4. Is(h)
    BY <1>3
  <1> HIDE DEF h
  <1> QED BY <1>1, <1>2, <1>4

LEMMA ExecMeets ==
  ASSUME NEW str \in Seq(Glyph), NEW nodes \in Seq(Nodes), Shape(nodes), NEW R, Runs(str, nodes, R),
         NEW e, Execs(str, nodes, 1, e)
  PROVE  0 \in e[1] <=> IF nodes = <<>> THEN Len(str) \in R[Len(nodes)]
                        ELSE EndsAt(str, Last(nodes), R[Len(nodes)])
  <1> DEFINE L == Len(nodes)
             n == Len(str)
             Meet(m) == \E s \in R[m] : s \in e[m + 1]
             Told(m) == m < L => (Meet(m) <=> 0 \in e[1])
             Ind == {m \in Nat : Told(m)}
  <1>0. L \in Nat /\ n \in Nat /\ (nodes = <<>> <=> L = 0) /\ Last(nodes) = nodes[L]
    BY LenProperties, EmptySeq DEF Last
  <1>1. R[0] = {0} /\ \A m \in 1..L : R[m] = BehindNode(str, R[m - 1], nodes[m])
    BY DEF Runs
  <1>2. \A m \in 0..L : R[m] \in SUBSET (0..n)
    BY DEF Runs
  <1>3. e = [i \in 1..L + 1 |-> IF i > L THEN {n} ELSE _wild_match(nodes[i], i = L, e[i + 1], str)]
    BY DEF Execs
  <1>4. \A i \in 1..L : nodes[i] \in Nodes /\ Proper(nodes[i]) /\ ((i + 1 <= L /\ nodes[i].match = "all") => nodes[i + 1].match # "all")
    BY ElementOfSeq DEF Shape
  <1> HIDE DEF L, n
  <1>5. ASSUME NEW i \in 1..L PROVE e[i] = _wild_match(nodes[i], i = L, e[i + 1], str)
    <2>1. i \in 1..L + 1 /\ ~(i > L)
      BY <1>0
    <2> QED BY <1>3, <2>1
  <1>6. Meet(0) <=> 0 \in e[1]
    BY <1>1
  <1>7. ASSUME NEW m \in Nat, Told(m) PROVE Told(m + 1)
    <2> SUFFICES ASSUME m + 1 < L PROVE Meet(m + 1) <=> Meet(m)
      BY <1>0, <1>7
    <2> DEFINE i == m + 1
               P == R[m]
    <2>1. i \in 1..L /\ i + 1 \in 1..L /\ i # L /\ i - 1 = m /\ m \in 0..L /\ i + 1 <= L
      BY <1>0
    <2>2. R[i] = BehindNode(str, P, nodes[i]) /\ P \in SUBSET (0..n)
      BY <1>1, <1>2, <2>1
    <2>3. e[i] = _wild_match(nodes[i], FALSE, e[i + 1], str)
      <3>1. (i = L) = FALSE
        BY <2>1
      <3>2. e[i] = _wild_match(nodes[i], i = L, e[i + 1], str)
        BY <1>5, <2>1
      <3> QED BY <3>1, <3>2
    <2>4. nodes[i] \in Nodes /\ Proper(nodes[i]) /\ nodes[i + 1] \in Nodes /\ Proper(nodes[i + 1])
          /\ (nodes[i].match = "all" => nodes[i + 1].match # "all")
      BY <1>4, <2>1
    <2>5. nodes[i].match = "all" => n \notin e[i + 1]
      <3>1. e[i + 1] = _wild_match(nodes[i + 1], i + 1 = L, e[i + 1 + 1], str)
        BY <1>5, <2>1
      <3> QED BY <2>4, <3>1, NotAtEnd DEF n
    <2> HIDE DEF i, P
    <2>6. From(str, P, nodes[i], FALSE, e[i + 1]) <=> Meeting(str, P, nodes[i], e[i + 1])
      BY <2>2, <2>4, <2>5, NodeMeets DEF n
    <2>7. (\E s \in P : s \in e[i]) <=> (\E q \in R[i] : q \in e[i + 1])
      BY <2>2, <2>3, <2>6 DEF From, Meeting
    <2> QED BY <2>7 DEF i, P
  <1>8. Ind = Nat
    <2>0. Told(0)
      BY <1>6
    <2> HIDE DEF Told
    <2>1. Ind \in SUBSET Nat /\ 0 \in Ind /\ \A k \in Ind : k + 1 \in Ind
      BY <1>7, <2>0
    <2> HIDE DEF Ind
    <2> QED BY <2>1, Induct
  <1>9. CASE L = 0
    <2>1. e[1] = {n} /\ R[L] = {0}
      <3>1. 1 \in 1..L + 1 /\ 1 > L
        BY <1>9
      <3>2. e[1] = {n}
        BY <1>3, <3>1
      <3> QED BY <1>1, <1>9, <3>2
    <2>2. 0 \in e[1] <=> n \in R[L]
      BY <2>1
    <2> QED BY <1>0, <1>9, <2>2 DEF n, L
  <1>10. CASE L # 0
    <2> DEFINE m == L - 1
    <2>1. m \in Nat /\ m < L /\ m + 1 = L /\ m \in 0..L /\ L \in 1..L
      BY <1>0, <1>10
    <2>2. Told(m)
      <3>1. m \in Ind
        <4> HIDE DEF Ind, m
        <4> QED BY <1>8, <2>1
      <3> QED BY <3>1
    <2>3. 0 \in e[1] <=> \E s \in R[m] : s \in e[L]
      BY <2>1, <2>2
    <2>4. R[L] = BehindNode(str, R[m], nodes[L]) /\ R[m] \in SUBSET (0..n) /\ nodes[L] \in Nodes /\ Proper(nodes[L])
      BY <1>1, <1>2, <1>4, <2>1
    <2>5. e[L] = _wild_match(nodes[L], TRUE, e[L + 1], str)
      <3>1. e[L] = _wild_match(nodes[L], L = L, e[L + 1], str)
        BY <1>5, <2>1
      <3>2. (L = L) = TRUE
        OBVIOUS
      <3> QED BY <3>1, <3>2
    <2>6. From(str, R[m], nodes[L], TRUE, e[L + 1]) <=> EndsAt(str, nodes[L], BehindNode(str, R[m], nodes[L]))
      <3> HIDE DEF m
      <3> QED BY <2>4, LastMeets DEF n
    <2>7. 0 \in e[1] <=> EndsAt(str, nodes[L], R[L])
      BY <2>3, <2>4, <2>5, <2>6 DEF From
    <2> QED BY <1>0, <1>10, <2>7 DEF L
  <1> QED BY <1>9, <1>10
\* What a pattern is compiled to and where that ends in a name, against the reference.
LEMMA CompiledMeans ==
  ASSUME NEW ex \in Seq(Glyph), NEW str \in Seq(Glyph), ~wildcomp_fails(ex), ex # <<>> => Last(ex) # "\\",
         NEW g, Alike(ex, str, g)
  PROVE  /\ wildexec(ex, str) <=> IF EndsWild(ex) THEN Len(str) \in g[Len(ex)].at ELSE g[Len(ex)].at # {}
         /\ g[Len(ex)] \in Reach /\ g[Len(ex)].at \in SUBSET (0..Len(str)) /\ g[Len(ex)].escaped = FALSE
  <1> DEFINE n == Len(ex)
  <1>0. n \in Nat /\ n \in 0..n
    BY LenProperties
  <1>1. PICK f : Compiled(ex, f) /\ _wild_comp(ex) = Flush(f[n])
    BY CompiledOneByOne
  <1> DEFINE c == f[n]
             nodes == Flushed(c)
             P == g[n].at
  <1>2. ~c.bad
    <2> SUFFICES ASSUME c.bad PROVE FALSE
      OBVIOUS
    <2> HIDE DEF c, n
    <2>1. Flush(c).bad
      BY DEF Flush, _wild_append, c, n
    <2> QED BY <1>1, <2>1 DEF wildcomp_fails, c, n
  <1>3. \A k \in 0..n : ~f[k].bad /\ Simulates(str, f[k], g[k])
    BY <1>1, <1>2, ChainSimulates
  <1>4. Simulates(str, c, g[n])
    BY <1>0, <1>3
  <1>5. c \in Compiling /\ g[n] \in Reach /\ P \in SUBSET (0..Len(str)) /\ g[n].escaped = c.escaping
    BY <1>4 DEF Simulates
  <1>6. ~c.escaping /\ (EndsWild(ex) <=> (nodes = <<>> \/ Last(nodes).match # "specific"))
    BY <1>1, <1>3, ChainEnds
  <1>7. nodes = _wild_comp(ex).nodes
    BY <1>1, <1>5, FlushIs
  <1>8. Reaches(str, nodes, P) /\ Shape(nodes) /\ nodes \in Seq(Nodes)
    BY <1>4, FlushReaches
  <1>9. g[n].escaped = FALSE
    BY <1>5, <1>6 DEF Compiling
  <1> HIDE DEF nodes, P, c
  <1>10. PICK R : Runs(str, nodes, R) /\ R[Len(nodes)] = P
    BY <1>8 DEF Reaches
  <1>11. PICK e : Execs(str, nodes, 1, e) /\ (wildexec(ex, str) <=> 0 \in e[1])
    BY <1>7, <1>8, ExecIs
  <1>12. 0 \in e[1] <=> IF nodes = <<>> THEN Len(str) \in P ELSE EndsAt(str, Last(nodes), P)
    BY <1>8, <1>10, <1>11, ExecMeets
  <1>13. wildexec(ex, str) <=> IF EndsWild(ex) THEN Len(str) \in P ELSE P # {}
    <2>1. CASE nodes = <<>>
      BY <1>6, <1>11, <1>12, <2>1
    <2>2. CASE nodes # <<>> /\ Last(nodes).match = "specific"
      BY <1>6, <1>11, <1>12, <2>2 DEF EndsAt
    <2>3. CASE nodes # <<>> /\ Last(nodes).match # "specific"
      BY <1>6, <1>11, <1>12, <2>3 DEF EndsAt
    <2> QED BY <2>1, <2>2, <2>3
  <1> QED BY <1>5, <1>9, <1>13 DEF P

LEMMA GlyphsMean ==
  ASSUME NEW ex \in Seq(Glyph), NEW str \in Seq(Glyph), ~wildcomp_fails(ex), ex # <<>> => Last(ex) # "\\"
  PROVE  wildexec(ex, str) <=> Like(IF EndsWild(ex) THEN ex ELSE Append(ex, "%"), str)
  <1> DEFINE n == Len(ex)
             more == Append(ex, "%")
  <1>0. n \in Nat /\ Len(str) \in Nat
    BY LenProperties
  <1>1. CASE EndsWild(ex)
    <2>1. PICK g : Alike(ex, str, g) /\ (Like(ex, str) <=> Len(str) \in g[n].at /\ ~g[n].escaped)
      BY LikeOneByOne
    <2>2. /\ wildexec(ex, str) <=> IF EndsWild(ex) THEN Len(str) \in g[n].at ELSE g[n].at # {}
          /\ g[n].escaped = FALSE
      BY <2>1, CompiledMeans
    <2> QED BY <1>1, <2>1, <2>2
  <1>2. CASE ~EndsWild(ex)
    <2>1. more \in Seq(Glyph) /\ Len(more) = n + 1 /\ more[n + 1] = "%" /\ \A k \in 1..n : more[k] = ex[k]
      <3>1. PICK ch \in Glyph : ch = "%"
        BY Glyphs
      <3> DEFINE s == Append(ex, ch)
      <3>2. s \in Seq(Glyph) /\ Len(s) = n + 1 /\ s[n + 1] = ch /\ \A k \in 1..n : s[k] = ex[k]
        BY AppendProperties
      <3> QED BY <3>1, <3>2
    <2> HIDE DEF more
    <2>2. PICK g : Alike(more, str, g) /\ (Like(more, str) <=> Len(str) \in g[n + 1].at /\ ~g[n + 1].escaped)
      BY <2>1, LikeOneByOne
    <2>3. Alike(ex, str, g)
      <3>1. ASSUME NEW k \in Nat, k + 1 <= n PROVE g[k + 1] = Onward(str, g[k], ex[k + 1])
        <4>1. k + 1 <= n + 1 /\ k + 1 \in 1..n
          <5> HIDE DEF n
          <5> QED BY <1>0, <3>1
        <4>2. g[k + 1] = Onward(str, g[k], more[k + 1])
          BY <2>1, <2>2, <4>1 DEF Alike
        <4> QED BY <2>1, <4>1, <4>2
      <3> QED BY <2>2, <3>1 DEF Alike
    <2> DEFINE a == g[n]
    <2>4. /\ wildexec(ex, str) <=> a.at # {}
          /\ a \in Reach /\ a.at \in SUBSET (0..Len(str)) /\ a.escaped = FALSE
      BY <1>2, <2>3, CompiledMeans
    <2>5. g[n + 1] = Onward(str, a, "%")
      <3>1. n + 1 <= Len(more)
        BY <1>0, <2>1
      <3>2. g[n + 1] = Onward(str, g[n], more[n + 1])
        BY <1>0, <2>2, <3>1 DEF Alike
      <3> QED BY <2>1, <3>2
    <2> HIDE DEF a
    <2> DEFINE up == {q \in 0..Len(str) : \E p \in a.at : p <= q}
    <2>6. g[n + 1] = [a EXCEPT !.at = up]
      BY <2>4, <2>5 DEF Onward
    <2>7. g[n + 1].at = up /\ g[n + 1].escaped = FALSE
      <3> HIDE DEF up
      <3> QED BY <2>4, <2>6 DEF Reach
    <2>8. Len(str) \in up <=> a.at # {}
      BY <1>0, <2>4
    <2> QED BY <1>2, <2>2, <2>4, <2>7, <2>8 DEF more
  <1> QED BY <1>1, <1>2

\* What ODBC means by a pattern is what the driver makes of it (utils.c _wild_comp, wildexec), for
\* names of any length: but a last node of plain characters does not look whether the name ends
\* there, as if a % stood behind it.
THEOREM WildMeans ==
  ASSUME NEW ex \in Seq(STRING), NEW str \in Seq(STRING), ~wildcomp_fails(ex), ex # <<>> => Last(ex) # "\\"
  PROVE  wildexec(ex, str) <=> Like(IF EndsWild(ex) THEN ex ELSE Append(ex, "%"), str)
  <1>1. \A ch \in STRING : ch \in Glyph
    BY DEF Glyph
  <1>2. ex \in Seq(Glyph) /\ str \in Seq(Glyph)
    BY <1>1, SeqMonotonic
  <1> QED BY <1>2, GlyphsMean
-----------------------------------------------------------------------------
(* A list of table types, read word by word.                               *)

Comma(t) == t = ","
Space(t) == t = " "
Divides(t) == Comma(t) \/ Space(t)

LEMMA DividerIs ==
  ASSUME NEW t
  PROVE  Divider(t) <=> Divides(t)
  BY DEF Divider, Divides, Comma, Space

LEMMA AddIs ==
  ASSUME NEW words, NEW t
  PROVE  /\ Comma(t) => _tables_add_table_type(words, t) = Append(words, <<>>)
         /\ Space(t) /\ Last(words) = <<>> => _tables_add_table_type(words, t) = words
         /\ ~Divides(t) => _tables_add_table_type(words, t) = [words EXCEPT ![Len(words)] = Append(@, t)]
  <1>1. CASE Comma(t)
    BY <1>1 DEF Divides, Comma, Space, _tables_add_table_type
  <1>2. CASE Space(t)
    BY <1>2 DEF Divides, Comma, Space, _tables_add_table_type
  <1>3. CASE ~Divides(t)
    BY <1>3 DEF Divides, Comma, Space, _tables_add_table_type
  <1> QED BY <1>1, <1>2, <1>3

LEMMA BehindWord ==
  ASSUME NEW text, Listlike(text), NEW k \in DOMAIN text, ~Divides(text[k]), k # Len(text)
  PROVE  Comma(text[k + 1])
  BY DividerIs DEF Listlike, Comma

\* The first k words of text, read as a list of words.
Words(text, k, words) ==
  /\ words # <<>>
  /\ \A m \in 1..Len(words) : words[m] = <<>> \/ \E j \in 1..k : ~Divides(text[j]) /\ words[m] = <<text[j]>>
  /\ \A j \in 1..k : ~Divides(text[j]) => \E m \in 1..Len(words) : words[m] = <<text[j]>>
  /\ Last(words) # <<>> => k > 0 /\ ~Divides(text[k])

LEMMA OneMoreWord ==
  ASSUME NEW Elem, NEW text \in Seq(Elem), Listlike(text), NEW k \in Nat, k + 1 <= Len(text),
         NEW words \in Seq(Seq(Elem)), Words(text, k, words)
  PROVE  /\ _tables_add_table_type(words, text[k + 1]) \in Seq(Seq(Elem))
         /\ Words(text, k + 1, _tables_add_table_type(words, text[k + 1]))
  <1> DEFINE t == text[k + 1]
             n == Len(words)
             more == _tables_add_table_type(words, t)
  <1>0. n \in Nat /\ words # <<>> /\ Last(words) = words[n] /\ Len(text) \in Nat
    BY LenProperties DEF Words, Last
  <1>1. n \in 1..n /\ k + 1 \in 1..(k + 1) /\ k + 1 \in 1..Len(text) /\ \A j \in 1..k : j \in 1..(k + 1)
    <2>1. n # 0
      BY <1>0, EmptySeq
    <2> HIDE DEF n
    <2>2. n \in 1..n
      BY <1>0, <2>1, UpToItself
    <2> QED BY <1>0, <2>2
  <1>2. t \in Elem /\ <<t>> = Append(<<>>, t) /\ <<t>> \in Seq(Elem) /\ <<>> \in Seq(Elem)
    <2>1. t \in Elem
      BY <1>1, ElementOfSeq
    <2> HIDE DEF t
    <2> QED BY <2>1, AppendProperties
  <1>3. Last(words) # <<>> => Comma(t)
    <2> SUFFICES ASSUME Last(words) # <<>> PROVE Comma(t)
      OBVIOUS
    <2>1. k > 0 /\ ~Divides(text[k])
      BY DEF Words
    <2>2. k \in 1..Len(text) /\ k # Len(text)
      BY <1>0, <2>1
    <2>3. k \in DOMAIN text
      BY <2>2, LenProperties
    <2> QED BY <2>1, <2>2, <2>3, BehindWord
  <1>4. /\ \A m \in 1..n : words[m] = <<>> \/ \E j \in 1..k : ~Divides(text[j]) /\ words[m] = <<text[j]>>
        /\ \A j \in 1..k : ~Divides(text[j]) => \E m \in 1..n : words[m] = <<text[j]>>
    BY DEF Words
  <1>5. \A j \in 1..(k + 1) : j = k + 1 \/ j \in 1..k
    OBVIOUS
  <1>9. (Divides(t) <=> Comma(t) \/ Space(t)) /\ ~(Comma(t) /\ Space(t))
    BY DEF Divides, Comma, Space
  <1>10. ASSUME NEW m \in 1..n PROVE words[m] = <<>> \/ \E j \in 1..(k + 1) : ~Divides(text[j]) /\ words[m] = <<text[j]>>
    <2>1. CASE words[m] = <<>>
      BY <2>1
    <2>2. CASE \E j \in 1..k : ~Divides(text[j]) /\ words[m] = <<text[j]>>
      <3>1. PICK j \in 1..k : ~Divides(text[j]) /\ words[m] = <<text[j]>>
        BY <2>2
      <3>2. j \in 1..(k + 1)
        BY <1>1
      <3> QED BY <3>1, <3>2
    <2> QED BY <1>4, <2>1, <2>2
  <1>6. CASE Comma(t)
    <2>1. more = Append(words, <<>>)
      BY <1>6, AddIs
    <2>2. /\ more \in Seq(Seq(Elem)) /\ Len(more) = n + 1 /\ more[n + 1] = <<>> /\ \A m \in 1..n : more[m] = words[m]
          /\ more # <<>>
      <3>1. PICK e \in Seq(Elem) : e = <<>>
        BY <1>2
      <3> DEFINE s == Append(words, e)
      <3>2. s \in Seq(Seq(Elem)) /\ Len(s) = n + 1 /\ s[n + 1] = e /\ \A m \in 1..n : s[m] = words[m]
        BY AppendProperties
      <3>3. s # <<>>
        BY OneAppended
      <3> QED BY <2>1, <3>1, <3>2, <3>3
    <2> HIDE DEF more, n
    <2>3. \A m \in 1..(n + 1) : m = n + 1 \/ m \in 1..n
      BY <1>0
    <2>4. \A m \in 1..n : m \in 1..(n + 1)
      BY <1>0
    <2>5. \A m \in 1..(n + 1) : more[m] = <<>> \/ \E j \in 1..(k + 1) : ~Divides(text[j]) /\ more[m] = <<text[j]>>
      <3> TAKE m \in 1..(n + 1)
      <3>1. CASE m = n + 1
        BY <2>2, <3>1
      <3>2. CASE m \in 1..n
        <4>1. more[m] = words[m]
          BY <2>2, <3>2
        <4> QED BY <1>10, <3>2, <4>1 DEF n
      <3> QED BY <2>3, <3>1, <3>2
    <2>6. \A j \in 1..(k + 1) : ~Divides(text[j]) => \E m \in 1..(n + 1) : more[m] = <<text[j]>>
      BY <1>4, <1>5, <1>6, <1>9, <2>2, <2>4
    <2>7. Last(more) = <<>>
      BY <2>2 DEF Last
    <2>8. Words(text, k + 1, more)
      BY <2>2, <2>5, <2>6, <2>7 DEF Words
    <2> QED BY <2>2, <2>8 DEF more
  <1>7. CASE Space(t)
    <2>1. Last(words) = <<>>
      BY <1>3, <1>7, <1>9
    <2>2. more = words
      BY <1>7, <2>1, AddIs
    <2>3. Words(text, k + 1, words)
      <3>1. \A m \in 1..n : words[m] = <<>> \/ \E j \in 1..(k + 1) : ~Divides(text[j]) /\ words[m] = <<text[j]>>
        BY <1>1, <1>4
      <3>2. \A j \in 1..(k + 1) : ~Divides(text[j]) => \E m \in 1..n : words[m] = <<text[j]>>
        BY <1>4, <1>5, <1>7, <1>9
      <3> QED BY <1>0, <2>1, <3>1, <3>2 DEF Words
    <2> QED BY <2>2, <2>3
  <1>8. CASE ~Divides(t)
    <2>1. Last(words) = <<>>
      BY <1>3, <1>8, <1>9
    <2>2. more = [words EXCEPT ![n] = Append(@, t)]
      BY <1>8, AddIs
    <2>3. more = [words EXCEPT ![n] = <<t>>]
      BY <1>0, <1>1, <1>2, <2>1, <2>2
    <2>4. /\ more \in Seq(Seq(Elem)) /\ Len(more) = n /\ more[n] = <<t>> /\ \A m \in 1..n : m # n => more[m] = words[m]
      <3> HIDE DEF t, more
      <3> QED BY <1>1, <1>2, <2>3
    <2>5. more # <<>>
      <3> HIDE DEF more, n
      <3>1. n # 0
        BY <1>0, <1>1, UpToItself
      <3> QED BY <2>4, <3>1, EmptySeq
    <2> HIDE DEF more, n
    <2>6. \A m \in 1..n : more[m] = <<>> \/ \E j \in 1..(k + 1) : ~Divides(text[j]) /\ more[m] = <<text[j]>>
      <3> TAKE m \in 1..n
      <3>1. CASE m = n
        BY <1>1, <1>8, <2>4, <3>1
      <3>2. CASE m # n
        <4>1. more[m] = words[m]
          BY <2>4, <3>2
        <4> QED BY <1>10, <4>1 DEF n
      <3> QED BY <3>1, <3>2
    <2>7. \A j \in 1..(k + 1) : ~Divides(text[j]) => \E m \in 1..n : more[m] = <<text[j]>>
      <3> TAKE j \in 1..(k + 1)
      <3> SUFFICES ASSUME ~Divides(text[j]) PROVE \E m \in 1..n : more[m] = <<text[j]>>
        OBVIOUS
      <3>1. CASE j = k + 1
        BY <1>1, <2>4, <3>1
      <3>2. CASE j \in 1..k
        <4>1. PICK m \in 1..n : words[m] = <<text[j]>>
          BY <1>4, <3>2
        <4>2. <<text[j]>> # <<>>
          OBVIOUS
        <4>3. m # n
          BY <1>0, <2>1, <4>1, <4>2
        <4> QED BY <2>4, <4>1, <4>3
      <3> QED BY <1>5, <3>1, <3>2
    <2>8. Words(text, k + 1, more)
      <3>1. Len(more) = n
        BY <2>4
      <3>2. Last(more) # <<>> => k + 1 > 0 /\ ~Divides(text[k + 1])
        BY <1>8
      <3> HIDE DEF t
      <3> QED BY <2>5, <2>6, <2>7, <3>1, <3>2 DEF Words
    <2> QED BY <2>4, <2>8 DEF more
  <1> QED BY <1>6, <1>7, <1>8, <1>9

\* A type is asked for exactly if the list names it.
LEMMA TypesMean ==
  ASSUME NEW Elem, NEW text \in Seq(Elem), Listlike(text), NEW w, ~Divides(w)
  PROVE  <<w>> \in _tables_parse_table_type(text) <=> \E k \in DOMAIN text : text[k] = w
  <1> DEFINE n == Len(text)
  <1>0. n \in Nat /\ DOMAIN text = 1..n
    BY LenProperties
  <1>1. PICK f : Parsed(text, f) /\ _tables_parse_table_type(text) = Range(f[n]) \ {<<>>}
    BY ParsedOneByOne
  <1> DEFINE Told(k) == k <= n => f[k] \in Seq(Seq(Elem)) /\ Words(text, k, f[k])
             Ind == {k \in Nat : Told(k)}
  <1>2. Told(0)
    <2>1. f[0] = <<<<>>>>
      BY <1>1 DEF Parsed
    <2> DEFINE s == f[0]
    <2>2. s \in Seq(Seq(Elem)) /\ Len(s) = 1 /\ s[1] = <<>> /\ s # <<>>
      <3>1. <<>> \in Seq(Elem)
        BY EmptySeq
      <3> QED BY <2>1, <3>1
    <2> HIDE DEF s
    <2>3. Last(s) = <<>>
      BY <2>2 DEF Last
    <2>4. Words(text, 0, s)
      BY <2>2, <2>3 DEF Words
    <2> QED BY <2>2, <2>4 DEF s
  <1>3. ASSUME NEW k \in Nat, Told(k) PROVE Told(k + 1)
    <2> SUFFICES ASSUME k + 1 <= n PROVE f[k + 1] \in Seq(Seq(Elem)) /\ Words(text, k + 1, f[k + 1])
      OBVIOUS
    <2>1. k <= n
      <3> HIDE DEF n
      <3> QED BY <1>0
    <2>2. f[k] \in Seq(Seq(Elem)) /\ Words(text, k, f[k])
      BY <1>3, <2>1
    <2>3. f[k + 1] = _tables_add_table_type(f[k], text[k + 1])
      BY <1>1 DEF Parsed
    <2> QED BY <2>2, <2>3, OneMoreWord
  <1>4. Ind = Nat
    <2> HIDE DEF Told
    <2>1. Ind \in SUBSET Nat /\ 0 \in Ind /\ \A k \in Ind : k + 1 \in Ind
      BY <1>2, <1>3
    <2> HIDE DEF Ind
    <2> QED BY <2>1, Induct
  <1>5. f[n] \in Seq(Seq(Elem)) /\ Words(text, n, f[n])
    <2>1. n \in Ind /\ n <= n
      <3> HIDE DEF Ind, n
      <3> QED BY <1>0, <1>4
    <2> QED BY <2>1
  <1> DEFINE words == f[n]
  <1>6. <<w>> # <<>>
    OBVIOUS
  <1> HIDE DEF words, n
  <1>7. DOMAIN words = 1..Len(words) /\ words \in Seq(Seq(Elem))
    BY <1>5, LenProperties DEF words
  <1>8. <<w>> \in Range(words) <=> \E m \in 1..Len(words) : words[m] = <<w>>
    BY <1>7 DEF Range
  <1>9. ASSUME NEW m \in 1..Len(words), words[m] = <<w>> PROVE \E k \in DOMAIN text : text[k] = w
    <2>1. PICK j \in 1..n : words[m] = <<text[j]>>
      BY <1>5, <1>6, <1>9 DEF Words, words
    <2>2. <<w>>[1] = w /\ <<text[j]>>[1] = text[j]
      OBVIOUS
    <2> QED BY <1>0, <1>9, <2>1, <2>2
  <1>10. ASSUME NEW k \in DOMAIN text, text[k] = w PROVE \E m \in 1..Len(words) : words[m] = <<w>>
    BY <1>0, <1>5, <1>10 DEF Words, words
  <1> QED BY <1>1, <1>6, <1>8, <1>9, <1>10 DEF words
\* What the first k members of a list of lists say.
First(W, k) == FlattenSeq(SubSeq(W, 1, k))

LEMMA FirstNone ==
  ASSUME NEW W
  PROVE  First(W, 0) = <<>>
  <1>1. 1 \in Int /\ 0 \in Int /\ 0 < 1
    OBVIOUS
  <1>2. SubSeq(W, 1, 0) = <<>>
    BY <1>1, SubSeqEmpty
  <1> QED BY <1>2, FlattenEmpty DEF First

LEMMA FirstType ==
  ASSUME NEW Elem, NEW W \in Seq(Seq(Elem)), NEW k \in 0..Len(W)
  PROVE  First(W, k) \in Seq(Elem)
  <1>1. \A i \in 1..k : W[i] \in Seq(Elem)
    OBVIOUS
  <1>2. SubSeq(W, 1, k) \in Seq(Seq(Elem))
    BY <1>1, SubSeqProperties
  <1> QED BY <1>2, FlattenType DEF First

LEMMA FirstMore ==
  ASSUME NEW Elem, NEW W \in Seq(Seq(Elem)), NEW k \in Nat, k < Len(W)
  PROVE  First(W, k + 1) = First(W, k) \o W[k + 1] /\ W[k + 1] \in Seq(Elem)
  <1> DEFINE s == SubSeq(W, 1, k)
  <1>1. k + 1 \in 1..Len(W) /\ \A i \in 1..k : i \in 1..Len(W)
    OBVIOUS
  <1>2. W[k + 1] \in Seq(Elem) /\ \A i \in 1..k : W[i] \in Seq(Elem)
    BY <1>1
  <1>3. s \in Seq(Seq(Elem))
    BY <1>2, SubSeqProperties
  <1>4. SubSeq(W, 1, k + 1) = SubSeq(W, 1, (k + 1) - 1) \o <<W[k + 1]>>
    BY <1>1, SubSeqRecursiveSecond
  <1>5. (k + 1) - 1 = k
    OBVIOUS
  <1>6. SubSeq(W, 1, k + 1) = Append(s, W[k + 1])
    BY <1>2, <1>3, <1>4, <1>5, AppendIsConcat
  <1> HIDE DEF s
  <1>7. FlattenSeq(Append(s, W[k + 1])) = FlattenSeq(s) \o W[k + 1]
    BY <1>2, <1>3, FlattenAppend
  <1> QED BY <1>2, <1>6, <1>7 DEF First, s

LEMMA FirstAll ==
  ASSUME NEW Elem, NEW W \in Seq(Seq(Elem))
  PROVE  First(W, Len(W)) = FlattenSeq(W)
  BY SubSeqFull DEF First

\* Lists that say nothing add nothing.
LEMMA FirstSkips ==
  ASSUME NEW Elem, NEW W \in Seq(Seq(Elem)), NEW k \in Nat, NEW m \in k..Len(W), \A j \in (k + 1)..m : W[j] = <<>>
  PROVE  First(W, m) = First(W, k)
  <1> DEFINE Ind == {d \in Nat : k + d <= m => First(W, k + d) = First(W, k)}
  <1>1. 0 \in Ind
    BY DEF Ind
  <1>2. ASSUME NEW d \in Ind PROVE d + 1 \in Ind
    <2> SUFFICES ASSUME k + (d + 1) <= m PROVE First(W, k + (d + 1)) = First(W, k)
      OBVIOUS
    <2>1. d \in Nat /\ k + d \in Nat /\ k + d < Len(W) /\ k + (d + 1) = (k + d) + 1 /\ k + d <= m /\ k + d \in 0..Len(W)
      OBVIOUS
    <2>2. (k + d) + 1 \in (k + 1)..m
      BY <2>1
    <2>3. First(W, k + d) = First(W, k)
      BY <2>1
    <2>4. First(W, (k + d) + 1) = First(W, k + d) \o W[(k + d) + 1] /\ W[(k + d) + 1] = <<>>
      BY <2>1, <2>2, FirstMore
    <2>5. First(W, k + d) \in Seq(Elem)
      BY <2>1, FirstType
    <2>6. First(W, k + d) \o <<>> = First(W, k + d)
      BY <2>5, ConcatEmptySeq
    <2> QED BY <2>1, <2>3, <2>4, <2>6
  <1>3. Ind \subseteq Nat
    OBVIOUS
  <1> HIDE DEF Ind
  <1>4. m - k \in Ind
    <2>1. Ind = Nat
      BY <1>1, <1>2, <1>3, Induct
    <2> QED BY <2>1
  <1>5. m - k \in Nat /\ k + (m - k) = m
    OBVIOUS
  <1> QED BY <1>4, <1>5 DEF Ind

\* Concatenation and prefixes.
LEMMA PrefixOfConcat ==
  ASSUME NEW Elem, NEW s \in Seq(Elem), NEW t \in Seq(Elem)
  PROVE  IsPrefix(s, s \o t)
  <1>1. s \o t \in Seq(Elem) /\ Len(s \o t) = Len(s) + Len(t) /\ Len(s) \in Nat /\ Len(t) \in Nat
    BY ConcatProperties
  <1>2. \A i \in 1..Len(s) : (s \o t)[i] = s[i]
    BY ConcatProperties
  <1>3. SubSeq(s, 1, Len(s)) = SubSeq(s \o t, 1, Len(s))
    BY <1>1, <1>2
  <1> QED BY <1>1, <1>3 DEF IsPrefix

LEMMA ConcatThrice ==
  ASSUME NEW Elem, NEW s \in Seq(Elem), NEW t \in Seq(Elem), NEW u \in Seq(Elem)
  PROVE  (s \o t) \o u = s \o (t \o u)
  BY ConcatAssociative

LEMMA FirstAndRest ==
  ASSUME NEW Elem, NEW W \in Seq(Seq(Elem)), NEW k \in 0..Len(W)
  PROVE  \E t \in Seq(Elem) : FlattenSeq(W) = First(W, k) \o t
  <1> DEFINE s == SubSeq(W, 1, k)
             u == SubSeq(W, k + 1, Len(W))
  <1>1. \A i \in 1..Len(W) : W[i] \in Seq(Elem)
    OBVIOUS
  <1>2. s \in Seq(Seq(Elem)) /\ u \in Seq(Seq(Elem))
    <2>1. \A i \in 1..k : W[i] \in Seq(Elem)
      BY <1>1
    <2>2. \A i \in (k + 1)..Len(W) : W[i] \in Seq(Elem)
      BY <1>1
    <2>3. k \in Int /\ Len(W) \in Int /\ k + 1 \in Int
      OBVIOUS
    <2> QED BY <2>1, <2>2, <2>3, SubSeqProperties
  <1>3. s \o u = W
    <2>1. 1 \in 1..Len(W) + 1 /\ k \in 1 - 1..Len(W) /\ Len(W) \in k..Len(W)
      OBVIOUS
    <2>2. s \o u = SubSeq(W, 1, Len(W))
      BY <2>1, ConcatAdjacentSubSeq
    <2> QED BY <2>2, SubSeqFull
  <1> HIDE DEF u, s
  <1>4. FlattenSeq(s \o u) = FlattenSeq(s) \o FlattenSeq(u)
    BY <1>2, FlattenConcat
  <1>5. FlattenSeq(u) \in Seq(Elem)
    BY <1>2, FlattenType
  <1> QED BY <1>3, <1>4, <1>5 DEF First, s

LEMMA FirstIsPrefix ==
  ASSUME NEW Elem, NEW W \in Seq(Seq(Elem)), NEW k \in 0..Len(W)
  PROVE  IsPrefix(First(W, k), FlattenSeq(W))
  <1>1. First(W, k) \in Seq(Elem)
    BY FirstType
  <1> QED BY <1>1, FirstAndRest, PrefixOfConcat

\* In the middle of one of the lists.
LEMMA WithinIsPrefix ==
  ASSUME NEW Elem, NEW W \in Seq(Seq(Elem)), NEW k \in Nat, k < Len(W), NEW p \in Seq(Elem), NEW q \in Seq(Elem), W[k + 1] = p \o q
  PROVE  IsPrefix(First(W, k) \o p, FlattenSeq(W))
  <1> DEFINE f == First(W, k)
             g == First(W, k + 1)
             all == FlattenSeq(W)
  <1>1. f \in Seq(Elem) /\ k + 1 \in 0..Len(W)
    BY FirstType
  <1>2. PICK t \in Seq(Elem) : all = g \o t
    BY <1>1, FirstAndRest
  <1>3. g = f \o (p \o q)
    BY FirstMore
  <1> HIDE DEF f, g, all
  <1>4. g = (f \o p) \o q
    <2>1. f \in Seq(Elem) /\ p \in Seq(Elem) /\ q \in Seq(Elem)
      BY <1>1
    <2>2. (f \o p) \o q = f \o (p \o q)
      BY ONLY <2>1, ConcatThrice
    <2> QED BY <1>3, <2>2
  <1>5. f \o p \in Seq(Elem) /\ q \o t \in Seq(Elem)
    BY <1>1, <1>2, ConcatProperties
  <1>6. all = (f \o p) \o (q \o t)
    <2> DEFINE a == f \o p
    <2>1. a \in Seq(Elem) /\ q \in Seq(Elem) /\ t \in Seq(Elem)
      BY <1>5
    <2> HIDE DEF a
    <2>2. (a \o q) \o t = a \o (q \o t)
      BY ONLY <2>1, ConcatThrice
    <2> QED BY <1>2, <1>4, <2>2 DEF a
  <1>7. IsPrefix(f \o p, all)
    BY <1>5, <1>6, PrefixOfConcat
  <1> QED BY <1>7 DEF f, all
-----------------------------------------------------------------------------
(* The walk through the tables.  The lists below are by the filters of the *)
(* driver: what its calls hand out, whatever they make of a pattern.       *)

Passes(a, i) == _fetch_row_with_tsdb(a, i)
Generic(a)   == tables_type(a) = "generic"
Pairs        == (DOMAIN Server) \X Names
Column       == [name : Names, type : STRING, bytes : Nat]

TableLists(a, rows) == [k \in DOMAIN rows |-> IF Passes(a, rows[k]) THEN <<rows[k]>> ELSE <<>>]
NameLists(a, i) ==
  [k \in DOMAIN Server[i].cols |->
     IF Matches(a.column, Server[i].cols[k].name) THEN <<<<i, Server[i].cols[k].name>>>> ELSE <<>>]
ColumnLists(a, rows) ==
  [k \in DOMAIN rows |-> IF Passes(a, rows[k]) THEN FlattenSeq(NameLists(a, rows[k])) ELSE <<>>]
TypeLists(a, from) == [r \in DOMAIN _records |-> IF r > from /\ r \in OfType(a.data_type) THEN <<r>> ELSE <<>>]
KeyOf(i) == IF Server[i].cols[1].type = "TIMESTAMP" THEN <<<<i, Server[i].cols[1].name>>>> ELSE <<>>

LEMMA ServerTyped ==
  ASSUME NEW i \in DOMAIN Server
  PROVE  /\ Server[i].cols \in Seq(Column) /\ Len(Server[i].cols) \in Nat \ {0}
         /\ DOMAIN Server[i].cols = 1..Len(Server[i].cols)
         /\ Server[i].p \in 0..2 /\ Server[i].db \in Names /\ Server[i].name \in Names
         /\ \A k \in 1..Len(Server[i].cols) : Server[i].cols[k] \in Column
  <1> DEFINE Table == [db : Names, name : Names, kind : Kinds, p : 0..2, cols : Seq(Column) \ {<<>>}]
  <1>1. Server \in Seq(Table)
    BY CatalogAssumption DEF Column
  <1>2. Server[i] \in Table
    <2> HIDE DEF Table
    <2>1. DOMAIN Server = 1..Len(Server)
      BY <1>1, LenProperties
    <2> QED BY <1>1, <2>1
  <1>3. Server[i].cols \in Seq(Column) \ {<<>>} /\ Server[i].p \in 0..2 /\ Server[i].db \in Names /\ Server[i].name \in Names
    BY <1>2
  <1> DEFINE c == Server[i].cols
  <1> HIDE DEF c
  <1>4. c \in Seq(Column) /\ c # <<>>
    BY <1>3 DEF c
  <1>5. Len(c) \in Nat \ {0} /\ DOMAIN c = 1..Len(c) /\ \A k \in 1..Len(c) : c[k] \in Column
    BY <1>4
  <1> QED BY <1>3, <1>4, <1>5 DEF c

\* A function on 1..n with values in a set is a sequence.
LEMMA FunctionIsSeq ==
  ASSUME NEW Elem, NEW n \in Nat, NEW f, f = [k \in 1..n |-> f[k]], \A k \in 1..n : f[k] \in Elem
  PROVE  f \in Seq(Elem) /\ Len(f) = n
  <1>1. f \in [1..n -> Elem]
    OBVIOUS
  <1> QED BY <1>1

LEMMA NameListsTyped ==
  ASSUME NEW a, NEW i \in DOMAIN Server
  PROVE  /\ NameLists(a, i) \in Seq(Seq(Pairs)) /\ Len(NameLists(a, i)) = Len(Server[i].cols)
         /\ FlattenSeq(NameLists(a, i)) \in Seq(Pairs)
         /\ \A k \in 1..Len(Server[i].cols) :
              NameLists(a, i)[k] = IF Matches(a.column, Server[i].cols[k].name)
                                   THEN <<<<i, Server[i].cols[k].name>>>> ELSE <<>>
  <1> DEFINE c == Server[i].cols
             w == NameLists(a, i)
  <1>1. DOMAIN c = 1..Len(c) /\ Len(c) \in Nat /\ \A k \in 1..Len(c) : c[k].name \in Names
    BY ServerTyped DEF Column
  <1>2. w = [k \in 1..Len(c) |-> IF Matches(a.column, c[k].name) THEN <<<<i, c[k].name>>>> ELSE <<>>]
    BY <1>1 DEF NameLists
  <1> HIDE DEF c, w
  <1>3. \A k \in 1..Len(c) : w[k] = IF Matches(a.column, c[k].name) THEN <<<<i, c[k].name>>>> ELSE <<>>
    BY <1>2
  <1>4. ASSUME NEW k \in 1..Len(c) PROVE w[k] \in Seq(Pairs)
    <2>1. <<i, c[k].name>> \in Pairs
      BY <1>1 DEF Pairs
    <2>2. <<<<i, c[k].name>>>> \in Seq(Pairs) /\ <<>> \in Seq(Pairs)
      BY <2>1
    <2> QED BY <1>3, <2>2
  <1>5. w \in Seq(Seq(Pairs)) /\ Len(w) = Len(c)
    <2>1. w = [k \in 1..Len(c) |-> w[k]]
      BY <1>2
    <2> QED BY <1>1, <1>4, <2>1, FunctionIsSeq
  <1>6. FlattenSeq(w) \in Seq(Pairs)
    BY <1>5, FlattenType
  <1> QED BY <1>3, <1>5, <1>6 DEF c, w

LEMMA TableListsTyped ==
  ASSUME NEW a, NEW rows \in Seq(DOMAIN Server)
  PROVE  /\ TableLists(a, rows) \in Seq(Seq(DOMAIN Server)) /\ Len(TableLists(a, rows)) = Len(rows)
         /\ \A k \in 1..Len(rows) : TableLists(a, rows)[k] = IF Passes(a, rows[k]) THEN <<rows[k]>> ELSE <<>>
  <1> DEFINE w == TableLists(a, rows)
             Ids == DOMAIN Server
  <1> HIDE DEF Ids
  <1>0. rows \in Seq(Ids)
    BY DEF Ids
  <1>1. DOMAIN rows = 1..Len(rows) /\ Len(rows) \in Nat /\ \A k \in 1..Len(rows) : rows[k] \in Ids
    BY <1>0
  <1>2. w = [k \in 1..Len(rows) |-> IF Passes(a, rows[k]) THEN <<rows[k]>> ELSE <<>>]
    BY <1>1 DEF TableLists
  <1> HIDE DEF w
  <1>3. \A k \in 1..Len(rows) : w[k] = IF Passes(a, rows[k]) THEN <<rows[k]>> ELSE <<>>
    BY <1>2
  <1>4. ASSUME NEW k \in 1..Len(rows) PROVE w[k] \in Seq(Ids)
    <2>1. <<rows[k]>> \in Seq(Ids) /\ <<>> \in Seq(Ids)
      BY <1>1
    <2> QED BY <1>3, <2>1
  <1>5. w \in Seq(Seq(Ids)) /\ Len(w) = Len(rows)
    <2>1. w = [k \in 1..Len(rows) |-> w[k]]
      BY <1>2
    <2> QED BY <1>1, <1>4, <2>1, FunctionIsSeq
  <1> QED BY <1>3, <1>5 DEF w, Ids

LEMMA ColumnListsTyped ==
  ASSUME NEW a, NEW rows \in Seq(DOMAIN Server)
  PROVE  /\ ColumnLists(a, rows) \in Seq(Seq(Pairs)) /\ Len(ColumnLists(a, rows)) = Len(rows)
         /\ \A k \in 1..Len(rows) :
              ColumnLists(a, rows)[k] = IF Passes(a, rows[k]) THEN FlattenSeq(NameLists(a, rows[k])) ELSE <<>>
  <1> DEFINE w == ColumnLists(a, rows)
             Ids == DOMAIN Server
  <1> HIDE DEF Ids
  <1>0. rows \in Seq(Ids)
    BY DEF Ids
  <1>1. DOMAIN rows = 1..Len(rows) /\ Len(rows) \in Nat /\ \A k \in 1..Len(rows) : rows[k] \in Ids
    BY <1>0
  <1>2. w = [k \in 1..Len(rows) |-> IF Passes(a, rows[k]) THEN FlattenSeq(NameLists(a, rows[k])) ELSE <<>>]
    BY <1>1 DEF ColumnLists
  <1> HIDE DEF w
  <1>3. \A k \in 1..Len(rows) : w[k] = IF Passes(a, rows[k]) THEN FlattenSeq(NameLists(a, rows[k])) ELSE <<>>
    BY <1>2
  <1>4. ASSUME NEW k \in 1..Len(rows) PROVE w[k] \in Seq(Pairs)
    <2>1. FlattenSeq(NameLists(a, rows[k])) \in Seq(Pairs)
      BY <1>1, NameListsTyped DEF Ids
    <2>2. <<>> \in Seq(Pairs)
      OBVIOUS
    <2> QED BY <1>3, <2>1, <2>2
  <1>5. w \in Seq(Seq(Pairs)) /\ Len(w) = Len(rows)
    <2>1. w = [k \in 1..Len(rows) |-> w[k]]
      BY <1>2
    <2> QED BY <1>1, <1>4, <2>1, FunctionIsSeq
  <1> QED BY <1>3, <1>5 DEF w

LEMMA TypeListsTyped ==
  ASSUME NEW a, NEW from
  PROVE  /\ TypeLists(a, from) \in Seq(Seq(Nat)) /\ Len(TypeLists(a, from)) = 4
         /\ \A k \in 1..4 : TypeLists(a, from)[k] = IF k > from /\ k \in OfType(a.data_type) THEN <<k>> ELSE <<>>
  <1> DEFINE w == TypeLists(a, from)
  <1>1. DOMAIN _records = 1..4
    BY DEF _records
  <1>2. w = [k \in 1..4 |-> IF k > from /\ k \in OfType(a.data_type) THEN <<k>> ELSE <<>>]
    BY <1>1 DEF TypeLists
  <1> HIDE DEF w
  <1>3. \A k \in 1..4 : w[k] = IF k > from /\ k \in OfType(a.data_type) THEN <<k>> ELSE <<>>
    BY <1>2
  <1>4. ASSUME NEW k \in 1..4 PROVE w[k] \in Seq(Nat)
    <2>1. <<k>> \in Seq(Nat) /\ <<>> \in Seq(Nat)
      OBVIOUS
    <2> QED BY <1>3, <2>1
  <1>5. w \in Seq(Seq(Nat)) /\ Len(w) = 4
    <2>1. w = [k \in 1..4 |-> w[k]]
      BY <1>2
    <2> QED BY <1>4, <2>1, FunctionIsSeq
  <1> QED BY <1>3, <1>5 DEF w

\* A call that walks asks for the tables and views, so its list is the generic one.
LEMMA WalksAreGeneric ==
  ASSUME NEW a \in Asks, a.fn \in {"columns", "primarykeys"}
  PROVE  Generic(a)
  <1>1. a.types.text = <<"TABLE", ",", "VIEW">> \/ a.types.text = <<"TABLE">>
    BY CatalogAssumption
  <1>2. ~Blank(a.types) /\ ~Percent(a.types)
    <2>1. <<"TABLE", ",", "VIEW">> # <<>> /\ Head(<<"TABLE", ",", "VIEW">>) = "TABLE"
      OBVIOUS
    <2>2. <<"TABLE">> # <<>> /\ Head(<<"TABLE">>) = "TABLE" /\ "TABLE" # "%"
      OBVIOUS
    <2> QED BY <1>1, <2>1, <2>2 DEF Blank, Percent
  <1> QED BY <1>2 DEF Generic, tables_type

\* No table among the first k passes: nothing is listed of them.
Skips(a, rows, k) == \A j \in 1..k : ~Passes(a, rows[j])

LEMMA SkipsListNothing ==
  ASSUME NEW a, NEW rows \in Seq(DOMAIN Server), NEW k \in 0..Len(rows), Skips(a, rows, k)
  PROVE  First(TableLists(a, rows), k) = <<>> /\ First(ColumnLists(a, rows), k) = <<>>
  <1>0. k \in 0..Len(TableLists(a, rows)) /\ k \in 0..Len(ColumnLists(a, rows)) /\ \A j \in (0 + 1)..k : j \in 1..Len(rows) /\ j \in 1..k
    BY TableListsTyped, ColumnListsTyped
  <1>1. \A j \in (0 + 1)..k : TableLists(a, rows)[j] = <<>> /\ ColumnLists(a, rows)[j] = <<>>
    BY <1>0, TableListsTyped, ColumnListsTyped DEF Skips
  <1>2. First(TableLists(a, rows), k) = First(TableLists(a, rows), 0)
    BY <1>0, <1>1, TableListsTyped, FirstSkips
  <1>3. First(ColumnLists(a, rows), k) = First(ColumnLists(a, rows), 0)
    BY <1>0, <1>1, ColumnListsTyped, FirstSkips
  <1> QED BY <1>2, <1>3, FirstNone

\* Whatever a list holds, it is a sequence: of its own members.
IsList(s) == s \in Seq(Range(s))

LEMMA ListIs ==
  ASSUME NEW Elem, NEW s \in Seq(Elem)
  PROVE  IsList(s)
  BY SeqOfRange DEF IsList

LEMMA ListGrows ==
  ASSUME NEW s, IsList(s), NEW e
  PROVE  /\ IsList(Append(s, e)) /\ Len(s) \in Nat /\ Len(Append(s, e)) = Len(s) + 1
         /\ Append(s, e) # <<>> /\ Last(Append(s, e)) = e
         /\ \A k \in 1..Len(s) : Append(s, e)[k] = s[k]
         /\ DOMAIN s = 1..Len(s) /\ DOMAIN Append(s, e) = 1..(Len(s) + 1)
  <1> DEFINE Elem == Range(s) \cup {e}
  <1>1. s \in Seq(Elem) /\ e \in Elem
    <2>1. s \in Seq(Range(s)) /\ Range(s) \subseteq Elem
      BY DEF IsList
    <2> HIDE DEF Elem
    <2>2. s \in Seq(Elem)
      BY <2>1
    <2> QED BY <2>2 DEF Elem
  <1> HIDE DEF Elem
  <1>2. /\ Append(s, e) \in Seq(Elem) /\ Append(s, e) # <<>> /\ Len(Append(s, e)) = Len(s) + 1
        /\ Append(s, e)[Len(s) + 1] = e /\ Len(s) \in Nat /\ \A k \in 1..Len(s) : Append(s, e)[k] = s[k]
    BY <1>1, AppendProperties, LenProperties
  <1>3. IsList(Append(s, e))
    BY <1>2, ListIs
  <1>4. DOMAIN s = 1..Len(s) /\ DOMAIN Append(s, e) = 1..(Len(s) + 1)
    BY <1>1, <1>2, LenProperties
  <1> QED BY <1>2, <1>3, <1>4 DEF Last

LEMMA EverythingTyped == Everything \in Seq(DOMAIN Server)
  <1> DEFINE n == Len(Server)
             all == [i \in DOMAIN Server |-> i]
             passing == {k \in DOMAIN all : Listed(all[k])}
             w == [k \in DOMAIN all |-> IF k \in passing THEN <<all[k]>> ELSE <<>>]
             Ids == DOMAIN Server
  <1>1. n \in Nat /\ DOMAIN Server = 1..n
    BY CatalogAssumption, LenProperties
  <1>2. Everything = FlattenSeq(w)
    BY DEF Everything, Sifted
  <1>3. w = [k \in 1..n |-> w[k]] /\ \A k \in 1..n : w[k] = <<k>> \/ w[k] = <<>>
    BY <1>1
  <1> HIDE DEF w, all, passing, n
  <1>4. w \in Seq(Seq(Ids))
    <2>1. \A k \in 1..n : <<k>> \in Seq(Ids) /\ <<>> \in Seq(Ids)
      BY <1>1
    <2> HIDE DEF Ids
    <2>2. \A k \in 1..n : w[k] \in Seq(Ids)
      BY <1>3, <2>1
    <2> QED BY <1>1, <1>3, <2>2, FunctionIsSeq
  <1> QED BY <1>2, <1>4, FlattenType DEF Ids

LEMMA DbsAreList == IsList(_tables_open_catalogs)
  <1> DEFINE f == [i \in DOMAIN Server |-> Server[i].db]
             All0 == {Server[i].db : i \in DOMAIN Server}
  <1>1. Len(Server) \in Nat /\ DOMAIN Server = 1..Len(Server)
    BY CatalogAssumption, LenProperties
  <1>2. IsFiniteSet(DOMAIN Server)
    <2>1. 1 \in Int /\ Len(Server) \in Int
      BY <1>1
    <2> QED BY <1>1, <2>1, FS_Interval
  <1>3. IsFiniteSet(Dbs)
    <2>1. f \in Surjection(DOMAIN Server, All0)
      BY DEF Surjection
    <2>2. IsFiniteSet(All0)
      BY <1>2, <2>1, FS_Surjection
    <2>3. Dbs \subseteq All0
      BY DEF Dbs
    <2> QED BY <2>2, <2>3, FS_Subset
  <1>4. \E g : g \in [1..Cardinality(Dbs) -> Dbs] /\ IsInjective(g)
    <2>1. PICK n \in Nat : ExistsBijection(1..n, Dbs)
      BY <1>3, FS_NatBijection
    <2>2. n = Cardinality(Dbs)
      BY <2>1, FS_CountingElements
    <2>3. PICK g : g \in Bijection(1..n, Dbs)
      BY <2>1 DEF ExistsBijection
    <2>4. g \in [1..n -> Dbs] /\ IsInjective(g)
      BY <2>3 DEF Bijection, Injection
    <2> QED BY <2>2, <2>4
  <1>5. SetToSeq(Dbs) \in [1..Cardinality(Dbs) -> Dbs]
    BY <1>4 DEF SetToSeq
  <1>6. Cardinality(Dbs) \in Nat
    BY <1>3, FS_CardinalityType
  <1>7. SetToSeq(Dbs) \in Seq(Dbs)
    BY <1>5, <1>6
  <1> QED BY <1>7, ListIs DEF _tables_open_catalogs

LEMMA OpenedTyped ==
  ASSUME NEW a
  PROVE  IsList(tables_open(a)) /\ (Generic(a) => tables_open(a) \in Seq(DOMAIN Server))
  <1>1. IsList(Everything)
    BY EverythingTyped, ListIs
  <1>2. IsList(_tables_open_schemas) /\ IsList(_tables_open_tabletypes)
    <2>1. /\ _tables_open_schemas \in Seq({1})
          /\ _tables_open_tabletypes \in Seq({"CHILD TABLE", "SUPER TABLE", "SYSTEM TABLE", "TABLE", "VIEW"})
      BY DEF _tables_open_schemas, _tables_open_tabletypes
    <2> QED BY <2>1, ListIs
  <1>3. Generic(a) => tables_open(a) = Everything
    BY DEF Generic, tables_open
  <1>4. tables_open(a) \in {_tables_open_catalogs, _tables_open_schemas, _tables_open_tabletypes, Everything}
    BY DEF tables_open
  <1> QED BY <1>1, <1>2, <1>3, <1>4, DbsAreList, EverythingTyped

-----------------------------------------------------------------------------
(* The inductive invariant of the walk.                                    *)

IsCursor(c) ==
  /\ DOMAIN c = {"rows", "pos", "fails"} /\ c.fails \in BOOLEAN
  /\ IsList(c.rows) /\ c.pos \in 0..Len(c.rows)

Walks == opening \/ base \in {"columns", "primarykeys"}

\* Where the driver can be, and for which call.
Positions ==
  /\ pc \in {"idle", "tables", "desc", "select", "desc_row"} /\ opening \in BOOLEAN
  /\ base \in {"none", "tables", "columns", "primarykeys", "typesinfo"}
  /\ base # "none" => ask \in Asks /\ base = ask.fn /\ ~opening
  /\ opening => /\ ask \in Asks /\ ask.fn \in {"columns", "primarykeys"} /\ base = "none"
                /\ got = <<>> /\ ordinal = 0 /\ pc \in {"tables", "desc", "select"}
  /\ pc # "idle" => Walks
  /\ pc = "select" => ask.fn = "columns"
  /\ base = "primarykeys" => pc \in {"idle", "desc_row"}
  /\ IsCursor(tables) /\ IsCursor(desc) /\ IsList(got)
  /\ Walks \/ (base = "tables" /\ Generic(ask)) => tables.rows \in Seq(DOMAIN Server)

\* tables stands behind the table that is looked into, desc is the list of its columns.
AtTable   == tables.pos >= 1 /\ current = tables.rows[tables.pos] /\ Passes(ask, current)
OfCurrent == desc.rows = Server[current].cols
Walking ==
  Walks =>
    /\ pc \in {"desc", "select"} => AtTable
    /\ pc = "select" => desc.pos = 0 /\ (~desc.fails => OfCurrent)
    /\ (pc = "tables" /\ ~opening) => AtEnd(desc)
    /\ (pc \in {"idle", "desc_row"} /\ HasRow(desc)) => AtTable /\ OfCurrent
    /\ (pc \in {"idle", "desc_row"} /\ desc.fails) => tables.pos >= 1
    /\ opening => Skips(ask, tables.rows, IF pc = "tables" THEN tables.pos ELSE tables.pos - 1)

\* What SQLColumns says of a column now.
Told(i, col) ==
  IF Unsupported(col) THEN Answered(i, col.name, "none", "none", 0, 0)
  ELSE Answered(i, col.name, DATA_TYPE(col.type),
                IF AsText(cfg, col.type) THEN "NCHAR" ELSE col.type,
                IF AsText(cfg, col.type) THEN TextOfTimestamp(IF query = "ok" THEN Server[i].p ELSE 0) ELSE col.bytes,
                ordinal)
LastTold ==
  (base = "columns" /\ pc = "idle" /\ ret = "ok" /\ got # <<>>) =>
    \E i \in DOMAIN Server : \E k \in DOMAIN Server[i].cols : Last(got) = Told(i, Server[i].cols[k])

\* SQLPrimaryKeys lists one column of the first table.
Keys ==
  base = "primarykeys" =>
    /\ AtTable /\ Skips(ask, tables.rows, tables.pos - 1)
    /\ \/ /\ ordinal = 0 /\ got = <<>> /\ desc.pos = 0 /\ (~desc.fails => OfCurrent)
          /\ pc = "idle" => ret # "nodata"
       \/ ordinal = 1 /\ pc = "idle" /\ Listing = KeyOf(current)

WalkInv == Positions /\ Walking /\ LastTold /\ Keys

LEMMA ClosedIs == IsCursor(Closed) /\ Closed.fails
  <1>1. IsList(<<>>) /\ Len(<<>>) = 0
    <2>1. <<>> \in Seq({1})
      OBVIOUS
    <2> QED BY <2>1, ListIs
  <1> QED BY <1>1 DEF IsCursor, Closed, Cursor

LEMMA ResultsAre ==
  ASSUME NEW rows, IsList(rows), NEW c \in Results(rows)
  PROVE  IsCursor(c) /\ c.rows = rows /\ c.pos = 0
  <1>1. Len(rows) \in Nat
    BY ListGrows
  <1>2. PICK f \in BOOLEAN : c = Cursor(rows, f)
    BY DEF Results
  <1>3. DOMAIN c = {"rows", "pos", "fails"} /\ c.rows = rows /\ c.pos = 0 /\ c.fails = f
    BY <1>2 DEF Cursor
  <1> QED BY <1>1, <1>3 DEF IsCursor

LEMMA CursorLength ==
  ASSUME NEW c, IsCursor(c)
  PROVE  Len(c.rows) \in Nat /\ c.pos \in Nat /\ c.pos <= Len(c.rows)
  <1>1. Len(c.rows) \in Nat
    BY ListGrows DEF IsCursor
  <1> QED BY <1>1 DEF IsCursor

LEMMA MovedIs ==
  ASSUME NEW c, IsCursor(c), NEW k \in 0..Len(c.rows)
  PROVE  LET d == [c EXCEPT !.pos = k]
         IN  IsCursor(d) /\ d.rows = c.rows /\ d.pos = k /\ d.fails = c.fails
  <1> DEFINE d == [c EXCEPT !.pos = k]
  <1>1. DOMAIN d = DOMAIN c /\ d.pos = k /\ d.rows = c.rows /\ d.fails = c.fails
    BY DEF IsCursor
  <1> HIDE DEF d
  <1>2. IsCursor(d)
    BY <1>1 DEF IsCursor
  <1> QED BY <1>1, <1>2 DEF d

LEMMA AdvanceIs ==
  ASSUME NEW c, IsCursor(c), HasRow(c)
  PROVE  /\ IsCursor(Advance(c)) /\ Advance(c).rows = c.rows /\ Advance(c).pos = c.pos + 1 /\ Advance(c).fails = c.fails
         /\ ~c.fails /\ c.pos \in Nat /\ c.pos + 1 \in 1..Len(c.rows)
  <1>1. c.pos + 1 \in 0..Len(c.rows) /\ c.pos + 1 \in 1..Len(c.rows) /\ ~c.fails /\ c.pos \in Nat
    BY CursorLength DEF HasRow
  <1>2. Advance(c) = [c EXCEPT !.pos = c.pos + 1]
    BY DEF Advance
  <1> QED BY <1>1, <1>2, MovedIs

LEMMA AtRestKeeps ==
  ASSUME base' = "none", opening' = FALSE, pc' = "idle", tables' = Closed, desc' = Closed, got' = <<>>
  PROVE  WalkInv'
  <1>1. IsCursor(tables)' /\ IsCursor(desc)'
    BY ClosedIs DEF IsCursor
  <1>2. IsList(got)'
    <2>1. <<>> \in Seq({1})
      OBVIOUS
    <2>2. IsList(<<>>)
      BY <2>1, ListIs
    <2> QED BY <2>2 DEF IsList
  <1>3. ~Walks'
    BY DEF Walks
  <1> QED BY <1>1, <1>2, <1>3 DEF WalkInv, Positions, Walking, LastTold, Keys

LEMMA InitWalk == CatalogInit => WalkInv
  <1> SUFFICES ASSUME CatalogInit PROVE WalkInv
    OBVIOUS
  <1>1. IsCursor(tables) /\ IsCursor(desc)
    BY ClosedIs DEF CatalogInit
  <1>2. IsList(got)
    <2>1. <<>> \in Seq({1})
      OBVIOUS
    <2>2. IsList(<<>>)
      BY <2>1, ListIs
    <2> QED BY <2>2 DEF CatalogInit
  <1>3. ~Walks
    BY DEF Walks, CatalogInit
  <1> QED BY <1>1, <1>2, <1>3 DEF WalkInv, Positions, Walking, LastTold, Keys, CatalogInit

LEMMA TablesOpenWalk ==
  ASSUME WalkInv, NEW a \in Asks, SQLTables(a)
  PROVE  WalkInv'
  <1>1. a.fn = "tables" /\ pc = "idle" /\ base = "none" /\ got' = <<>> /\ ~opening
    BY DEF SQLTables, Begin, WalkInv, Positions
  <1>2. CASE OpenFails
    BY <1>1, <1>2, AtRestKeeps DEF OpenFails, Return
  <1>3. CASE /\ \E c \in Results(tables_open(a)) : tables' = c /\ ask' = a /\ base' = "tables" /\ Return("ok")
             /\ UNCHANGED <<desc, current, query, ordinal>>
    <2>1. PICK c \in Results(tables_open(a)) : tables' = c /\ ask' = a /\ base' = "tables" /\ Return("ok")
      BY <1>3
    <2>2. IsCursor(c) /\ c.rows = tables_open(a) /\ (Generic(a) => c.rows \in Seq(DOMAIN Server))
      BY OpenedTyped, ResultsAre
    <2>3. IsCursor(tables)' /\ IsCursor(desc)' /\ (Generic(ask)' => (tables.rows \in Seq(DOMAIN Server))')
      BY <1>3, <2>1, <2>2 DEF WalkInv, Positions, IsCursor, Generic
    <2>4. IsList(got)'
      <3>1. <<>> \in Seq({1})
        OBVIOUS
      <3>2. IsList(<<>>)
        BY <3>1, ListIs
      <3> QED BY <1>1, <3>2 DEF IsList
    <2>5. ~Walks' /\ pc' = "idle" /\ opening' = FALSE /\ base' = "tables" /\ ask' = a
      BY <2>1 DEF Walks, Return
    <2> QED BY <1>1, <2>3, <2>4, <2>5 DEF WalkInv, Positions, Walking, LastTold, Keys
  <1> QED BY <1>2, <1>3 DEF SQLTables

LEMMA ColumnsOpenWalk ==
  ASSUME WalkInv, NEW a \in Asks, SQLColumns(a)
  PROVE  WalkInv'
  <1>1. a.fn \in {"columns", "primarykeys"} /\ pc = "idle" /\ base = "none" /\ got' = <<>> /\ ~opening
    BY DEF SQLColumns, Begin, WalkInv, Positions
  <1>2. CASE OpenFails
    BY <1>1, <1>2, AtRestKeeps DEF OpenFails, Return
  <1>3. CASE /\ ~BadPattern(a) /\ \E c \in Results(tables_open(a)) : tables' = c
             /\ ask' = a /\ desc' = Closed /\ current' = 0 /\ query' = "none" /\ ordinal' = 0
             /\ pc' = "tables" /\ opening' = TRUE /\ UNCHANGED <<base, ret>>
    <2>1. PICK c \in Results(tables_open(a)) : tables' = c
      BY <1>3
    <2>2. IsCursor(c) /\ c.rows \in Seq(DOMAIN Server) /\ c.pos = 0
      BY <1>1, OpenedTyped, ResultsAre, WalksAreGeneric
    <2>3. IsCursor(tables)' /\ IsCursor(desc)' /\ (tables.rows \in Seq(DOMAIN Server))' /\ tables'.pos = 0
      BY <1>3, <2>1, <2>2, ClosedIs DEF IsCursor
    <2>4. IsList(got)'
      <3>1. <<>> \in Seq({1})
        OBVIOUS
      <3>2. IsList(<<>>)
        BY <3>1, ListIs
      <3> QED BY <1>1, <3>2 DEF IsList
    <2>5. Positions'
      BY <1>1, <1>3, <2>3, <2>4 DEF Positions, Walks
    <2>6. Skips(ask', tables'.rows, 0)
      BY DEF Skips
    <2>7. Walking'
      BY <1>3, <2>3, <2>6 DEF Walking, Skips
    <2> QED BY <1>1, <1>3, <2>5, <2>7 DEF WalkInv, LastTold, Keys
  <1> QED BY <1>2, <1>3 DEF SQLColumns

LEMMA TypesOpenWalk ==
  ASSUME WalkInv, NEW a \in Asks, SQLGetTypeInfo(a)
  PROVE  WalkInv'
  <1>1. /\ a.fn = "typesinfo" /\ pc = "idle" /\ got' = <<>> /\ ~opening /\ ask' = a /\ base' = "typesinfo"
        /\ pc' = "idle" /\ opening' = FALSE /\ tables' = tables /\ desc' = desc
    BY DEF SQLGetTypeInfo, Begin, Return, WalkInv, Positions
  <1>2. IsList(got)'
    <2>1. <<>> \in Seq({1})
      OBVIOUS
    <2>2. IsList(<<>>)
      BY <2>1, ListIs
    <2> QED BY <1>1, <2>2 DEF IsList
  <1>3. IsCursor(tables)' /\ IsCursor(desc)' /\ ~Walks'
    BY <1>1 DEF WalkInv, Positions, IsCursor, Walks
  <1> QED BY <1>1, <1>2, <1>3 DEF WalkInv, Positions, Walking, LastTold, Keys

LEMMA CloseWalk ==
  ASSUME WalkInv, SQLCloseCursor
  PROVE  WalkInv'
  <1>1. /\ base' = "none" /\ opening' = FALSE /\ pc' = "idle" /\ tables' = Closed /\ desc' = Closed /\ got' = <<>>
    BY DEF SQLCloseCursor, Return
  <1> QED BY <1>1, AtRestKeeps

LEMMA TableFetchWalk ==
  ASSUME WalkInv, FetchTable
  PROVE  WalkInv'
  <1>1. /\ pc = "idle" /\ base = "tables" /\ pc' = "idle" /\ base' = "tables" /\ opening' = FALSE /\ ~opening
        /\ ask' = ask /\ desc' = desc /\ ask \in Asks /\ ask.fn = "tables"
    BY DEF FetchTable, Return, WalkInv, Positions
  <1>2. ~Walks /\ ~Walks'
    BY <1>1 DEF Walks
  <1>3. IsCursor(tables)' /\ tables'.rows = tables.rows /\ IsList(got)'
    <2> DEFINE passes(k) == tables_type(ask) # "generic" \/ _fetch_row_with_tsdb(ask, tables.rows[k])
               next == {k \in tables.pos + 1 .. Len(tables.rows) : passes(k)}
               k == CHOOSE k \in next : \A l \in next : k <= l
    <2>1. IsCursor(tables) /\ IsList(got) /\ Len(tables.rows) \in Nat /\ tables.pos \in Nat
      BY CursorLength DEF WalkInv, Positions
    <2>2. CASE UNCHANGED <<tables, got>>
      BY <2>1, <2>2 DEF IsCursor, IsList
    <2>3. CASE tables' = [tables EXCEPT !.pos = Len(tables.rows)] /\ UNCHANGED got
      <3>1. Len(tables.rows) \in 0..Len(tables.rows)
        BY <2>1
      <3> QED BY <2>1, <2>3, <3>1, MovedIs DEF IsCursor, IsList
    <2>4. CASE next # {} /\ tables' = [tables EXCEPT !.pos = k] /\ got' = Append(got, tables.rows[k])
      <3>1. next \in SUBSET Nat
        BY <2>1
      <3>2. \E n \in next : \A l \in next : n <= l
        <4> HIDE DEF next
        <4> QED BY <2>4, <3>1, Least
      <3>3. k \in next
        BY <3>2
      <3>4. k \in 0..Len(tables.rows)
        BY <2>1, <3>3
      <3> HIDE DEF k, next
      <3>5. IsCursor(tables)' /\ tables'.rows = tables.rows
        BY <2>1, <2>4, <3>4, MovedIs DEF IsCursor
      <3>6. IsList(got)'
        BY <2>1, <2>4, ListGrows DEF IsList
      <3> QED BY <3>5, <3>6
    <2> QED BY <2>2, <2>3, <2>4 DEF FetchTable
  <1>4. Generic(ask)' => (tables.rows \in Seq(DOMAIN Server))'
    BY <1>1, <1>3 DEF WalkInv, Positions, Generic
  <1>5. IsCursor(desc)'
    BY <1>1 DEF WalkInv, Positions, IsCursor
  <1> QED BY <1>1, <1>2, <1>3, <1>4, <1>5 DEF WalkInv, Positions, Walking, LastTold, Keys

LEMMA TypeFetchWalk ==
  ASSUME WalkInv, FetchType
  PROVE  WalkInv'
  <1>1. /\ pc = "idle" /\ base = "typesinfo" /\ pc' = "idle" /\ base' = "typesinfo" /\ opening' = FALSE /\ ~opening
        /\ ask' = ask /\ desc' = desc /\ tables' = tables /\ ask \in Asks /\ ask.fn = "typesinfo"
    BY DEF FetchType, Return, WalkInv, Positions
  <1>2. ~Walks /\ ~Walks'
    BY <1>1 DEF Walks
  <1>3. IsList(got)'
    <2>1. IsList(got) /\ (got' = got \/ \E r : got' = Append(got, r))
      BY DEF FetchType, WalkInv, Positions
    <2> QED BY <2>1, ListGrows DEF IsList
  <1>4. IsCursor(tables)' /\ IsCursor(desc)'
    BY <1>1 DEF WalkInv, Positions, IsCursor
  <1> QED BY <1>1, <1>2, <1>3, <1>4 DEF WalkInv, Positions, Walking, LastTold, Keys

\* What the steps that leave the cursors alone keep.
LEMMA FetchWalk ==
  ASSUME WalkInv, Fetch
  PROVE  WalkInv'
  <1>1. /\ pc = "idle" /\ base \in {"columns", "primarykeys"} /\ base' = base /\ ask' = ask /\ ~opening /\ opening' = FALSE
        /\ tables' = tables /\ desc' = desc /\ current' = current /\ got' = got /\ query' = query /\ ordinal' = ordinal
        /\ \/ pc' = "idle" /\ ret' = "nodata" /\ base = "primarykeys"
           \/ pc' = "desc_row" /\ ret' = ret
    BY DEF Fetch, Return, Goto, WalkInv, Positions
  <1>2. Walks /\ Walks'
    BY <1>1 DEF Walks
  <1>3. Positions'
    BY <1>1, <1>2 DEF WalkInv, Positions, IsCursor, IsList, Generic
  <1>4. Walking'
    BY <1>1, <1>2 DEF WalkInv, Walking, AtTable, OfCurrent, AtEnd, HasRow
  <1>5. LastTold'
    BY <1>1 DEF LastTold
  <1>6. Keys'
    <2>1. KeyOf(current)' = KeyOf(current) /\ (base = "primarykeys" => Listing' = Listing)
      BY <1>1 DEF KeyOf, Listing
    <2>2. base = "primarykeys" => AtTable' /\ Skips(ask', tables'.rows, tables'.pos - 1) /\ OfCurrent' = OfCurrent
      BY <1>1 DEF WalkInv, Keys, AtTable, OfCurrent, Skips
    <2>3. base = "primarykeys" => (pc' = "idle" <=> ordinal = 1)
      BY <1>1 DEF Fetch, Return, Goto, WalkInv, Keys
    <2> QED BY <1>1, <2>1, <2>2, <2>3 DEF WalkInv, Keys
  <1> QED BY <1>3, <1>4, <1>5, <1>6 DEF WalkInv

\* A step that fails ends the call, and if it opens leaves nothing behind.
LEMMA OpenFailsWalk ==
  ASSUME WalkInv, opening, OpenFails, got' = got
  PROVE  WalkInv'
  <1>1. got = <<>>
    BY DEF WalkInv, Positions
  <1>2. base' = "none" /\ opening' = FALSE /\ pc' = "idle" /\ tables' = Closed /\ desc' = Closed
    BY DEF OpenFails, Return
  <1> QED BY <1>1, <1>2, AtRestKeeps

LEMMA NextTableWalk ==
  ASSUME WalkInv, NextTable
  PROVE  WalkInv'
  <1>1. pc = "tables" /\ got' = got /\ Walks /\ IsCursor(tables) /\ IsCursor(desc) /\ IsList(got) /\ tables.rows \in Seq(DOMAIN Server)
    BY DEF NextTable, WalkInv, Positions
  <1>2. CASE ~HasRow(tables) /\ Fails(IF tables.fails THEN "error" ELSE "nodata")
    <2>1. CASE opening
      BY <1>1, <1>2, <2>1, OpenFailsWalk DEF Fails
    <2>2. CASE ~opening
      <3>1. /\ pc' = "idle" /\ opening' = FALSE /\ ask' = ask /\ base' = base /\ tables' = tables /\ desc' = desc
            /\ current' = current /\ ordinal' = ordinal /\ ret' # "ok"
        BY <1>2, <2>2 DEF Fails, Return
      <3>2. Positions'
        BY <1>1, <2>2, <3>1 DEF WalkInv, Positions, IsCursor, IsList, Walks, Generic
      <3>3. AtEnd(desc)
        BY <1>1, <2>2 DEF WalkInv, Walking
      <3>4. ~HasRow(desc)' /\ ~desc'.fails
        BY <3>1, <3>3, <1>1, CursorLength DEF AtEnd, HasRow
      <3>5. Walking'
        BY <3>1, <3>4 DEF Walking
      <3>6. base # "primarykeys"
        BY <1>1 DEF WalkInv, Positions
      <3> QED BY <3>1, <3>2, <3>5, <3>6 DEF WalkInv, LastTold, Keys
    <2> QED BY <2>1, <2>2
  <1>3. CASE HasRow(tables)
    <2> DEFINE i == tables.rows[tables.pos + 1]
    <2>1. /\ tables' = Advance(tables) /\ ask' = ask /\ base' = base /\ desc' = desc /\ ordinal' = ordinal /\ opening' = opening
          /\ \/ Passes(ask, i) /\ pc' = "desc" /\ current' = i
             \/ ~Passes(ask, i) /\ pc' = "tables"
      BY <1>3 DEF NextTable, Goto, Passes
    <2>2. IsCursor(tables)' /\ tables'.rows = tables.rows /\ tables'.pos = tables.pos + 1 /\ tables.pos \in Nat
      BY <1>1, <1>3, <2>1, AdvanceIs DEF IsCursor
    <2>3. IsCursor(desc)' /\ IsList(got)' /\ (tables.rows \in Seq(DOMAIN Server))'
      BY <1>1, <2>1, <2>2 DEF IsCursor, IsList
    <2>4. base # "primarykeys"
      BY <1>1 DEF WalkInv, Positions
    <2>5. Positions'
      BY <1>1, <2>1, <2>2, <2>3, <2>4 DEF WalkInv, Positions, Walks
    <2>6. opening => Skips(ask, tables.rows, tables.pos)
      BY <1>1 DEF WalkInv, Walking
    <2>7. ASSUME opening, ~Passes(ask, i) PROVE Skips(ask, tables.rows, tables.pos + 1)
      <3>1. \A j \in 1..(tables.pos + 1) : j \in 1..tables.pos \/ j = tables.pos + 1
        BY <2>2
      <3> QED BY <2>6, <2>7, <3>1 DEF Skips
    <2>8. pc' = "desc" => AtTable'
      <3>1. tables'.pos >= 1
        BY <2>2
      <3> QED BY <2>1, <2>2, <3>1 DEF AtTable
    <2>9. (pc' = "tables" /\ ~opening) => AtEnd(desc)'
      BY <1>1, <2>1 DEF WalkInv, Walking, AtEnd
    <2>10. opening => Skips(ask', tables'.rows, IF pc' = "tables" THEN tables'.pos ELSE tables'.pos - 1)
      <3>1. (tables.pos + 1) - 1 = tables.pos
        BY <2>2
      <3> HIDE DEF i
      <3> QED BY <2>1, <2>2, <2>6, <2>7, <3>1
    <2>11. Walking'
      BY <2>1, <2>8, <2>9, <2>10 DEF Walking
    <2> QED BY <2>1, <2>4, <2>5, <2>11 DEF WalkInv, LastTold, Keys
  <1> QED BY <1>2, <1>3 DEF NextTable

LEMMA DescTableWalk ==
  ASSUME WalkInv, DescTable
  PROVE  WalkInv'
  <1>1. /\ pc = "desc" /\ got' = got /\ Walks /\ IsCursor(tables) /\ IsCursor(desc) /\ IsList(got)
        /\ tables.rows \in Seq(DOMAIN Server) /\ AtTable /\ base # "primarykeys"
    BY DEF DescTable, WalkInv, Positions, Walking
  <1>2. tables.pos \in 1..Len(tables.rows) /\ current \in DOMAIN Server
    <2>1. tables.pos \in 1..Len(tables.rows)
      BY <1>1, CursorLength DEF AtTable
    <2> QED BY <1>1, <2>1 DEF AtTable
  <1>3. CASE opening /\ OpenFails
    BY <1>1, <1>3, OpenFailsWalk
  <1>4. CASE /\ ~opening /\ Return("error") /\ desc' = Closed /\ query' = "none"
             /\ UNCHANGED <<ask, base, tables, current, ordinal>>
    <2>1. /\ pc' = "idle" /\ opening' = FALSE /\ ret' = "error" /\ desc'.fails /\ IsCursor(desc)' /\ ask' = ask /\ base' = base
          /\ tables' = tables /\ ordinal' = ordinal
      BY <1>4, ClosedIs DEF Return, IsCursor
    <2>2. Positions'
      BY <1>1, <1>4, <2>1 DEF WalkInv, Positions, IsCursor, IsList, Walks, Generic
    <2>3. Walking'
      BY <1>2, <2>1 DEF Walking, HasRow, AtEnd
    <2> QED BY <1>1, <2>1, <2>2, <2>3 DEF WalkInv, LastTold, Keys
  <1>5. CASE /\ current \in exists
             /\ \E c \in Results(Server[current].cols) : desc' = c
             /\ query' = "none"
             /\ IF ask.fn = "columns" THEN Goto("select") /\ UNCHANGED base ELSE TableOpened
             /\ UNCHANGED <<ask, tables, current, ordinal>>
    <2>1. PICK c \in Results(Server[current].cols) : desc' = c
      BY <1>5
    <2>2. IsCursor(c) /\ c.rows = Server[current].cols /\ c.pos = 0
      <3>1. IsList(Server[current].cols)
        BY <1>2, ServerTyped, ListIs
      <3> QED BY <3>1, ResultsAre
    <2>3. IsCursor(desc)' /\ OfCurrent' /\ desc'.pos = 0 /\ AtTable' /\ tables' = tables /\ ask' = ask /\ ordinal' = ordinal
      BY <1>1, <1>5, <2>1, <2>2 DEF IsCursor, OfCurrent, AtTable
    <2>4. ~AtEnd(desc)'
      BY <1>2, <2>1, <2>2, ServerTyped DEF AtEnd
    <2>5. opening => Skips(ask, tables.rows, tables.pos - 1)
      BY <1>1 DEF WalkInv, Walking
    <2>6. \/ ask.fn = "columns" /\ pc' = "select" /\ base' = base /\ opening' = opening
          \/ ask.fn # "columns" /\ opening /\ base' = ask.fn /\ pc' = "idle" /\ ret' = "ok" /\ opening' = FALSE
          \/ ask.fn # "columns" /\ ~opening /\ base' = base /\ pc' = "desc_row"
      BY <1>5 DEF TableOpened, Goto, Return
    <2>7. ask.fn # "columns" => opening
      BY <1>1 DEF WalkInv, Positions, Walks
    <2>8. Positions'
      <3>1. IsCursor(tables)' /\ IsList(got)' /\ (tables.rows \in Seq(DOMAIN Server))'
        BY <1>1, <2>3 DEF IsCursor, IsList
      <3>2. opening => ask \in Asks /\ base = "none" /\ ordinal = 0 /\ got = <<>> /\ ask.fn \in {"columns", "primarykeys"}
        BY DEF WalkInv, Positions
      <3>3. CASE ask.fn = "columns" /\ pc' = "select" /\ base' = base /\ opening' = opening
        BY <1>1, <2>3, <3>1, <3>2, <3>3 DEF WalkInv, Positions, Walks
      <3>4. CASE ask.fn # "columns" /\ opening /\ base' = ask.fn /\ pc' = "idle" /\ ret' = "ok" /\ opening' = FALSE
        BY <1>1, <2>3, <3>1, <3>2, <3>4 DEF Positions, Walks
      <3> QED BY <2>6, <2>7, <3>3, <3>4
    <2>9. Walking'
      BY <1>2, <2>3, <2>4, <2>5, <2>6, <2>7 DEF Walking
    <2>10. LastTold'
      BY <1>1, <2>6, <2>7 DEF WalkInv, Positions, LastTold
    <2>11. Keys'
      <3>1. opening => ordinal = 0 /\ got = <<>> /\ ask.fn \in {"columns", "primarykeys"}
        BY DEF WalkInv, Positions
      <3> QED BY <1>1, <2>3, <2>5, <2>6, <2>7, <3>1 DEF Keys
    <2> QED BY <2>8, <2>9, <2>10, <2>11 DEF WalkInv
  <1> QED BY <1>3, <1>4, <1>5 DEF DescTable

LEMMA SelectTableWalk ==
  ASSUME WalkInv, SelectTable
  PROVE  WalkInv'
  <1>1. /\ pc = "select" /\ got' = got /\ Walks /\ IsCursor(tables) /\ IsCursor(desc) /\ IsList(got) /\ ask.fn = "columns"
        /\ tables.rows \in Seq(DOMAIN Server) /\ AtTable /\ desc.pos = 0 /\ (~desc.fails => OfCurrent) /\ base # "primarykeys"
    BY DEF SelectTable, WalkInv, Positions, Walking
  <1>2. tables.pos \in 1..Len(tables.rows) /\ current \in DOMAIN Server
    <2>1. tables.pos \in 1..Len(tables.rows)
      BY <1>1, CursorLength DEF AtTable
    <2> QED BY <1>1, <2>1 DEF AtTable
  <1>3. ~AtEnd(desc)
    BY <1>1, <1>2, ServerTyped DEF AtEnd, OfCurrent
  <1>4. CASE opening /\ OpenFails
    BY <1>1, <1>4, OpenFailsWalk
  <1>5. CASE ~(opening /\ OpenFails)
    <2>1. /\ ask' = ask /\ tables' = tables /\ desc' = desc /\ current' = current /\ ordinal' = ordinal
          /\ \/ ~opening /\ pc' = "idle" /\ opening' = FALSE /\ ret' = "error" /\ base' = base
             \/ opening /\ base' = ask.fn /\ pc' = "idle" /\ ret' = "ok" /\ opening' = FALSE
             \/ ~opening /\ base' = base /\ pc' = "desc_row" /\ opening' = opening
      BY <1>5 DEF SelectTable, TableOpened, Goto, Return
    <2>2. Positions'
      <3>1. IsCursor(tables)' /\ IsCursor(desc)' /\ IsList(got)' /\ (tables.rows \in Seq(DOMAIN Server))'
        BY <1>1, <2>1 DEF IsCursor, IsList
      <3>2. opening \in BOOLEAN /\ (opening => ask \in Asks /\ base = "none" /\ ordinal = 0 /\ got = <<>>)
        BY DEF WalkInv, Positions
      <3>3. ~opening => ask \in Asks /\ base = "columns"
        BY <1>1 DEF WalkInv, Positions, Walks
      <3>4. CASE ~opening /\ pc' = "idle" /\ opening' = FALSE /\ ret' = "error" /\ base' = base
        BY <1>1, <2>1, <3>1, <3>3, <3>4 DEF Positions, Walks
      <3>5. CASE opening /\ base' = ask.fn /\ pc' = "idle" /\ ret' = "ok" /\ opening' = FALSE
        BY <1>1, <2>1, <3>1, <3>2, <3>5 DEF Positions, Walks
      <3>6. CASE ~opening /\ base' = base /\ pc' = "desc_row" /\ opening' = opening
        BY <1>1, <2>1, <3>1, <3>2, <3>3, <3>6 DEF Positions, Walks
      <3> QED BY <2>1, <3>4, <3>5, <3>6
    <2>3. Walking'
      BY <1>1, <1>2, <1>3, <2>1 DEF Walking, AtTable, OfCurrent, AtEnd, HasRow, IsCursor
    <2>4. LastTold'
      BY <1>1, <2>1 DEF WalkInv, Positions, LastTold
    <2>5. Keys'
      BY <1>1, <2>1 DEF Keys
    <2> QED BY <2>2, <2>3, <2>4, <2>5 DEF WalkInv
  <1> QED BY <1>4, <1>5

LEMMA DescRowWalk ==
  ASSUME WalkInv, DescRow
  PROVE  WalkInv'
  <1>1. /\ pc = "desc_row" /\ Walks /\ IsCursor(tables) /\ IsCursor(desc) /\ IsList(got) /\ ~opening
        /\ tables.rows \in Seq(DOMAIN Server) /\ ask \in Asks /\ base = ask.fn /\ base \in {"columns", "primarykeys"}
        /\ base' = base /\ ask' = ask /\ tables' = tables /\ current' = current /\ query' = query /\ cfg' = cfg
    BY DEF DescRow, WalkInv, Positions, Walks
  <1>2. IsCursor(tables)' /\ (tables.rows \in Seq(DOMAIN Server))' /\ (AtTable => AtTable') /\ AtTable' = AtTable
    BY <1>1 DEF IsCursor, AtTable
  <1>4. base = "primarykeys" => /\ AtTable /\ Skips(ask, tables.rows, tables.pos - 1) /\ ordinal = 0 /\ got = <<>>
                                /\ desc.pos = 0 /\ (~desc.fails => OfCurrent)
    BY <1>1 DEF WalkInv, Keys
  <1>5. AtTable => tables.pos \in 1..Len(tables.rows) /\ current \in DOMAIN Server
    <2> SUFFICES ASSUME AtTable PROVE tables.pos \in 1..Len(tables.rows) /\ current \in DOMAIN Server
      OBVIOUS
    <2>1. tables.pos \in 1..Len(tables.rows)
      BY <1>1, CursorLength DEF AtTable
    <2> QED BY <1>1, <2>1 DEF AtTable
  <1>6. CASE desc.fails /\ Return("error") /\ UNCHANGED <<desc, ordinal, got>>
    <2>1. pc' = "idle" /\ opening' = FALSE /\ ret' = "error" /\ desc' = desc /\ got' = got /\ ordinal' = ordinal
      BY <1>6 DEF Return
    <2>2. Positions'
      BY <1>1, <1>2, <2>1 DEF WalkInv, Positions, IsCursor, IsList, Walks
    <2>3. Walking'
      BY <1>1, <1>6, <2>1 DEF WalkInv, Walking, HasRow
    <2>4. Keys'
      BY <1>1, <1>2, <1>4, <1>6, <2>1 DEF Keys, Skips
    <2> QED BY <2>1, <2>2, <2>3, <2>4 DEF WalkInv, LastTold
  <1>7. CASE AtEnd(desc) /\ Goto("tables") /\ UNCHANGED <<desc, ordinal, got>>
    <2>1. pc' = "tables" /\ opening' = FALSE /\ desc' = desc /\ got' = got
      BY <1>1, <1>7 DEF Goto
    <2>2. base = "columns"
      BY <1>1, <1>4, <1>5, <1>7, ServerTyped DEF AtEnd, OfCurrent
    <2>3. Positions'
      BY <1>1, <1>2, <2>1, <2>2 DEF WalkInv, Positions, IsCursor, IsList, Walks
    <2>4. AtEnd(desc)'
      BY <1>7, <2>1 DEF AtEnd
    <2>5. Walking'
      BY <2>1, <2>4 DEF Walking
    <2> QED BY <1>1, <2>1, <2>2, <2>3, <2>5 DEF WalkInv, LastTold, Keys
  <1>8. CASE HasRow(desc)
    <2> DEFINE col == Row(desc')
               i == current
    <2>1. AtTable /\ OfCurrent
      BY <1>1, <1>8 DEF WalkInv, Walking
    <2>2. desc' = Advance(desc)
      BY <1>8 DEF DescRow, HasRow, AtEnd
    <2>3. IsCursor(desc)' /\ desc'.rows = desc.rows /\ desc'.pos = desc.pos + 1 /\ ~desc'.fails /\ desc.pos + 1 \in 1..Len(desc.rows)
      BY <1>1, <1>8, <2>2, AdvanceIs DEF IsCursor
    <2>4. AtTable' /\ OfCurrent'
      BY <1>1, <1>2, <2>1, <2>3 DEF OfCurrent
    <2>5. i \in DOMAIN Server /\ col = Server[i].cols[desc'.pos] /\ desc'.pos \in DOMAIN Server[i].cols
      BY <1>5, <2>1, <2>3, ServerTyped DEF Row, OfCurrent
    <2> HIDE DEF col
    <2>10. PICK j \in DOMAIN Server : j = i
      BY <2>5
    <2>11. PICK k \in DOMAIN Server[j].cols : k = desc'.pos
      BY <2>5, <2>10
    <2>12. Server[j].cols[k] = col
      BY <2>5, <2>10, <2>11
    <2>6. \/ base = "columns" /\ Goto("desc_row") /\ UNCHANGED <<ordinal, got>>
          \/ /\ base = "columns" /\ ordinal' = ordinal + 1 /\ Return("ok")
             /\ got' = Append(got, columns_get_data(current, col))
          \/ /\ base = "primarykeys" /\ ordinal' = ordinal + 1
             /\ IF col.type = "TIMESTAMP"
                THEN Return("ok") /\ got' = Append(got, primarykeys_get_data(current, col))
                ELSE Return("nodata") /\ UNCHANGED got
      BY <1>1, <1>8 DEF DescRow, HasRow, AtEnd, col
    <2>7. CASE base = "columns" /\ Goto("desc_row") /\ UNCHANGED <<ordinal, got>>
      <3>1. pc' = "desc_row" /\ opening' = FALSE /\ got' = got
        BY <1>1, <2>7 DEF Goto
      <3>2. Positions'
        BY <1>1, <1>2, <2>3, <2>7, <3>1 DEF WalkInv, Positions, IsList, Walks
      <3>3. Walking'
        BY <2>3, <2>4, <3>1 DEF Walking
      <3> QED BY <1>1, <2>7, <3>1, <3>2, <3>3 DEF WalkInv, LastTold, Keys
    <2>8. CASE /\ base = "columns" /\ ordinal' = ordinal + 1 /\ Return("ok")
               /\ got' = Append(got, columns_get_data(current, col))
      <3>1. pc' = "idle" /\ opening' = FALSE
        BY <2>8 DEF Return
      <3>2. IsList(got)' /\ Last(got') = columns_get_data(i, col)
        BY <1>1, <2>8, ListGrows DEF IsList
      <3>3. Positions'
        BY <1>1, <1>2, <2>3, <2>8, <3>1, <3>2 DEF Positions, Walks
      <3>4. Walking'
        BY <2>3, <2>4, <3>1 DEF Walking
      <3>5. Last(got') = Told(j, Server[j].cols[k])'
        <4>1. columns_get_data(j, Server[j].cols[k]) = Told(j, Server[j].cols[k])'
          BY <1>1 DEF columns_get_data, Told, DATA_TYPE
        <4> QED BY <2>10, <2>12, <3>2, <4>1
      <3>6. LastTold'
        BY <3>5 DEF LastTold
      <3> QED BY <1>1, <2>8, <3>3, <3>4, <3>6 DEF WalkInv, Keys
    <2>9. CASE /\ base = "primarykeys" /\ ordinal' = ordinal + 1
               /\ IF col.type = "TIMESTAMP"
                  THEN Return("ok") /\ got' = Append(got, primarykeys_get_data(current, col))
                  ELSE Return("nodata") /\ UNCHANGED got
      <3>1. pc' = "idle" /\ opening' = FALSE /\ ordinal' = 1 /\ desc'.pos = 1
        BY <1>4, <2>3, <2>9 DEF Return
      <3>2. IsList(got)'
        BY <1>1, <2>9, ListGrows DEF IsList
      <3>3. Positions'
        BY <1>1, <1>2, <2>3, <2>9, <3>1, <3>2 DEF Positions, Walks
      <3>4. Walking'
        BY <2>3, <2>4, <3>1 DEF Walking
      <3>5. Listing' = KeyOf(current)'
        <4>1. col = Server[i].cols[1]
          BY <2>5, <3>1
        <4>2. CASE col.type = "TIMESTAMP"
          <5>1. got' = <<primarykeys_get_data(i, col)>>
            BY <1>4, <2>9, <4>2
          <5>2. Listing' = <<<<i, col.name>>>>
            BY <1>1, <2>9, <5>1 DEF Listing, primarykeys_get_data
          <5> QED BY <1>1, <4>1, <4>2, <5>2 DEF KeyOf
        <4>3. CASE col.type # "TIMESTAMP"
          <5>1. got' = <<>>
            BY <1>4, <2>9, <4>3
          <5>2. Listing' = <<>>
            BY <1>1, <2>9, <5>1 DEF Listing
          <5> QED BY <1>1, <4>1, <4>3, <5>2 DEF KeyOf
        <4> QED BY <4>2, <4>3
      <3>6. Keys'
        BY <1>1, <1>4, <2>4, <2>9, <3>1, <3>5 DEF Keys, Skips
      <3> QED BY <1>1, <2>9, <3>3, <3>4, <3>6 DEF WalkInv, LastTold
    <2> QED BY <2>6, <2>7, <2>8, <2>9
  <1> QED BY <1>6, <1>7, <1>8 DEF DescRow

LEMMA StillWalk ==
  ASSUME WalkInv, UNCHANGED <<cfg, base, ask, pc, opening, tables, desc, current, query, ordinal, ret, got>>
  PROVE  WalkInv'
  <1>1. Positions'
    BY DEF WalkInv, Positions, IsCursor, IsList, Walks, Generic
  <1>2. Walking'
    BY DEF WalkInv, Walking, Walks, AtTable, OfCurrent, AtEnd, HasRow, Skips
  <1>3. LastTold'
    BY DEF WalkInv, LastTold, Told, DATA_TYPE
  <1>4. Keys'
    BY DEF WalkInv, Keys, AtTable, OfCurrent, Skips, Listing, KeyOf
  <1> QED BY <1>1, <1>2, <1>3, <1>4 DEF WalkInv

LEMMA StepWalk == WalkInv /\ [CatalogNext]_catalog_vars => WalkInv'
  <1> SUFFICES ASSUME WalkInv, [CatalogNext]_catalog_vars PROVE WalkInv'
    OBVIOUS
  <1>1. ASSUME NEW a \in Asks, SQLTables(a) \/ SQLColumns(a) \/ SQLGetTypeInfo(a) PROVE WalkInv'
    BY <1>1, TablesOpenWalk, ColumnsOpenWalk, TypesOpenWalk
  <1>2. CASE FetchTable \/ FetchType \/ Fetch
    BY <1>2, TableFetchWalk, TypeFetchWalk, FetchWalk
  <1>3. CASE Driver
    BY <1>3, NextTableWalk, DescTableWalk, SelectTableWalk, DescRowWalk DEF Driver
  <1>4. CASE SQLCloseCursor
    BY <1>4, CloseWalk
  <1>5. ASSUME NEW i \in DOMAIN Server, Drop(i) PROVE WalkInv'
    BY <1>5, StillWalk DEF Drop
  <1>6. CASE UNCHANGED catalog_vars
    BY <1>6, StillWalk DEF catalog_vars
  <1> QED BY <1>1, <1>2, <1>3, <1>4, <1>5, <1>6 DEF CatalogNext

LEMMA WalkInvariance == CatalogSpec => []WalkInv
  <1> QED BY InitWalk, StepWalk, PTL DEF CatalogSpec

-----------------------------------------------------------------------------
(* What SQLColumns says of a column.                                       *)

\* The types described as text or bytes are as long as the field.
LEMMA LongTypes ==
  ASSUME NEW t \in Types, _col_bind_map[t].sql \in {"VARCHAR", "WVARCHAR", "VARBINARY"}
  PROVE  t # "TIMESTAMP" /\ _col_bind_map[t].length = -1
  <1>1. CASE t \in DOMAIN _col_bind_map_numbers
    <2>1. _col_bind_map[t] = _col_bind_map_numbers[t]
      BY <1>1 DEF _col_bind_map, Both
    <2> QED BY <1>1, <2>1 DEF _col_bind_map_numbers, Entry
  <1>2. CASE t \notin DOMAIN _col_bind_map_numbers
    <2>1. _col_bind_map[t] = _col_bind_map_rest[t] /\ t \in DOMAIN _col_bind_map_rest
      BY <1>2 DEF Types, _col_bind_map, Both
    <2> QED BY <2>1 DEF _col_bind_map_rest, Entry
  <1> QED BY <1>1, <1>2

ConfigIs == cfg.unsigned_promotion \in BOOLEAN /\ cfg.timestamp_as_is \in BOOLEAN

LEMMA ConfigStays == CatalogSpec => []ConfigIs
  <1>1. CatalogInit => ConfigIs
    BY DEF CatalogInit, ConfigIs
  <1>2. ConfigIs /\ [CatalogNext]_catalog_vars => ConfigIs'
    <2> SUFFICES ASSUME ConfigIs, [CatalogNext]_catalog_vars PROVE ConfigIs'
      OBVIOUS
    <2>1. CASE UNCHANGED catalog_vars
      BY <2>1 DEF catalog_vars, ConfigIs
    <2>2. ASSUME NEW a \in Asks, SQLTables(a) \/ SQLColumns(a) \/ SQLGetTypeInfo(a) PROVE cfg' = cfg
      BY <2>2 DEF SQLTables, SQLColumns, SQLGetTypeInfo, Begin
    <2>3. CASE FetchTable \/ FetchType \/ Fetch
      BY <2>3 DEF FetchTable, FetchType, Fetch, ConfigIs
    <2>4. CASE Driver
      <3>1. cfg' = cfg
        BY <2>4 DEF Driver, NextTable, DescTable, SelectTable, DescRow
      <3> QED BY <3>1 DEF ConfigIs
    <2>5. CASE SQLCloseCursor
      BY <2>5 DEF SQLCloseCursor, ConfigIs
    <2>6. ASSUME NEW i \in DOMAIN Server, Drop(i) PROVE cfg' = cfg
      BY <2>6 DEF Drop
    <2> QED BY <2>1, <2>2, <2>3, <2>4, <2>5, <2>6 DEF CatalogNext, ConfigIs
  <1> QED BY <1>1, <1>2, PTL DEF CatalogSpec

LEMMA ToldAgrees ==
  ASSUME WalkInv, ConfigIs
  PROVE  ColumnsAgreeWithSelect
  <1> SUFFICES ASSUME base = "columns", pc = "idle", ret = "ok", query = "ok", got # <<>>, Last(got).data_type # "none"
               PROVE  LET r == Last(got)
                          t == Server[r.table]
                          col == CHOOSE c \in Range(t.cols) : c.name = r.name
                          ird == IRDRecord(cfg, t.p, [type |-> col.type, bytes |-> col.bytes])
                      IN  /\ PromotedApart(col.type) \/ r.data_type = ird.concise
                          /\ r.type_name = ird.type_name
                          /\ (r.data_type \in {"VARCHAR", "WVARCHAR", "VARBINARY"}) => r.column_size = ird.length
    BY DEF ColumnsAgreeWithSelect
  <1>1. PICK i \in DOMAIN Server : \E k \in DOMAIN Server[i].cols : Last(got) = Told(i, Server[i].cols[k])
    BY DEF WalkInv, LastTold
  <1>2. PICK k \in DOMAIN Server[i].cols : Last(got) = Told(i, Server[i].cols[k])
    BY <1>1
  <1> DEFINE r == Last(got)
             c == Server[i].cols[k]
             col == CHOOSE d \in Range(Server[i].cols) : d.name = c.name
             p == Server[i].p
             f == [type |-> c.type, bytes |-> c.bytes]
             ird == IRDRecord(cfg, p, f)
  <1>3. ~Unsupported(c)
    BY <1>2 DEF Told, Answered
  <1>4. /\ r.table = i /\ r.name = c.name /\ r.data_type = DATA_TYPE(c.type)
        /\ r.type_name = IF AsText(cfg, c.type) THEN "NCHAR" ELSE c.type
        /\ r.column_size = IF AsText(cfg, c.type) THEN TextOfTimestamp(p) ELSE c.bytes
    BY <1>2, <1>3 DEF Told, Answered
  <1>5. col = c
    <2>1. c \in Range(Server[i].cols)
      BY DEF Range
    <2>2. \A d \in Range(Server[i].cols) : d.name = c.name => d = c
      BY CatalogAssumption DEF Range
    <2> QED BY <2>1, <2>2
  <1>6. c.type \in Types /\ c.bytes \in Nat
    BY <1>3, ServerTyped DEF Unsupported, Column
  <1> HIDE DEF c, r
  <1>7. f.type = c.type /\ f.bytes = c.bytes
    OBVIOUS
  <1>8. /\ ird.concise = IF AsText(cfg, c.type) THEN "WVARCHAR"
                         ELSE IF cfg.unsigned_promotion THEN _col_bind_map[c.type].promoted ELSE _col_bind_map[c.type].sql
        /\ ird.type_name = IF AsText(cfg, c.type) THEN "NCHAR" ELSE c.type
        /\ ird.length = IF c.type = "TIMESTAMP" THEN TextOfTimestamp(p) ELSE Scaled(_col_bind_map[c.type].length, c.bytes)
    BY <1>7 DEF IRDRecord, _stmt_col_DESC_CONCISE_TYPE, _stmt_col_DESC_TYPE_NAME, _stmt_col_DESC_LENGTH
  <1>9. (PromotedApart(c.type) \/ r.data_type = ird.concise) /\ r.type_name = ird.type_name
    BY <1>4, <1>8 DEF DATA_TYPE, PromotedApart
  <1>10. ASSUME r.data_type \in {"VARCHAR", "WVARCHAR", "VARBINARY"} PROVE r.column_size = ird.length
    <2>1. CASE AsText(cfg, c.type)
      BY <1>4, <1>8, <2>1 DEF AsText
    <2>2. CASE ~AsText(cfg, c.type)
      <3>1. _col_bind_map[c.type].sql \in {"VARCHAR", "WVARCHAR", "VARBINARY"}
        BY <1>4, <1>10, <2>2 DEF DATA_TYPE
      <3>2. c.type # "TIMESTAMP" /\ _col_bind_map[c.type].length = -1
        BY <1>6, <3>1, LongTypes
      <3>3. Scaled(-1, c.bytes) = c.bytes
        BY <1>6 DEF Scaled
      <3> QED BY <1>4, <1>8, <2>2, <3>2, <3>3
    <2> QED BY <2>1, <2>2
  <1> QED BY <1>4, <1>5, <1>9, <1>10 DEF r

\* What SQLColumns says of a column is what the descriptor of a select from that table says
\* of it (columns.c _columns_get_data against stmt.c:811), with either value of each flag,
\* whichever tables were dropped and whichever queries failed on the way; but for the
\* DATA_TYPE of the types that UNSIGNED_PROMOTION promotes, which SQLColumns never does.
THEOREM ColumnsAgree == CatalogSpec => []ColumnsAgreeWithSelect
  BY WalkInvariance, ConfigStays, ToldAgrees, PTL

-----------------------------------------------------------------------------
(* What has been listed.                                                   *)

Before == First(ColumnLists(ask, tables.rows), tables.pos - 1)
Behind0 == First(ColumnLists(ask, tables.rows), tables.pos)
ColumnsListed ==
  base = "columns" =>
    /\ pc = "tables" => Listing = Behind0
    /\ pc \in {"desc", "select"} => Listing = Before
    /\ (pc \in {"idle", "desc_row"} /\ desc.fails) => Listing = Before
    /\ (pc \in {"idle", "desc_row"} /\ AtEnd(desc)) => Listing = Behind0
    /\ (pc \in {"idle", "desc_row"} /\ HasRow(desc)) => Listing = Before \o First(NameLists(ask, current), desc.pos)
    /\ (pc = "idle" /\ ret = "nodata") => AtEnd(desc) /\ tables.pos = Len(tables.rows)

TablesListed ==
  base = "tables" =>
    /\ got = IF Generic(ask) THEN First(TableLists(ask, tables.rows), tables.pos) ELSE SubSeq(tables.rows, 1, tables.pos)
    /\ ret = "nodata" => tables.pos = Len(tables.rows)

TypesListed ==
  base = "typesinfo" =>
    /\ pos0 \in 0..4 /\ pos \in pos0..4
    /\ got = First(TypeLists(ask, pos0), pos)
    /\ ret = "nodata" => pos = 4

ListInv == ColumnsListed /\ TablesListed /\ TypesListed /\ pos \in 0..4

LEMMA InitListed == CatalogInit => ListInv
  BY DEF CatalogInit, ListInv, ColumnsListed, TablesListed, TypesListed

LEMMA OpenListed ==
  ASSUME WalkInv, ListInv, NEW a \in Asks, SQLTables(a) \/ SQLColumns(a) \/ SQLGetTypeInfo(a)
  PROVE  ListInv'
  <1>1. pc = "idle" /\ base = "none" /\ got' = <<>> /\ ~opening /\ pos' = pos /\ pos \in 0..4
    BY DEF SQLTables, SQLColumns, SQLGetTypeInfo, Begin, WalkInv, Positions, ListInv
  <1>2. CASE SQLTables(a)
    <2>1. CASE OpenFails
      BY <1>1, <2>1 DEF OpenFails, ListInv, ColumnsListed, TablesListed, TypesListed
    <2>2. CASE \E c \in Results(tables_open(a)) : tables' = c /\ ask' = a /\ base' = "tables" /\ Return("ok")
      <3>1. PICK c \in Results(tables_open(a)) : tables' = c /\ base' = "tables" /\ Return("ok")
        BY <2>2
      <3>2. tables'.pos = 0
        BY <3>1, OpenedTyped, ResultsAre
      <3>3. SubSeq(tables'.rows, 1, 0) = <<>>
        BY SubSeqEmpty
      <3>4. First(TableLists(ask', tables'.rows), 0) = <<>>
        BY FirstNone
      <3> QED BY <1>1, <3>1, <3>2, <3>3, <3>4 DEF Return, ListInv, ColumnsListed, TablesListed, TypesListed
    <2> QED BY <1>2, <2>1, <2>2 DEF SQLTables
  <1>3. CASE SQLColumns(a)
    <2>1. base' = "none"
      BY <1>1, <1>3 DEF SQLColumns, OpenFails
    <2> QED BY <1>1, <2>1 DEF ListInv, ColumnsListed, TablesListed, TypesListed
  <1>4. CASE SQLGetTypeInfo(a)
    <2>1. base' = "typesinfo" /\ pos0' = pos /\ ret' = "ok" /\ ask' = a
      BY <1>4 DEF SQLGetTypeInfo, Begin, Return
    <2>2. First(TypeLists(a, pos), pos) = First(TypeLists(a, pos), 0)
      <3>1. pos \in 0..Len(TypeLists(a, pos)) /\ 0 \in Nat
        BY <1>1, TypeListsTyped
      <3>2. \A j \in (0 + 1)..pos : TypeLists(a, pos)[j] = <<>>
        <4> TAKE j \in (0 + 1)..pos
        <4>1. j \in 1..4 /\ ~(j > pos)
          BY <1>1
        <4>2. TypeLists(a, pos)[j] = IF j > pos /\ j \in OfType(a.data_type) THEN <<j>> ELSE <<>>
          BY <4>1, TypeListsTyped
        <4> QED BY <4>1, <4>2
      <3> QED BY <3>1, <3>2, TypeListsTyped, FirstSkips
    <2>3. First(TypeLists(a, pos), 0) = <<>>
      BY FirstNone
    <2> QED BY <1>1, <2>1, <2>2, <2>3 DEF ListInv, ColumnsListed, TablesListed, TypesListed
  <1> QED BY <1>2, <1>3, <1>4

\* One more of each kind of list.
LEMMA OneMoreTable ==
  ASSUME NEW a, NEW rows \in Seq(DOMAIN Server), NEW k \in Nat, k + 1 <= Len(rows)
  PROVE  /\ First(TableLists(a, rows), k) \in Seq(DOMAIN Server)
         /\ Passes(a, rows[k + 1]) =>
              /\ First(TableLists(a, rows), k + 1) = Append(First(TableLists(a, rows), k), rows[k + 1])
              /\ First(ColumnLists(a, rows), k + 1) = First(ColumnLists(a, rows), k) \o FlattenSeq(NameLists(a, rows[k + 1]))
         /\ ~Passes(a, rows[k + 1]) => First(ColumnLists(a, rows), k + 1) = First(ColumnLists(a, rows), k)
  <1> DEFINE Ids == DOMAIN Server
             w == TableLists(a, rows)
             v == ColumnLists(a, rows)
             i == rows[k + 1]
  <1>1. k + 1 \in 1..Len(rows) /\ k < Len(rows) /\ k \in 0..Len(rows)
    OBVIOUS
  <1>2. w \in Seq(Seq(Ids)) /\ Len(w) = Len(rows) /\ w[k + 1] = IF Passes(a, i) THEN <<i>> ELSE <<>>
    BY <1>1, TableListsTyped
  <1>3. v \in Seq(Seq(Pairs)) /\ Len(v) = Len(rows) /\ v[k + 1] = IF Passes(a, i) THEN FlattenSeq(NameLists(a, i)) ELSE <<>>
    BY <1>1, ColumnListsTyped
  <1>4. i \in Ids
    BY <1>1
  <1> HIDE DEF w, v, Ids
  <1>5. First(w, k) \in Seq(Ids) /\ First(w, k + 1) = First(w, k) \o w[k + 1]
    BY <1>1, <1>2, FirstType, FirstMore
  <1>6. First(v, k) \in Seq(Pairs) /\ First(v, k + 1) = First(v, k) \o v[k + 1]
    BY <1>1, <1>3, FirstType, FirstMore
  <1>7. First(w, k) \o <<i>> = Append(First(w, k), i)
    BY <1>4, <1>5, AppendIsConcat
  <1>8. First(v, k) \o <<>> = First(v, k)
    BY <1>6, ConcatEmptySeq
  <1> QED BY <1>2, <1>3, <1>5, <1>6, <1>7, <1>8 DEF w, v, Ids

LEMMA OneMoreName ==
  ASSUME NEW a, NEW i \in DOMAIN Server, NEW k \in Nat, k + 1 <= Len(Server[i].cols)
  PROVE  /\ First(NameLists(a, i), k) \in Seq(Pairs)
         /\ LET n == Server[i].cols[k + 1].name
            IN  First(NameLists(a, i), k + 1) =
                  IF Matches(a.column, n) THEN Append(First(NameLists(a, i), k), <<i, n>>) ELSE First(NameLists(a, i), k)
         /\ <<i, Server[i].cols[k + 1].name>> \in Pairs
  <1> DEFINE w == NameLists(a, i)
             n == Server[i].cols[k + 1].name
  <1>1. k + 1 \in 1..Len(Server[i].cols) /\ Len(Server[i].cols) \in Nat
    BY ServerTyped
  <1>2. w \in Seq(Seq(Pairs)) /\ Len(w) = Len(Server[i].cols) /\ w[k + 1] = IF Matches(a.column, n) THEN <<<<i, n>>>> ELSE <<>>
    BY <1>1, NameListsTyped
  <1>3. <<i, n>> \in Pairs
    BY <1>1, ServerTyped DEF Pairs, Column
  <1> HIDE DEF w, n
  <1>4. k < Len(w) /\ k \in 0..Len(w)
    BY <1>1, <1>2
  <1>5. First(w, k) \in Seq(Pairs) /\ First(w, k + 1) = First(w, k) \o w[k + 1]
    BY <1>2, <1>4, FirstType, FirstMore
  <1>6. First(w, k) \o <<<<i, n>>>> = Append(First(w, k), <<i, n>>)
    BY <1>3, <1>5, AppendIsConcat
  <1>7. First(w, k) \o <<>> = First(w, k)
    BY <1>5, ConcatEmptySeq
  <1> QED BY <1>2, <1>3, <1>5, <1>6, <1>7 DEF w, n

LEMMA TableFetchListed ==
  ASSUME WalkInv, ListInv, FetchTable
  PROVE  ListInv'
  <1>1. /\ base = "tables" /\ base' = "tables" /\ ask' = ask /\ pos' = pos /\ pos \in 0..4
        /\ IsCursor(tables) /\ IsList(got) /\ Len(tables.rows) \in Nat /\ tables.pos \in Nat /\ tables.pos <= Len(tables.rows)
        /\ (Generic(ask) => tables.rows \in Seq(DOMAIN Server))
    BY CursorLength DEF FetchTable, WalkInv, Positions, ListInv
  <1> DEFINE passes(k) == tables_type(ask) # "generic" \/ _fetch_row_with_tsdb(ask, tables.rows[k])
             next == {k \in tables.pos + 1 .. Len(tables.rows) : passes(k)}
             k == CHOOSE k \in next : \A l \in next : k <= l
             rows == tables.rows
             from == tables.pos
             Said(m) == IF Generic(ask) THEN First(TableLists(ask, rows), m) ELSE SubSeq(rows, 1, m)
  <1>2. got = Said(from) /\ (ret = "nodata" => from = Len(rows))
    BY <1>1 DEF ListInv, TablesListed
  <1>3. CASE tables.fails /\ Return("error") /\ UNCHANGED <<tables, got>>
    <2>1. ret' = "error" /\ tables' = tables /\ got' = got
      BY <1>3 DEF Return
    <2> QED BY <1>1, <1>2, <2>1 DEF ListInv, TablesListed, ColumnsListed, TypesListed
  \* of the members passed over nothing is said
  <1>4. ASSUME NEW m \in from..Len(rows), \A j \in (from + 1)..m : j \notin next, Generic(ask)
        PROVE  First(TableLists(ask, rows), m) = First(TableLists(ask, rows), from)
    <2>1. \A j \in (from + 1)..m : TableLists(ask, rows)[j] = <<>>
      <3> TAKE j \in (from + 1)..m
      <3>1. j \in (from + 1)..Len(rows) /\ j \in 1..Len(rows) /\ ~passes(j)
        BY <1>1, <1>4
      <3>2. ~Passes(ask, rows[j])
        BY <3>1 DEF Passes
      <3> QED BY <1>1, <1>4, <3>1, <3>2, TableListsTyped
    <2>2. m \in from..Len(TableLists(ask, rows)) /\ TableLists(ask, rows) \in Seq(Seq(DOMAIN Server))
      BY <1>1, <1>4, TableListsTyped
    <2> QED BY <1>1, <2>1, <2>2, FirstSkips
  <1>5. CASE next = {} /\ Return("nodata") /\ tables' = [tables EXCEPT !.pos = Len(tables.rows)] /\ UNCHANGED got
    <2>1. ret' = "nodata" /\ tables'.pos = Len(rows) /\ tables'.rows = rows /\ got' = got
      <3>1. Len(rows) \in 0..Len(rows)
        BY <1>1
      <3> QED BY <1>1, <1>5, <3>1, MovedIs DEF Return
    <2>2. got = Said(Len(rows))
      <3>1. CASE Generic(ask)
        BY <1>1, <1>2, <1>4, <1>5, <3>1
      <3>2. CASE ~Generic(ask)
        <4>1. from = Len(rows)
          <5> SUFFICES ASSUME from # Len(rows) PROVE FALSE
            OBVIOUS
          <5>1. from + 1 \in (from + 1)..Len(rows)
            BY <1>1
          <5>2. from + 1 \in next
            BY <3>2, <5>1 DEF Generic
          <5> QED BY <1>5, <5>2
        <4> QED BY <1>2, <4>1
      <3> QED BY <3>1, <3>2
    <2> QED BY <1>1, <2>1, <2>2 DEF ListInv, TablesListed, ColumnsListed, TypesListed
  <1>6. CASE next # {} /\ Return("ok") /\ tables' = [tables EXCEPT !.pos = k] /\ got' = Append(got, tables.rows[k])
    <2>0. next \in SUBSET Nat
      BY <1>1
    <2>1. \E n \in next : \A l \in next : n <= l
      <3> HIDE DEF next
      <3> QED BY <1>6, <2>0, Least
    <2>2. k \in next /\ \A l \in next : k <= l
      BY <2>1
    <2>3. k \in (from + 1)..Len(rows) /\ k \in 0..Len(rows) /\ passes(k)
      BY <1>1, <2>2
    <2>4. \A j \in (from + 1)..(k - 1) : j \notin next
      <3> TAKE j \in (from + 1)..(k - 1)
      <3>1. ~(k <= j)
        BY <1>1, <2>3
      <3> HIDE DEF k, next
      <3> QED BY <2>2, <3>1
    <2> HIDE DEF k
    <2>5. ret' = "ok" /\ tables'.pos = k /\ tables'.rows = rows /\ got' = Append(got, rows[k])
      BY <1>1, <1>6, <2>3, MovedIs DEF Return
    <2>6. k - 1 \in from..Len(rows) /\ k - 1 \in Nat /\ (k - 1) + 1 = k /\ (k - 1) + 1 <= Len(rows)
      BY <1>1, <2>3
    <2>7. got' = Said(k)
      <3>1. CASE Generic(ask)
        <4>1. First(TableLists(ask, rows), k - 1) = First(TableLists(ask, rows), from)
          BY <1>4, <2>4, <2>6, <3>1
        <4>2. Passes(ask, rows[k])
          BY <2>3, <3>1 DEF Generic, Passes
        <4>3. First(TableLists(ask, rows), (k - 1) + 1) = Append(First(TableLists(ask, rows), k - 1), rows[(k - 1) + 1])
          BY <1>1, <2>6, <3>1, <4>2, OneMoreTable
        <4> QED BY <1>2, <2>5, <2>6, <3>1, <4>1, <4>3
      <3>2. CASE ~Generic(ask)
        <4>1. k = from + 1
          <5> SUFFICES ASSUME k # from + 1 PROVE FALSE
            OBVIOUS
          <5>1. from + 1 \in (from + 1)..Len(rows) /\ ~(k <= from + 1)
            BY <1>1, <2>3
          <5>2. from + 1 \in next
            BY <3>2, <5>1 DEF Generic
          <5> QED BY <2>2, <5>1, <5>2
        <4>2. rows \in Seq(Range(rows))
          BY <1>1 DEF IsCursor, IsList
        <4>3. SubSeq(rows, 1, from + 1) = SubSeq(rows, 1, (from + 1) - 1) \o <<rows[from + 1]>>
          <5>1. 1 \in 1..Len(rows) /\ from + 1 \in 1..Len(rows)
            BY <1>1, <2>3, <4>1
          <5> HIDE DEF rows, from
          <5> QED BY <4>2, <5>1, SubSeqRecursiveSecond
        <4>4. (from + 1) - 1 = from
          BY <1>1
        <4>5. SubSeq(rows, 1, from) \in Seq(Range(rows)) /\ rows[from + 1] \in Range(rows)
          <5>1. \A j \in 1..(from + 1) : j \in 1..Len(rows)
            BY <1>1, <2>3, <4>1
          <5>2. DOMAIN rows = 1..Len(rows)
            BY <4>2, LenProperties
          <5>3. \A j \in 1..from : rows[j] \in Range(rows)
            BY <1>1, <5>1, <5>2 DEF Range
          <5>4. from + 1 \in DOMAIN rows
            BY <1>1, <5>1, <5>2
          <5>5. 1 \in Int /\ from \in Int
            BY <1>1
          <5> HIDE DEF rows, from
          <5>6. SubSeq(rows, 1, from) \in Seq(Range(rows))
            BY <5>3, <5>5, SubSeqProperties
          <5> QED BY <5>4, <5>6 DEF Range
        <4>6. SubSeq(rows, 1, from) \o <<rows[from + 1]>> = Append(SubSeq(rows, 1, from), rows[from + 1])
          <5> HIDE DEF rows, from
          <5> QED BY <4>5, AppendIsConcat
        <4> QED BY <1>2, <2>5, <3>2, <4>1, <4>3, <4>4, <4>6
      <3> QED BY <3>1, <3>2
    <2> QED BY <1>1, <2>5, <2>7 DEF ListInv, TablesListed, ColumnsListed, TypesListed
  <1> QED BY <1>3, <1>5, <1>6 DEF FetchTable

LEMMA TypeFetchListed ==
  ASSUME WalkInv, ListInv, FetchType
  PROVE  ListInv'
  <1>1. /\ base = "typesinfo" /\ base' = "typesinfo" /\ ask' = ask /\ pos0' = pos0 /\ pos0 \in 0..4 /\ pos \in pos0..4 /\ pos \in 0..4
        /\ got = First(TypeLists(ask, pos0), pos) /\ (ret = "nodata" => pos = 4)
    BY DEF FetchType, ListInv, TypesListed
  <1> DEFINE next == {r \in OfType(ask.data_type) : r > pos}
             w == TypeLists(ask, pos0)
  <1>2. w \in Seq(Seq(Nat)) /\ Len(w) = 4 /\ \A k \in 1..4 : w[k] = IF k > pos0 /\ k \in OfType(ask.data_type) THEN <<k>> ELSE <<>>
    BY TypeListsTyped
  <1>3. \A r \in next : r \in 1..4 /\ r > pos
    BY DEF OfType, _records
  <1>4. ASSUME NEW m \in pos..4, \A j \in (pos + 1)..m : j \notin next PROVE First(w, m) = First(w, pos)
    <2>1. \A j \in (pos + 1)..m : w[j] = <<>>
      <3> TAKE j \in (pos + 1)..m
      <3>1. j \in 1..4 /\ j > pos /\ j \notin next
        BY <1>1, <1>4
      <3> QED BY <1>2, <3>1
    <2>2. m \in pos..Len(w) /\ pos \in Nat
      BY <1>1, <1>2
    <2> HIDE DEF w
    <2> QED BY <1>2, <2>1, <2>2, FirstSkips
  <1>5. CASE next = {} /\ Return("nodata") /\ pos' = Len(_records) /\ UNCHANGED got
    <2>1. pos' = 4 /\ got' = got
      BY <1>5 DEF _records
    <2>2. First(w, 4) = First(w, pos)
      <3>1. 4 \in pos..4
        BY <1>1
      <3> QED BY <1>4, <1>5, <3>1
    <2> QED BY <1>1, <2>1, <2>2 DEF ListInv, TablesListed, ColumnsListed, TypesListed
  <1>6. CASE \E r \in next : (\A s \in next : r <= s) /\ pos' = r /\ got' = Append(got, r) /\ Return("ok")
    <2>1. PICK r \in next : (\A s \in next : r <= s) /\ pos' = r /\ got' = Append(got, r) /\ Return("ok")
      BY <1>6
    <2>2. r \in 1..4 /\ r > pos /\ r - 1 \in pos..4 /\ r - 1 \in Nat /\ (r - 1) + 1 = r /\ r - 1 < 4
      BY <1>1, <1>3
    <2>3. \A j \in (pos + 1)..(r - 1) : j \notin next
      <3> TAKE j \in (pos + 1)..(r - 1)
      <3>1. ~(r <= j)
        BY <1>1, <2>2
      <3> HIDE DEF next
      <3> QED BY <2>1, <3>1
    <2>4. First(w, r - 1) = First(w, pos)
      BY <1>4, <2>2, <2>3
    <2>5. w[r] = <<r>>
      BY <1>1, <1>2, <2>2
    <2>6. First(w, (r - 1) + 1) = First(w, r - 1) \o w[(r - 1) + 1] /\ First(w, r - 1) \in Seq(Nat)
      <3>1. r - 1 \in 0..Len(w) /\ r - 1 < Len(w)
        BY <1>2, <2>2
      <3> HIDE DEF w
      <3> QED BY <1>2, <2>2, <3>1, FirstMore, FirstType
    <2>7. First(w, r - 1) \o <<r>> = Append(First(w, r - 1), r)
      <3> HIDE DEF w
      <3>1. r \in Nat
        BY <2>2
      <3> QED BY <2>6, <3>1, AppendIsConcat
    <2>8. First(w, r) = Append(got, r)
      BY <1>1, <2>2, <2>4, <2>5, <2>6, <2>7
    <2>9. ret' = "ok" /\ r \in pos0..4
      BY <1>1, <2>1, <2>2 DEF Return
    <2> HIDE DEF next
    <2> QED BY <1>1, <2>1, <2>2, <2>8, <2>9 DEF ListInv, TablesListed, ColumnsListed, TypesListed
  <1> QED BY <1>5, <1>6 DEF FetchType

\* A statement that reads nothing, or one that does not list columns, says nothing of the others.
LEMMA OthersListed ==
  ASSUME ListInv, pos' = pos, base' \notin {"tables", "columns", "typesinfo"}
  PROVE  ListInv'
  BY DEF ListInv, ColumnsListed, TablesListed, TypesListed

LEMMA FetchListed ==
  ASSUME WalkInv, ListInv, Fetch
  PROVE  ListInv'
  <1>1. /\ pc = "idle" /\ base \in {"columns", "primarykeys"} /\ base' = base /\ ask' = ask /\ tables' = tables /\ desc' = desc
        /\ current' = current /\ got' = got /\ pos' = pos
        /\ base = "columns" => pc' = "desc_row"
    BY DEF Fetch, Return, Goto
  <1>2. CASE base = "primarykeys"
    BY <1>1, <1>2, OthersListed
  <1>3. CASE base = "columns"
    <2>1. Listing' = Listing /\ Before' = Before /\ Behind0' = Behind0 /\ AtEnd(desc)' = AtEnd(desc) /\ HasRow(desc)' = HasRow(desc)
      BY <1>1 DEF Listing, Before, Behind0, AtEnd, HasRow
    <2>2. ColumnsListed'
      BY <1>1, <1>3, <2>1 DEF ListInv, ColumnsListed
    <2> QED BY <1>1, <1>3, <2>2 DEF ListInv, TablesListed, TypesListed
  <1> QED BY <1>1, <1>2, <1>3

LEMMA NextTableListed ==
  ASSUME WalkInv, WalkInv', ListInv, NextTable
  PROVE  ListInv'
  <1>1. /\ pc = "tables" /\ got' = got /\ pos' = pos /\ IsCursor(tables) /\ tables.rows \in Seq(DOMAIN Server) /\ opening \in BOOLEAN
        /\ Len(tables.rows) \in Nat /\ tables.pos \in Nat /\ tables.pos <= Len(tables.rows)
    BY CursorLength DEF NextTable, WalkInv, Positions, Walks
  <1>2. CASE opening
    <2>1. base' = "none"
      BY <1>2 DEF NextTable, Fails, OpenFails, WalkInv, Positions
    <2> QED BY <1>1, <2>1, OthersListed
  <1>3. CASE ~opening
    <2>1. base = "columns" /\ AtEnd(desc) /\ Listing = Behind0
      BY <1>1, <1>3 DEF WalkInv, Positions, Walking, Walks, ListInv, ColumnsListed
    <2>2. CASE ~HasRow(tables) /\ Fails(IF tables.fails THEN "error" ELSE "nodata")
      <3>1. /\ pc' = "idle" /\ base' = base /\ tables' = tables /\ desc' = desc /\ ask' = ask
            /\ ret' = IF tables.fails THEN "error" ELSE "nodata"
        BY <1>3, <2>2 DEF Fails, Return
      <3>2. Listing' = Listing /\ Behind0' = Behind0 /\ AtEnd(desc)' /\ ~HasRow(desc)' /\ ~desc'.fails
        BY <1>1, <2>1, <3>1 DEF Listing, Behind0, AtEnd, HasRow
      <3>3. ret' = "nodata" => tables'.pos = Len(tables'.rows)
        BY <1>1, <2>2, <3>1 DEF HasRow
      <3>4. ColumnsListed'
        BY <2>1, <3>1, <3>2, <3>3 DEF ColumnsListed
      <3> QED BY <1>1, <2>1, <3>1, <3>4 DEF ListInv, TablesListed, TypesListed
    <2>3. CASE HasRow(tables)
      <3> DEFINE i == tables.rows[tables.pos + 1]
      <3>1. /\ tables' = Advance(tables) /\ ask' = ask /\ base' = base
            /\ \/ Passes(ask, i) /\ pc' = "desc"
               \/ ~Passes(ask, i) /\ pc' = "tables"
        BY <2>3 DEF NextTable, Goto, Passes
      <3>2. tables'.rows = tables.rows /\ tables'.pos = tables.pos + 1 /\ tables'.pos - 1 = tables.pos /\ tables.pos + 1 <= Len(tables.rows)
        BY <1>1, <2>3, <3>1, AdvanceIs
      <3>3. Listing' = Listing
        BY <1>1, <3>1 DEF Listing
      <3>4. Before' = Behind0
        BY <3>1, <3>2 DEF Before, Behind0
      <3>5. ~Passes(ask, i) => Behind0' = Behind0
        <4>1. ~Passes(ask, tables.rows[tables.pos + 1]) =>
                First(ColumnLists(ask, tables.rows), tables.pos + 1) = First(ColumnLists(ask, tables.rows), tables.pos)
          BY <1>1, <3>2, OneMoreTable
        <4> QED BY <3>1, <3>2, <4>1 DEF Behind0
      <3>6. ColumnsListed'
        BY <2>1, <3>1, <3>3, <3>4, <3>5 DEF ColumnsListed
      <3> QED BY <1>1, <2>1, <3>1, <3>6 DEF ListInv, TablesListed, TypesListed
    <2> QED BY <2>2, <2>3 DEF NextTable
  <1> QED BY <1>1, <1>2, <1>3

LEMMA DescTableListed ==
  ASSUME WalkInv, WalkInv', ListInv, DescTable
  PROVE  ListInv'
  <1>1. pc = "desc" /\ got' = got /\ pos' = pos /\ opening \in BOOLEAN
    BY DEF DescTable, WalkInv, Positions
  <1>2. CASE opening
    <2>1. base = "none" /\ ask.fn \in {"columns", "primarykeys"}
      BY <1>2 DEF WalkInv, Positions
    <2>2. base' = "none" \/ base' = "primarykeys"
      BY <1>2, <2>1 DEF DescTable, TableOpened, OpenFails
    <2> QED BY <1>1, <2>2, OthersListed
  <1>3. CASE ~opening
    <2>1. base = "columns" /\ ask.fn = "columns" /\ Listing = Before
      BY <1>1, <1>3 DEF WalkInv, Positions, Walks, ListInv, ColumnsListed
    <2>2. /\ base' = base /\ tables' = tables /\ ask' = ask
          /\ \/ pc' = "idle" /\ ret' = "error" /\ desc' = Closed
             \/ pc' = "select"
      BY <1>3, <2>1 DEF DescTable, Return, Goto
    <2>3. Listing' = Listing /\ Before' = Before
      BY <1>1, <2>2 DEF Listing, Before
    <2>4. desc' = Closed => desc'.fails /\ ~AtEnd(desc)' /\ ~HasRow(desc)'
      BY ClosedIs DEF AtEnd, HasRow
    <2>5. ColumnsListed'
      BY <2>1, <2>2, <2>3, <2>4 DEF ColumnsListed
    <2> QED BY <1>1, <2>1, <2>2, <2>5 DEF ListInv, TablesListed, TypesListed
  <1> QED BY <1>1, <1>2, <1>3

LEMMA SelectTableListed ==
  ASSUME WalkInv, WalkInv', ListInv, SelectTable
  PROVE  ListInv'
  <1>1. /\ pc = "select" /\ got' = got /\ pos' = pos /\ opening \in BOOLEAN /\ ask.fn = "columns"
        /\ IsCursor(tables) /\ tables.rows \in Seq(DOMAIN Server) /\ AtTable /\ desc.pos = 0 /\ (~desc.fails => OfCurrent)
        /\ base \in {"none", "columns"}
    BY DEF SelectTable, WalkInv, Positions, Walks, Walking
  <1>2. tables.pos \in 1..Len(tables.rows) /\ tables.pos - 1 \in 0..Len(tables.rows) /\ current \in DOMAIN Server
    <2>1. tables.pos \in 1..Len(tables.rows)
      BY <1>1, CursorLength DEF AtTable
    <2> QED BY <1>1, <2>1 DEF AtTable
  <1>3. CASE base' = "none"
    BY <1>1, <1>3, OthersListed
  <1>4. CASE base' # "none"
    <2>1. /\ base' = "columns" /\ tables' = tables /\ desc' = desc /\ ask' = ask /\ current' = current
          /\ pc' \in {"idle", "desc_row"} /\ (pc' = "idle" => ret' \in {"ok", "error"})
      BY <1>1, <1>4 DEF SelectTable, TableOpened, OpenFails, Return, Goto, WalkInv, Positions
    <2>2. Listing = Before
      <3>1. CASE ~opening
        <4>1. base = "columns"
          BY <1>1, <3>1 DEF WalkInv, Positions, Walks
        <4> QED BY <1>1, <4>1 DEF ListInv, ColumnsListed
      <3>2. CASE opening
        <4>1. base = "none" /\ got = <<>> /\ Skips(ask, tables.rows, tables.pos - 1)
          BY <1>1, <3>2 DEF WalkInv, Positions, Walking, Walks
        <4>2. Before = <<>>
          BY <1>1, <1>2, <4>1, SkipsListNothing DEF Before
        <4> QED BY <4>1, <4>2 DEF Listing
      <3> QED BY <1>1, <3>1, <3>2
    <2>3. Listing' = Before /\ Before' = Before
      <3>1. Before' = Before
        BY <2>1 DEF Before
      <3>2. CASE base = "columns"
        BY <1>1, <2>1, <2>2, <3>1, <3>2 DEF Listing
      <3>3. CASE base = "none"
        <4>1. got = <<>>
          BY <1>1, <3>3 DEF WalkInv, Positions, Walks
        <4> QED BY <1>1, <2>1, <2>2, <3>1, <3>3, <4>1 DEF Listing
      <3> QED BY <1>1, <3>1, <3>2, <3>3
    <2>4. ~AtEnd(desc)
      BY <1>1, <1>2, ServerTyped DEF AtEnd, OfCurrent
    <2>5. Before \o First(NameLists(ask, current), 0) = Before
      <3>1. Before \in Seq(Pairs)
        BY <1>1, <1>2, ColumnListsTyped, FirstType DEF Before
      <3> QED BY <3>1, FirstNone, ConcatEmptySeq
    <2>6. (~AtEnd(desc))' /\ desc'.pos = 0 /\ NameLists(ask, current)' = NameLists(ask, current)
      BY <1>1, <2>1, <2>4 DEF AtEnd
    <2>7. ColumnsListed'
      BY <2>1, <2>3, <2>5, <2>6 DEF ColumnsListed
    <2> QED BY <1>1, <2>1, <2>7 DEF ListInv, TablesListed, TypesListed
  <1> QED BY <1>3, <1>4

LEMMA DescRowListed ==
  ASSUME WalkInv, WalkInv', ListInv, DescRow
  PROVE  ListInv'
  <1>1. /\ pc = "desc_row" /\ pos' = pos /\ ~opening /\ base \in {"columns", "primarykeys"} /\ base' = base
        /\ ask' = ask /\ tables' = tables /\ current' = current
        /\ IsCursor(tables) /\ IsCursor(desc) /\ IsList(got) /\ tables.rows \in Seq(DOMAIN Server)
    BY DEF DescRow, WalkInv, Positions, Walks
  <1>2. CASE base = "primarykeys"
    BY <1>1, <1>2, OthersListed
  <1>3. CASE base = "columns"
    <2>1. Before' = Before /\ Behind0' = Behind0 /\ NameLists(ask, current)' = NameLists(ask, current)
      BY <1>1 DEF Before, Behind0
    <2>2. CASE desc.fails /\ Return("error") /\ UNCHANGED <<desc, ordinal, got>>
      <3>1. Listing' = Before' /\ desc'.fails /\ pc' = "idle" /\ ret' = "error"
        BY <1>1, <1>3, <2>1, <2>2 DEF ListInv, ColumnsListed, Listing, Return
      <3>2. ColumnsListed'
        BY <1>1, <1>3, <3>1 DEF ColumnsListed, AtEnd, HasRow
      <3> QED BY <1>1, <1>3, <3>2 DEF ListInv, TablesListed, TypesListed
    <2>3. CASE AtEnd(desc) /\ Goto("tables") /\ UNCHANGED <<desc, ordinal, got>>
      <3>1. Listing' = Behind0' /\ pc' = "tables"
        BY <1>1, <1>3, <2>1, <2>3 DEF ListInv, ColumnsListed, Listing, Goto
      <3>2. ColumnsListed'
        BY <1>1, <1>3, <3>1 DEF ColumnsListed
      <3> QED BY <1>1, <1>3, <3>2 DEF ListInv, TablesListed, TypesListed
    <2>4. CASE HasRow(desc)
      <3>1. AtTable /\ OfCurrent /\ Walks
        BY <1>1, <1>3, <2>4 DEF WalkInv, Walking, Walks
      <3>2. desc' = Advance(desc)
        BY <2>4 DEF DescRow, HasRow, AtEnd
      <3>3. desc'.rows = desc.rows /\ desc'.pos = desc.pos + 1 /\ ~desc'.fails /\ desc.pos \in Nat /\ desc.pos + 1 \in 1..Len(desc.rows)
        BY <1>1, <2>4, <3>2, AdvanceIs
      <3>4. tables.pos \in 1..Len(tables.rows) /\ tables.pos - 1 \in Nat /\ (tables.pos - 1) + 1 = tables.pos
        BY <1>1, <3>1, CursorLength DEF AtTable
      <3>5. PICK i \in DOMAIN Server : i = current
        BY <1>1, <3>1, <3>4 DEF AtTable
      <3> DEFINE d == desc.pos
                 col == Row(desc')
                 n == NameLists(ask, i)
      <3>6. col = Server[i].cols[d + 1] /\ d + 1 <= Len(Server[i].cols) /\ Len(Server[i].cols) = Len(desc.rows)
        BY <3>1, <3>3, <3>5 DEF Row, OfCurrent
      <3>7. /\ First(n, d) \in Seq(Pairs) /\ <<i, col.name>> \in Pairs
            /\ First(n, d + 1) = IF Matches(ask.column, col.name) THEN Append(First(n, d), <<i, col.name>>) ELSE First(n, d)
        BY <3>3, <3>6, OneMoreName
      <3>8. Before \in Seq(Pairs)
        <4>1. tables.pos - 1 \in 0..Len(ColumnLists(ask, tables.rows))
          BY <1>1, <3>4, ColumnListsTyped
        <4> QED BY <1>1, <4>1, ColumnListsTyped, FirstType DEF Before
      <3>9. Listing = Before \o First(n, d)
        BY <1>1, <1>3, <2>4, <3>5 DEF ListInv, ColumnsListed
      <3> HIDE DEF n, col
      <3>10. \/ ~Matches(ask.column, col.name) /\ pc' = "desc_row" /\ got' = got
             \/ /\ Matches(ask.column, col.name) /\ pc' = "idle" /\ ret' = "ok"
                /\ got' = Append(got, columns_get_data(i, col))
        BY <1>1, <1>3, <2>4, <3>5 DEF DescRow, Return, Goto, HasRow, AtEnd, col
      <3>11. Listing' = Before \o First(n, d + 1)
        <4>1. CASE ~Matches(ask.column, col.name)
          BY <1>1, <3>7, <3>9, <3>10, <4>1 DEF Listing
        <4>2. CASE Matches(ask.column, col.name)
          <5> DEFINE e == columns_get_data(i, col)
          <5>1. got' = Append(got, e)
            BY <3>10, <4>2
          <5>2. e.table = i /\ e.name = col.name
            BY DEF columns_get_data, Answered
          <5> HIDE DEF e
          <5>3. Listing = [k \in 1..Len(got) |-> <<got[k].table, got[k].name>>]
            BY <1>1, <1>3, ListGrows DEF Listing
          <5>4. /\ Listing' = [k \in 1..(Len(got) + 1) |-> <<got'[k].table, got'[k].name>>]
                /\ \A k \in 1..Len(got) : got'[k] = got[k]
                /\ got'[Len(got) + 1] = e /\ Len(got) \in Nat
            <6>1. DOMAIN got' = 1..(Len(got) + 1) /\ Len(got') = Len(got) + 1 /\ Last(got') = e /\ \A k \in 1..Len(got) : got'[k] = got[k]
              BY <1>1, <5>1, ListGrows
            <6> QED BY <1>1, <1>3, <6>1, ListGrows DEF Listing, Last
          <5>5. Listing \in Seq(Pairs)
            BY <3>7, <3>8, <3>9, ConcatProperties
          <5>6. Len(Listing) = Len(got)
            BY <5>3, <5>4
          <5>7. Listing' = Append(Listing, <<i, col.name>>)
            <6> DEFINE more == Append(Listing, <<i, col.name>>)
            <6>1. /\ more \in Seq(Pairs) /\ Len(more) = Len(got) + 1 /\ more[Len(got) + 1] = <<i, col.name>>
                  /\ \A k \in 1..Len(got) : more[k] = Listing[k]
              BY <3>7, <5>5, <5>6, AppendProperties
            <6> HIDE DEF more
            <6>2. more = [k \in 1..(Len(got) + 1) |-> more[k]]
              BY <6>1
            <6>3. \A k \in 1..(Len(got) + 1) : more[k] = <<got'[k].table, got'[k].name>>
              <7> TAKE k \in 1..(Len(got) + 1)
              <7>1. CASE k = Len(got) + 1
                BY <5>2, <5>4, <6>1, <7>1
              <7>2. CASE k # Len(got) + 1
                <8>1. k \in 1..Len(got)
                  BY <5>4, <7>2
                <8> QED BY <5>3, <5>4, <6>1, <8>1
              <7> QED BY <7>1, <7>2
            <6>4. more = Listing'
              BY <5>4, <6>2, <6>3
            <6> QED BY <6>4 DEF more
          <5>8. Append(Listing, <<i, col.name>>) = Before \o Append(First(n, d), <<i, col.name>>)
            <6> DEFINE x == <<i, col.name>>
                       b == Before
                       f == First(n, d)
            <6>1. x \in Pairs /\ b \in Seq(Pairs) /\ f \in Seq(Pairs) /\ Listing = b \o f
              BY <3>7, <3>8, <3>9
            <6> HIDE DEF x, b, f
            <6>2. <<x>> \in Seq(Pairs) /\ b \o f \in Seq(Pairs)
              BY <6>1
            <6>3. Append(f, x) = f \o <<x>> /\ Append(b \o f, x) = (b \o f) \o <<x>>
              BY <6>1, <6>2, AppendIsConcat
            <6>4. (b \o f) \o <<x>> = b \o (f \o <<x>>)
              BY ONLY <6>1, <6>2, ConcatThrice
            <6> QED BY <6>1, <6>3, <6>4 DEF x, b, f
          <5> QED BY <3>7, <4>2, <5>7, <5>8
        <4> QED BY <4>1, <4>2
      <3>12. AtEnd(desc)' => Listing' = Behind0
        <4> SUFFICES ASSUME AtEnd(desc)' PROVE Listing' = Behind0
          OBVIOUS
        <4>1. d + 1 = Len(Server[i].cols)
          BY <3>3, <3>6 DEF AtEnd
        <4>2. First(n, d + 1) = FlattenSeq(n)
          BY <4>1, NameListsTyped, FirstAll DEF n
        <4>3. Passes(ask, tables.rows[tables.pos]) /\ tables.rows[tables.pos] = i
          BY <3>1, <3>5 DEF AtTable
        <4>4. First(ColumnLists(ask, tables.rows), (tables.pos - 1) + 1) = Before \o FlattenSeq(n)
          <5> DEFINE k == tables.pos - 1
                     rows == tables.rows
          <5>1. k \in Nat /\ k + 1 <= Len(rows) /\ rows \in Seq(DOMAIN Server) /\ rows[k + 1] = i /\ Passes(ask, rows[k + 1])
            BY <1>1, <3>4, <4>3
          <5> HIDE DEF k, rows
          <5>2. First(ColumnLists(ask, rows), k + 1) = First(ColumnLists(ask, rows), k) \o FlattenSeq(NameLists(ask, rows[k + 1]))
            BY <5>1, OneMoreTable
          <5> QED BY <5>1, <5>2 DEF Before, n, k, rows
        <4> QED BY <3>4, <3>11, <4>2, <4>4 DEF Behind0
      <3>13. ColumnsListed'
        <4>1. desc'.pos = d + 1 /\ NameLists(ask', current') = n
          BY <1>1, <3>3, <3>5 DEF n
        <4> QED BY <1>3, <2>1, <3>3, <3>10, <3>11, <3>12, <4>1 DEF ColumnsListed
      <3> QED BY <1>1, <1>3, <3>13 DEF ListInv, TablesListed, TypesListed
    <2> QED BY <2>2, <2>3, <2>4 DEF DescRow
  <1> QED BY <1>1, <1>2, <1>3

LEMMA StillListed ==
  ASSUME ListInv, UNCHANGED <<base, ask, pc, tables, desc, current, pos, pos0, ret, got>>
  PROVE  ListInv'
  <1>1. ColumnsListed'
    BY DEF ListInv, ColumnsListed, Listing, Before, Behind0, AtEnd, HasRow
  <1> QED BY <1>1 DEF ListInv, TablesListed, TypesListed

LEMMA StepListed == WalkInv /\ WalkInv' /\ ListInv /\ [CatalogNext]_catalog_vars => ListInv'
  <1> SUFFICES ASSUME WalkInv, WalkInv', ListInv, [CatalogNext]_catalog_vars PROVE ListInv'
    OBVIOUS
  <1>1. ASSUME NEW a \in Asks, SQLTables(a) \/ SQLColumns(a) \/ SQLGetTypeInfo(a) PROVE ListInv'
    BY <1>1, OpenListed
  <1>2. CASE FetchTable \/ FetchType \/ Fetch
    BY <1>2, TableFetchListed, TypeFetchListed, FetchListed
  <1>3. CASE Driver
    BY <1>3, NextTableListed, DescTableListed, SelectTableListed, DescRowListed DEF Driver
  <1>4. CASE SQLCloseCursor
    BY <1>4, OthersListed DEF SQLCloseCursor
  <1>5. ASSUME NEW i \in DOMAIN Server, Drop(i) PROVE ListInv'
    BY <1>5, StillListed DEF Drop
  <1>6. CASE UNCHANGED catalog_vars
    BY <1>6, StillListed DEF catalog_vars
  <1> QED BY <1>1, <1>2, <1>3, <1>4, <1>5, <1>6 DEF CatalogNext

\* Whatever the patterns of a call let through: what has been handed out is that, of the tables
\* and columns passed so far, each once and in order, and of all of them at SQL_NO_DATA
\* (_fetch_row_with_tsdb of tables.c, columns.c and primarykeys.c, _fetch_row of typesinfo.c).
THEOREM ListInvariance == CatalogSpec => [](WalkInv /\ ListInv)
  <1>1. CatalogInit => WalkInv /\ ListInv
    BY InitWalk, InitListed
  <1>2. (WalkInv /\ ListInv) /\ [CatalogNext]_catalog_vars => (WalkInv /\ ListInv)'
    BY StepWalk, StepListed
  <1> QED BY <1>1, <1>2, PTL DEF CatalogSpec

-----------------------------------------------------------------------------
(* What the lists are by the patterns the application gave.                *)

\* Every filter of a call lets through what the call means by it.
FilterMeans(a) ==
  /\ Generic(a) => \A i \in DOMAIN Server : Passes(a, i) <=> Wanted(a, i)
  /\ a.fn = "columns" =>
       \A i \in DOMAIN Server : \A k \in DOMAIN Server[i].cols :
         Matches(a.column, Server[i].cols[k].name) <=> Named(a.column, Server[i].cols[k].name)
LEMMA WantedAre ==
  ASSUME FilterMeans(ask), Generic(ask), tables.rows \in Seq(DOMAIN Server)
  PROVE  TablesWanted = FlattenSeq(TableLists(ask, tables.rows))
  <1> DEFINE rows == tables.rows
             wanted == {k \in DOMAIN rows : Wanted(ask, rows[k])}
  <1>1. TablesWanted = FlattenSeq([k \in DOMAIN rows |-> IF k \in wanted THEN <<rows[k]>> ELSE <<>>])
    BY DEF TablesWanted, Sifted
  <1>2. \A k \in DOMAIN rows : k \in wanted <=> Passes(ask, rows[k])
    BY DEF FilterMeans
  <1>3. [k \in DOMAIN rows |-> IF k \in wanted THEN <<rows[k]>> ELSE <<>>] = TableLists(ask, rows)
    <2> HIDE DEF wanted
    <2> QED BY <1>2 DEF TableLists
  <1> QED BY <1>1, <1>3

LEMMA NamesAre ==
  ASSUME FilterMeans(ask), ask.fn = "columns", NEW i \in DOMAIN Server
  PROVE  NamesOf(i) = FlattenSeq(NameLists(ask, i))
  <1> DEFINE c == Server[i].cols
             names == [k \in DOMAIN c |-> <<i, c[k].name>>]
             named == {k \in DOMAIN names : Named(ask.column, names[k][2])}
  <1>1. NamesOf(i) = FlattenSeq([k \in DOMAIN names |-> IF k \in named THEN <<names[k]>> ELSE <<>>])
    BY DEF NamesOf, Sifted
  <1>2. DOMAIN names = DOMAIN c /\ \A k \in DOMAIN c : names[k] = <<i, c[k].name>> /\ names[k][2] = c[k].name
    OBVIOUS
  <1>3. \A k \in DOMAIN c : k \in named <=> Matches(ask.column, c[k].name)
    BY <1>2 DEF FilterMeans
  <1>4. [k \in DOMAIN names |-> IF k \in named THEN <<names[k]>> ELSE <<>>] = NameLists(ask, i)
    <2> HIDE DEF named, names
    <2> QED BY <1>2, <1>3 DEF NameLists
  <1> QED BY <1>1, <1>4

LEMMA ExpectedColumns ==
  ASSUME FilterMeans(ask), Generic(ask), ask.fn = "columns", base = "columns", tables.rows \in Seq(DOMAIN Server)
  PROVE  Expected = FlattenSeq(ColumnLists(ask, tables.rows))
  <1> DEFINE rows == tables.rows
             wanted == {k \in DOMAIN rows : Wanted(ask, rows[k])}
  <1>1. Expected = FlattenSeq([k \in DOMAIN rows |-> IF k \in wanted THEN NamesOf(rows[k]) ELSE <<>>])
    BY DEF Expected
  <1>2. \A k \in DOMAIN rows : /\ k \in wanted <=> Passes(ask, rows[k])
                               /\ NamesOf(rows[k]) = FlattenSeq(NameLists(ask, rows[k]))
    <2> TAKE k \in DOMAIN rows
    <2>1. rows[k] \in DOMAIN Server
      OBVIOUS
    <2> QED BY <2>1, NamesAre DEF FilterMeans
  <1>3. [k \in DOMAIN rows |-> IF k \in wanted THEN NamesOf(rows[k]) ELSE <<>>] = ColumnLists(ask, rows)
    <2> HIDE DEF wanted
    <2> QED BY <1>2 DEF ColumnLists
  <1> QED BY <1>1, <1>3

LEMMA ExpectedTypes ==
  ASSUME base = "typesinfo"
  PROVE  Expected = FlattenSeq(TypeLists(ask, pos0))
  <1> DEFINE all == [r \in DOMAIN _records |-> r]
             after == {r \in DOMAIN all : all[r] > pos0 /\ all[r] \in OfType(ask.data_type)}
  <1>1. Expected = FlattenSeq([r \in DOMAIN all |-> IF r \in after THEN <<all[r]>> ELSE <<>>])
    BY DEF Expected, Sifted
  <1>2. DOMAIN all = DOMAIN _records /\ \A r \in DOMAIN all : all[r] = r
    OBVIOUS
  <1>3. \A r \in DOMAIN _records : r \in after <=> r > pos0 /\ r \in OfType(ask.data_type)
    OBVIOUS
  <1>4. [r \in DOMAIN all |-> IF r \in after THEN <<all[r]>> ELSE <<>>] = TypeLists(ask, pos0)
    <2> HIDE DEF after, all
    <2> QED BY <1>2, <1>3 DEF TypeLists
  <1> QED BY <1>1, <1>4

\* The first table that passes heads the list.
LEMMA FirstOfTables ==
  ASSUME FilterMeans(ask), Generic(ask), tables.rows \in Seq(DOMAIN Server), IsCursor(tables),
         AtTable, Skips(ask, tables.rows, tables.pos - 1)
  PROVE  Head(TablesWanted) = current /\ current \in DOMAIN Server
  <1> DEFINE Ids == DOMAIN Server
             w == TableLists(ask, tables.rows)
             k == tables.pos - 1
             rows == tables.rows
  <1>1. k \in Nat /\ k + 1 = tables.pos /\ k + 1 <= Len(rows) /\ k \in 0..Len(rows) /\ k + 1 \in 0..Len(rows) /\ k + 1 \in 1..Len(rows)
    BY CursorLength DEF AtTable
  <1>2. First(w, k) = <<>>
    BY <1>1, SkipsListNothing
  <1>3. Passes(ask, rows[k + 1]) /\ rows[k + 1] = current /\ current \in Ids
    BY <1>1 DEF AtTable
  <1>4. First(w, k + 1) = Append(First(w, k), rows[k + 1])
    <2> HIDE DEF k, rows
    <2>1. rows \in Seq(DOMAIN Server)
      BY DEF rows
    <2>2. First(TableLists(ask, rows), k + 1) = Append(First(TableLists(ask, rows), k), rows[k + 1])
      BY <1>1, <1>3, <2>1, OneMoreTable
    <2> QED BY <2>2 DEF rows
  <1>5. First(w, k + 1) = <<current>>
    <2>1. First(w, k + 1) = Append(<<>>, current)
      BY <1>2, <1>3, <1>4
    <2> QED BY <2>1
  <1>6. w \in Seq(Seq(Ids)) /\ Len(w) = Len(rows)
    BY TableListsTyped
  <1> HIDE DEF Ids, w, k
  <1>7. PICK t \in Seq(Ids) : FlattenSeq(w) = First(w, k + 1) \o t
    BY <1>1, <1>6, FirstAndRest
  <1>8. Head(<<current>> \o t) = current
    <2>1. <<current>> \in Seq(Ids)
      BY <1>3
    <2>2. <<current>> \o t \in Seq(Ids) /\ Len(<<current>> \o t) = 1 + Len(t) /\ (<<current>> \o t)[1] = current
      BY <2>1
    <2> QED BY <2>2, HeadTailProperties
  <1>9. TablesWanted = FlattenSeq(w)
    BY WantedAre DEF w
  <1> QED BY <1>3, <1>5, <1>7, <1>8, <1>9 DEF Ids

LEMMA SelfIsPrefix ==
  ASSUME NEW s, IsList(s)
  PROVE  IsPrefix(s, s)
  BY ListGrows DEF IsPrefix

LEMMA SubSeqIsPrefix ==
  ASSUME NEW s, IsList(s), NEW k \in 0..Len(s)
  PROVE  IsPrefix(SubSeq(s, 1, k), s)
  <1> DEFINE Elem == Range(s)
  <1>1. s \in Seq(Elem)
    BY DEF IsList
  <1> HIDE DEF Elem
  <1>2. \A j \in 1..k : s[j] \in Elem
    BY <1>1
  <1>3. Len(SubSeq(s, 1, k)) = k /\ k <= Len(s)
    BY <1>1, <1>2, SubSeqProperties
  <1>4. SubSeq(SubSeq(s, 1, k), 1, k) = SubSeq(s, 1, k)
    <2>1. SubSeq(s, 1, k) \in Seq(Elem)
      BY <1>1, <1>2, SubSeqProperties
    <2> QED BY <1>3, <2>1, SubSeqFull
  <1> QED BY <1>3, <1>4 DEF IsPrefix

\* Where the driver is while it lists columns.
LEMMA ColumnPlaces ==
  ASSUME WalkInv, ListInv, base = "columns"
  PROVE  \/ Listing = Behind0
         \/ Listing = Before
         \/ HasRow(desc) /\ AtTable /\ OfCurrent /\ Listing = Before \o First(NameLists(ask, current), desc.pos)
  <1>1. /\ pc \in {"idle", "tables", "desc", "select", "desc_row"} /\ IsCursor(desc) /\ Walks
    BY DEF WalkInv, Positions, Walks
  <1>2. desc.fails \/ AtEnd(desc) \/ HasRow(desc)
    BY <1>1, CursorLength DEF AtEnd, HasRow
  <1> QED BY <1>1, <1>2 DEF WalkInv, Walking, ListInv, ColumnsListed

LEMMA ColumnsInOrder ==
  ASSUME WalkInv, ListInv, FilterMeans(ask), base = "columns"
  PROVE  IsPrefix(Listing, Expected)
  <1> DEFINE rows == tables.rows
             v == ColumnLists(ask, rows)
             p == tables.pos
  <1>1. ask \in Asks /\ ask.fn = "columns" /\ IsCursor(tables) /\ rows \in Seq(DOMAIN Server) /\ IsCursor(desc)
    BY DEF WalkInv, Positions, Walks
  <1>2. Expected = FlattenSeq(v)
    BY <1>1, WalksAreGeneric, ExpectedColumns
  <1>3. v \in Seq(Seq(Pairs)) /\ Len(v) = Len(rows)
    BY <1>1, ColumnListsTyped
  <1>4. p \in 0..Len(v) /\ p \in Nat
    BY <1>1, <1>3, CursorLength
  <1>5. CASE Listing = Behind0
    <2> HIDE DEF v
    <2> QED BY <1>2, <1>3, <1>4, <1>5, FirstIsPrefix DEF Behind0, v
  <1>6. CASE Listing = Before
    <2>1. CASE p = 0
      <3>1. SubSeq(v, 1, p - 1) = <<>>
        BY <1>4, <2>1, SubSeqEmpty
      <3>2. Listing = First(v, 0)
        BY <1>6, <3>1, FirstNone, FlattenEmpty DEF Before, First
      <3>3. 0 \in 0..Len(v)
        BY <1>4
      <3> HIDE DEF v
      <3> QED BY <1>2, <1>3, <3>2, <3>3, FirstIsPrefix
    <2>2. CASE p # 0
      <3>1. p - 1 \in 0..Len(v)
        BY <1>3, <1>4, <2>2
      <3>2. Listing = First(v, p - 1)
        BY <1>6 DEF Before
      <3> HIDE DEF v
      <3> QED BY <1>2, <1>3, <3>1, <3>2, FirstIsPrefix
    <2> QED BY <2>1, <2>2
  <1>7. CASE HasRow(desc) /\ AtTable /\ OfCurrent /\ Listing = Before \o First(NameLists(ask, current), desc.pos)
    <2> DEFINE k == p - 1
               n == NameLists(ask, current)
               d == desc.pos
    <2>1. k \in Nat /\ k < Len(v) /\ k + 1 = p /\ p \in 1..Len(rows)
      BY <1>3, <1>4, <1>7 DEF AtTable
    <2>2. current = rows[p] /\ Passes(ask, rows[p]) /\ current \in DOMAIN Server
      BY <1>1, <1>7, <2>1 DEF AtTable
    <2>3. n \in Seq(Seq(Pairs)) /\ Len(n) = Len(Server[current].cols)
      BY <2>2, NameListsTyped
    <2>4. d \in 0..Len(n)
      BY <1>1, <1>7, <2>3, CursorLength DEF OfCurrent
    <2>5. v[k + 1] = FlattenSeq(n)
      BY <1>1, <2>1, <2>2, ColumnListsTyped
    <2> HIDE DEF n, d, v
    <2>6. PICK q \in Seq(Pairs) : FlattenSeq(n) = First(n, d) \o q
      BY <2>3, <2>4, FirstAndRest
    <2>7. First(n, d) \in Seq(Pairs)
      BY <2>3, <2>4, FirstType
    <2>8. Listing = First(v, k) \o First(n, d)
      BY <1>7 DEF Before, n, d, v
    <2> HIDE DEF k
    <2>9. IsPrefix(First(v, k) \o First(n, d), FlattenSeq(v))
      BY <1>3, <2>1, <2>5, <2>6, <2>7, WithinIsPrefix
    <2> QED BY <1>2, <2>8, <2>9 DEF v
  <1> QED BY <1>5, <1>6, <1>7, ColumnPlaces

\* SQLPrimaryKeys: the key of the first table that was asked for, or nothing yet.
LEMMA KeysAre ==
  ASSUME WalkInv, FilterMeans(ask), base = "primarykeys"
  PROVE  /\ Expected = KeyOf(current) /\ IsPrefix(Listing, Expected)
         /\ (pc = "idle" /\ ret = "nodata") => Listing = Expected
  <1>1. ask \in Asks /\ ask.fn = "primarykeys" /\ IsCursor(tables) /\ tables.rows \in Seq(DOMAIN Server)
    BY DEF WalkInv, Positions, Walks
  <1>2. Head(TablesWanted) = current /\ current \in DOMAIN Server
    BY <1>1, WalksAreGeneric, FirstOfTables DEF WalkInv, Keys
  <1>3. Expected = KeyOf(current)
    BY <1>2 DEF Expected, KeyOf
  <1>4. KeyOf(current) \in Seq(Pairs)
    <2>1. 1 \in 1..Len(Server[current].cols)
      BY <1>2, ServerTyped
    <2>2. <<current, Server[current].cols[1].name>> \in Pairs
      BY <1>2, <2>1, ServerTyped DEF Pairs, Column
    <2>3. <<<<current, Server[current].cols[1].name>>>> \in Seq(Pairs) /\ <<>> \in Seq(Pairs)
      BY <2>2
    <2> QED BY <2>3 DEF KeyOf
  <1>5. CASE got = <<>> /\ (pc = "idle" => ret # "nodata")
    <2>1. Listing = <<>>
      BY <1>5 DEF Listing
    <2>2. <<>> \o KeyOf(current) = KeyOf(current) /\ <<>> \in Seq(Pairs)
      BY <1>4, ConcatEmptySeq
    <2>3. IsPrefix(<<>>, KeyOf(current))
      BY <1>4, <2>2, PrefixOfConcat
    <2> QED BY <1>3, <1>5, <2>1, <2>3
  <1>6. CASE Listing = KeyOf(current)
    <2>1. IsList(KeyOf(current))
      BY <1>4, ListIs
    <2> QED BY <1>3, <1>6, <2>1, SelfIsPrefix
  <1> QED BY <1>5, <1>6 DEF WalkInv, Keys

LEMMA TablesInOrder ==
  ASSUME WalkInv, ListInv, FilterMeans(ask), base = "tables"
  PROVE  IsPrefix(Listing, Expected) /\ (ret = "nodata" => Listing = Expected)
  <1> DEFINE rows == tables.rows
             p == tables.pos
             w == TableLists(ask, rows)
  <1>1. Listing = got /\ ask \in Asks /\ IsCursor(tables) /\ p \in 0..Len(rows) /\ IsList(rows)
    BY DEF Listing, WalkInv, Positions, IsCursor
  <1>2. ret = "nodata" => p = Len(rows)
    BY DEF ListInv, TablesListed
  <1>3. CASE Generic(ask)
    <2>1. rows \in Seq(DOMAIN Server)
      BY <1>3 DEF WalkInv, Positions
    <2>2. Expected = FlattenSeq(w)
      BY <1>3, <2>1, WantedAre DEF Expected, Generic
    <2>3. got = First(w, p)
      BY <1>3 DEF ListInv, TablesListed
    <2>4. w \in Seq(Seq(DOMAIN Server)) /\ Len(w) = Len(rows)
      BY <2>1, TableListsTyped
    <2> HIDE DEF w
    <2>5. IsPrefix(First(w, p), FlattenSeq(w)) /\ First(w, Len(w)) = FlattenSeq(w)
      BY <1>1, <2>4, FirstIsPrefix, FirstAll
    <2> QED BY <1>1, <1>2, <2>2, <2>3, <2>4, <2>5
  <1>4. CASE ~Generic(ask)
    <2>1. Expected = rows /\ got = SubSeq(rows, 1, p)
      <3>1. Expected = rows
        BY <1>4 DEF Expected, Generic
      <3>2. got = SubSeq(rows, 1, p)
        BY <1>4 DEF ListInv, TablesListed
      <3> QED BY <3>1, <3>2
    <2>2. IsPrefix(SubSeq(rows, 1, p), rows) /\ SubSeq(rows, 1, Len(rows)) = rows
      <3> HIDE DEF rows
      <3> QED BY <1>1, SubSeqIsPrefix, SubSeqFull DEF IsList
    <2> QED BY <1>1, <1>2, <2>1, <2>2
  <1> QED BY <1>3, <1>4

LEMMA TypesInOrder ==
  ASSUME ListInv, base = "typesinfo"
  PROVE  IsPrefix(Listing, Expected) /\ (ret = "nodata" => Listing = Expected)
  <1> DEFINE w == TypeLists(ask, pos0)
  <1>1. Listing = got /\ got = First(w, pos) /\ (ret = "nodata" => pos = 4) /\ pos \in 0..4
    BY DEF Listing, ListInv, TypesListed
  <1>2. w \in Seq(Seq(Nat)) /\ Len(w) = 4
    BY TypeListsTyped
  <1>3. Expected = FlattenSeq(w)
    BY ExpectedTypes
  <1> HIDE DEF w
  <1>4. IsPrefix(First(w, pos), FlattenSeq(w)) /\ First(w, Len(w)) = FlattenSeq(w)
    BY <1>1, <1>2, FirstIsPrefix, FirstAll
  <1> QED BY <1>1, <1>2, <1>3, <1>4

LEMMA OneSource ==
  ASSUME WalkInv, base # "none"
  PROVE  ask \in Asks /\ base \in {"tables", "columns", "primarykeys", "typesinfo"}
  BY DEF WalkInv, Positions

-----------------------------------------------------------------------------
(* Patterns that are exact are run as ODBC means them.                     *)

LEMMA LikeIsFound ==
  ASSUME NEW ex \in Seq(Glyph), NEW str \in Seq(Glyph), ~wildcomp_fails(ex), ex # <<>> => Last(ex) # "\\", Like(ex, str)
  PROVE  wildexec(ex, str)
  <1> DEFINE n == Len(ex)
  <1>1. PICK g : Alike(ex, str, g) /\ (Like(ex, str) <=> Len(str) \in g[n].at /\ ~g[n].escaped)
    BY LikeOneByOne
  <1>2. wildexec(ex, str) <=> IF EndsWild(ex) THEN Len(str) \in g[n].at ELSE g[n].at # {}
    BY <1>1, CompiledMeans
  <1>3. Len(str) \in g[n].at
    BY <1>1
  <1> QED BY <1>2, <1>3

LEMMA ExactMeans ==
  ASSUME NEW arg, arg.text \in Seq(STRING), ~wildcomp_fails(arg.text), NEW names, Exact(arg, names),
         NEW name \in names, name \in Seq(STRING)
  PROVE  Matches(arg, name) <=> Named(arg, name)
  <1> DEFINE ex == arg.text
  <1>1. \A ch \in STRING : ch \in Glyph
    BY DEF Glyph
  <1>2. ex \in Seq(Glyph) /\ name \in Seq(Glyph)
    BY <1>1, SeqMonotonic
  <1>3. CASE ~arg.given
    BY <1>3 DEF Matches, Named
  <1>4. CASE arg.given
    <2>1. ex # <<>> => Last(ex) # "\\"
      BY <1>4 DEF Exact
    <2>2. wildexec(ex, name) <=> Like(IF EndsWild(ex) THEN ex ELSE Append(ex, "%"), name)
      BY <1>2, <2>1, GlyphsMean
    <2>3. Like(ex, name) => wildexec(ex, name)
      BY <1>2, <2>1, LikeIsFound
    <2>4. EndsWild(ex) \/ (Like(Append(ex, "%"), name) => Like(ex, name))
      BY <1>4 DEF Exact
    <2>5. wildexec(ex, name) <=> Like(ex, name)
      BY <2>2, <2>3, <2>4
    <2> QED BY <1>4, <2>5 DEF Matches, Named
  <1> QED BY <1>3, <1>4

LEMMA KindsAreTyped ==
  ASSUME NEW a \in Asks, Listlike(a.types.text), NEW i \in DOMAIN Server
  PROVE  _match(a, i) <=> \E k \in DOMAIN a.types.text : a.types.text[k] = TABLE_TYPE(i)
  <1> DEFINE w == TABLE_TYPE(i)
             text == a.types.text
  <1>1. ~Divides(w)
    BY DEF TABLE_TYPE, Divides, Comma, Space
  <1>2. text \in Seq(STRING)
    BY CatalogAssumption DEF Args
  <1> HIDE DEF w, text
  <1>3. <<w>> \in _tables_parse_table_type(text) <=> \E k \in DOMAIN text : text[k] = w
    BY <1>1, <1>2, TypesMean DEF text
  <1> QED BY <1>3 DEF _match, w, text

LEMMA ExactAskMeans ==
  ASSUME NEW a \in Asks, ExactAsk(a), ~BadPattern(a)
  PROVE  FilterMeans(a)
  <1>0. /\ a.catalog \in Args /\ a.schema \in Args /\ a.table \in Args /\ a.column \in Args /\ a.types \in Args
        /\ ~wildcomp_fails(a.catalog.text) /\ ~wildcomp_fails(a.schema.text) /\ ~wildcomp_fails(a.table.text)
        /\ ~wildcomp_fails(a.column.text)
    BY CatalogAssumption DEF BadPattern
  <1>1. a.catalog.text \in Seq(STRING) /\ a.schema.text \in Seq(STRING) /\ a.table.text \in Seq(STRING) /\ a.column.text \in Seq(STRING)
    BY <1>0 DEF Args
  <1>2. \A i \in DOMAIN Server : Server[i].db \in Seq(STRING) /\ Server[i].name \in Seq(STRING)
    BY ServerTyped DEF Names
  <1>3. <<>> \in Seq(STRING)
    BY EmptySeq
  <1>4. ASSUME NEW i \in DOMAIN Server PROVE Passes(a, i) <=> Wanted(a, i)
    <2>1. Matches(a.catalog, Server[i].db) <=> Named(a.catalog, Server[i].db)
      <3>1. Exact(a.catalog, ServerNames.catalog) /\ Server[i].db \in ServerNames.catalog
        BY DEF ExactAsk, ServerNames
      <3> QED BY <1>0, <1>1, <1>2, <3>1, ExactMeans
    <2>2. Matches(a.schema, <<>>) <=> Named(a.schema, <<>>)
      <3>1. Exact(a.schema, ServerNames.schema) /\ <<>> \in ServerNames.schema
        BY DEF ExactAsk, ServerNames
      <3> QED BY <1>0, <1>1, <1>3, <3>1, ExactMeans
    <2>3. Matches(a.table, Server[i].name) <=> Named(a.table, Server[i].name)
      <3>1. Exact(a.table, ServerNames.table) /\ Server[i].name \in ServerNames.table
        BY DEF ExactAsk, ServerNames
      <3> QED BY <1>0, <1>1, <1>2, <3>1, ExactMeans
    <2>4. _match(a, i) <=> \E k \in DOMAIN a.types.text : a.types.text[k] = TABLE_TYPE(i)
      BY KindsAreTyped DEF ExactAsk
    <2>5. a.catalog.given => (wildexec(a.catalog.text, Server[i].db) <=> Like(a.catalog.text, Server[i].db))
      BY <2>1 DEF Matches, Named
    <2> QED BY <2>2, <2>3, <2>4, <2>5 DEF Passes, _fetch_row_with_tsdb, Wanted
  <1>5. ASSUME a.fn = "columns", NEW i \in DOMAIN Server, NEW k \in DOMAIN Server[i].cols
        PROVE  Matches(a.column, Server[i].cols[k].name) <=> Named(a.column, Server[i].cols[k].name)
    <2>1. Exact(a.column, ServerNames.column) /\ Server[i].cols[k].name \in ServerNames.column
      BY <1>5 DEF ExactAsk, ServerNames
    <2>2. Server[i].cols[k].name \in Seq(STRING)
      BY ServerTyped DEF Names, Column
    <2> QED BY <1>0, <1>1, <2>1, <2>2, ExactMeans
  <1> QED BY <1>4, <1>5 DEF FilterMeans

\* A pattern that does not compile is refused before anything is listed.
Compilable == (Walks \/ (base = "tables" /\ Generic(ask))) => ~BadPattern(ask)

LEMMA CompilableKeeps ==
  ASSUME Compilable, ask' = ask, Walks' => Walks, base' = "tables" => Walks \/ base = "tables"
  PROVE  Compilable'
  <1>1. (BadPattern(ask)' <=> BadPattern(ask)) /\ (Generic(ask)' <=> Generic(ask))
    BY DEF BadPattern, Generic
  <1> QED BY <1>1 DEF Compilable

LEMMA StepCompilable == WalkInv /\ Compilable /\ [CatalogNext]_catalog_vars => Compilable'
  <1> SUFFICES ASSUME WalkInv, Compilable, [CatalogNext]_catalog_vars PROVE Compilable'
    OBVIOUS
  <1>1. CASE OpenFails
    BY <1>1 DEF OpenFails, Return, Compilable, Walks
  <1>2. ASSUME NEW a \in Asks, SQLTables(a) \/ SQLColumns(a) \/ SQLGetTypeInfo(a) PROVE Compilable'
    <2>1. CASE SQLTables(a)
      BY <1>1, <2>1 DEF SQLTables, Return, Compilable, Walks, Generic
    <2>2. CASE SQLColumns(a)
      BY <1>1, <2>2 DEF SQLColumns, Compilable, BadPattern
    <2>3. CASE SQLGetTypeInfo(a)
      BY <2>3 DEF SQLGetTypeInfo, Return, Compilable, Walks
    <2> QED BY <1>2, <2>1, <2>2, <2>3
  <1>3. CASE FetchTable \/ FetchType \/ Fetch
    <2>1. ask' = ask /\ base' = base /\ (opening' = opening \/ opening' = FALSE)
      BY <1>3 DEF FetchTable, FetchType, Fetch, Return, Goto
    <2> QED BY <2>1, CompilableKeeps DEF Walks
  <1>4. CASE Driver
    <2>1. \/ OpenFails
          \/ ask' = ask /\ (opening' = opening \/ opening' = FALSE) /\ (base' = base \/ opening)
      BY <1>4 DEF Driver, NextTable, DescTable, SelectTable, DescRow, Fails, TableOpened, Return, Goto
    <2> QED BY <1>1, <2>1, CompilableKeeps DEF Walks
  <1>5. CASE SQLCloseCursor
    BY <1>5 DEF SQLCloseCursor, Return, Compilable, Walks
  <1>6. CASE (\E i \in DOMAIN Server : Drop(i)) \/ UNCHANGED catalog_vars
    <2>1. ask' = ask /\ base' = base /\ opening' = opening
      BY <1>6 DEF Drop, catalog_vars
    <2> QED BY <2>1, CompilableKeeps DEF Walks
  <1> QED BY <1>2, <1>3, <1>4, <1>5, <1>6 DEF CatalogNext

LEMMA InOrderNow ==
  ASSUME WalkInv, ListInv, base \notin {"none", "typesinfo"} => FilterMeans(ask)
  PROVE  ListedInOrder /\ EndIsComplete
  <1>1. base \notin {"none", "typesinfo"} => FilterMeans(ask)
    OBVIOUS
  <1>2. ListedInOrder
    BY <1>1, OneSource, TablesInOrder, ColumnsInOrder, KeysAre, TypesInOrder DEF ListedInOrder
  <1>3. EndIsComplete
    <2> SUFFICES ASSUME base # "none", pc = "idle", ret = "nodata" PROVE Listing = Expected
      BY DEF EndIsComplete
    <2>1. CASE base = "columns"
      <3>1. AtEnd(desc) /\ tables.pos = Len(tables.rows) /\ Listing = Behind0
        BY <2>1 DEF ListInv, ColumnsListed
      <3>2. ask.fn = "columns" /\ ask \in Asks /\ tables.rows \in Seq(DOMAIN Server)
        BY <2>1 DEF WalkInv, Positions, Walks
      <3>3. Expected = FlattenSeq(ColumnLists(ask, tables.rows))
        BY <1>1, <2>1, <3>2, WalksAreGeneric, ExpectedColumns
      <3>4. First(ColumnLists(ask, tables.rows), Len(tables.rows)) = FlattenSeq(ColumnLists(ask, tables.rows))
        <4>1. ColumnLists(ask, tables.rows) \in Seq(Seq(Pairs)) /\ Len(ColumnLists(ask, tables.rows)) = Len(tables.rows)
          BY <3>2, ColumnListsTyped
        <4>2. First(ColumnLists(ask, tables.rows), Len(ColumnLists(ask, tables.rows))) = FlattenSeq(ColumnLists(ask, tables.rows))
          BY <4>1, FirstAll
        <4> QED BY <4>1, <4>2
      <3> QED BY <3>1, <3>3, <3>4 DEF Behind0
    <2> QED BY <1>1, <2>1, OneSource, TablesInOrder, KeysAre, TypesInOrder
  <1> QED BY <1>2, <1>3

LEMMA AsAskedNow ==
  ASSUME WalkInv, ListInv, Compilable, ExactAsks
  PROVE  ListedInOrder /\ EndIsComplete
  <1>1. ASSUME base \notin {"none", "typesinfo"} PROVE FilterMeans(ask)
    <2>1. ask \in Asks /\ base = ask.fn /\ base \in {"tables", "columns", "primarykeys"}
      BY <1>1 DEF WalkInv, Positions
    <2>2. CASE Generic(ask)
      <3>1. ~BadPattern(ask)
        BY <2>1, <2>2 DEF Compilable, Walks
      <3>2. ExactAsk(ask)
        BY <2>1, <2>2, <3>1 DEF ExactAsks, Generic
      <3> QED BY <2>1, <3>1, <3>2, ExactAskMeans
    <2>3. CASE ~Generic(ask)
      BY <2>1, <2>3, WalksAreGeneric DEF FilterMeans
    <2> QED BY <2>1, <2>2, <2>3
  <1> QED BY <1>1, InOrderNow

\* Whatever the patterns let through and whatever fails or is dropped on the way, the rows
\* handed out are those the call asked for, each once and in order (tables.c, columns.c and
\* primarykeys.c _fetch_row_with_tsdb, typesinfo.c), for calls whose patterns are exact.
THEOREM ListedAsAsked ==
  ASSUME ExactAsks
  PROVE  CatalogSpec => []ListedInOrder
  <1>1. CatalogInit => WalkInv /\ ListInv /\ Compilable
    BY InitWalk, InitListed DEF CatalogInit, Compilable, Walks
  <1>2. (WalkInv /\ ListInv /\ Compilable) /\ [CatalogNext]_catalog_vars => (WalkInv /\ ListInv /\ Compilable)'
    BY StepWalk, StepListed, StepCompilable
  <1>3. WalkInv /\ ListInv /\ Compilable => ListedInOrder
    BY AsAskedNow
  <1> QED BY <1>1, <1>2, <1>3, PTL DEF CatalogSpec

\* SQL_NO_DATA is said of a list that is whole: a table that is dropped or a query that fails
\* before the end of a walk is told as an error (columns.c _fetch_and_desc_next_table).
THEOREM EndsAsAsked ==
  ASSUME ExactAsks
  PROVE  CatalogSpec => []EndIsComplete
  <1>1. CatalogInit => WalkInv /\ ListInv /\ Compilable
    BY InitWalk, InitListed DEF CatalogInit, Compilable, Walks
  <1>2. (WalkInv /\ ListInv /\ Compilable) /\ [CatalogNext]_catalog_vars => (WalkInv /\ ListInv /\ Compilable)'
    BY StepWalk, StepListed, StepCompilable
  <1>3. WalkInv /\ ListInv /\ Compilable => EndIsComplete
    BY AsAskedNow
  <1> QED BY <1>1, <1>2, <1>3, PTL DEF CatalogSpec
=============================================================================
