------------------------------ MODULE MCStmtExec ------------------------------
(* Plain and parameterised statements, batches, a topic, texts in error. *)
EXTENDS StmtExec

Q(id, qms, cols, ext) == [id |-> id, qms |-> qms, cols |-> cols, ext |-> ext]
MCNoSql == Q("none", 0, "none", FALSE)
select  == Q("select", 0, "A", FALSE)
insert  == Q("insert", 0, "none", FALSE)
other   == Q("other", 0, "B", FALSE)
marked  == Q("marked", 1, "none", FALSE)
filter  == Q("filter", 1, "A", FALSE)
topic   == Q("topic", 0, "T", TRUE)
MCTexts == {[ok |-> ok, stmts |-> seq] :
              ok \in {TRUE}, seq \in {<<select>>, <<marked>>, <<filter>>, <<topic>>, <<>>,
                                      <<insert, select, other>>, <<select, topic, insert>>,
                                      <<insert, marked>>}}
           \cup {[ok |-> FALSE, stmts |-> <<other>>]}
=============================================================================
