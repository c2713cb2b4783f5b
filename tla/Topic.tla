------------------------------- MODULE Topic -------------------------------
(***************************************************************************)
(* A statement that runs "!topic ...": the rows of the messages a tmq      *)
(* consumer polls, handed out by SQLFetch, and the messages committed as   *)
(* they end (topic.c, with SQLExecDirect, SQLFetch, SQLMoreResults and     *)
(* SQLCloseCursor of stmt.c over it).                                      *)
(*                                                                         *)
(* The server keeps, for each queue (a vgroup of a topic), its messages    *)
(* and how many of them the consumer group has committed.  It delivers the *)
(* messages of a queue in order and those of several queues in any order;  *)
(* a new consumer begins behind the committed ones (auto.offset.reset      *)
(* earliest, enable.auto.commit off).                                      *)
(***************************************************************************)
EXTENDS Integers, Sequences

CONSTANTS
  Queues,       \* the vgroups of the subscribed topics
  TopicOf,      \* their topics
  Log,          \* per queue, the number of rows of each of its messages
  ColumnsOf,    \* per queue, the columns of each: those of a topic that selects from
                \* one table are the same, those of a database's are each table's
  None,         \* no message, no topic, no columns
  MaxSize,      \* bound: the largest SQL_ATTR_ROW_ARRAY_SIZE
  RecordsMax,   \* taos_odbc.limit.records; taos_odbc.limit.seconds is set as well
  Careful       \* the application closes only where nothing is left of a
                \* message: after SQLMoreResults said so, or after an error

ASSUME ConstAssumption ==
  /\ None \notin Queues
  /\ \A q \in Queues : TopicOf[q] # None
  /\ Log \in [Queues -> Seq(Nat)]
  /\ \A q \in Queues : \A k \in 1..Len(Log[q]) : ColumnsOf[q][k] # None
  /\ MaxSize \in Nat \ {0}
  /\ RecordsMax \in Nat
  /\ Careful \in BOOLEAN

VARIABLES
  row_array_size, \* set once, before the subscription
  committed,      \* server: per queue, the messages committed by the group
  polled,         \* per queue, the last message delivered to the consumer
  subscribed,     \* there is a consumer
  res,            \* the queue of the message being read, or None
  used,           \* its rows fetched so far
  res_topic_name, \* topic of the last message; survives a new subscription
  fields,         \* the columns topic->fields describes
  IRD,            \* the columns the application was told
  do_not_commit,
  records_count,
  expired,        \* more than seconds_max have passed since t0
  pc,             \* "idle", "exec" (_execute) or "fetch" (_stmt_fetch_rows)
  i_row, rowset,  \* the rows this SQLFetch has put in the application's arrays
  ret,            \* what the last call returned; "end" is SQLMoreResults's
                  \* SQL_NO_DATA
  fetched, told   \* history: the rows ever put in a rowset, and those whose
                  \* SQLFetch returned SQL_SUCCESS

consumerVars == <<row_array_size, polled, subscribed, records_count, expired>>
resVars      == <<res, used, committed, do_not_commit>>
descVars     == <<res_topic_name, fields, IRD>>
callVars     == <<pc, i_row, rowset, ret>>
history      == <<fetched, told>>
vars == <<consumerVars, resVars, descVars, callVars, history>>

Messages(q) == 1..Len(Log[q])
MessageRows(q, k) == {<<q, k, i>> : i \in 1..Log[q][k]}

\* The columns of the messages of a topic.
TopicColumns(t) ==
  UNION {{ColumnsOf[q][k] : k \in Messages(q)} : q \in {p \in Queues : TopicOf[p] = t}}

NoneDelivered == [q \in Queues |-> 0]

Init ==
  /\ row_array_size \in 1..MaxSize
  /\ committed = [q \in Queues |-> 0]
  /\ polled = NoneDelivered
  /\ subscribed = FALSE
  /\ res = None /\ used = 0
  /\ res_topic_name = None /\ fields = None /\ IRD = None
  /\ do_not_commit = FALSE
  /\ records_count = 0 /\ expired = FALSE
  /\ pc = "idle" /\ i_row = 0 /\ rowset = {} /\ ret = "none"
  /\ fetched = {} /\ told = {}

-----------------------------------------------------------------------------
(* Giving up a message and a consumer.                                     *)

\* The offset of the message, stored by the server.
Stored == [committed EXCEPT ![res] = polled[res]]

\* The message is committed and freed.  When tmq_commit_sync fails the server may
\* have stored the offset all the same.
_topic_reset_res(failed) ==
  /\ failed => res # None /\ ~do_not_commit
  /\ IF res = None \/ do_not_commit
     THEN UNCHANGED committed
     ELSE \/ committed' = Stored
          \/ failed /\ UNCHANGED committed
  /\ do_not_commit' = (do_not_commit \/ failed)
  /\ res' = None /\ used' = 0

\* A failure to commit is not reported here.  The name of the last topic is kept.
topic_reset ==
  /\ \E failed \in BOOLEAN : _topic_reset_res(failed)
  /\ fields' = None

MayClose == Careful => ~subscribed \/ ret \in {"end", "error"}

\* SQLCloseCursor, SQLFreeStmt(SQL_CLOSE): _stmt_close_result.
SQLCloseCursor ==
  /\ pc = "idle" /\ subscribed /\ MayClose
  /\ topic_reset
  /\ subscribed' = FALSE /\ polled' = NoneDelivered
  /\ ret' = "none"
  /\ UNCHANGED <<row_array_size, records_count, expired, res_topic_name, IRD, pc, i_row, rowset,
                 history>>

\* SQLExecDirect: _stmt_close_result, then topic_open.  (When it fails to
\* subscribe, the statement is left as by SQLCloseCursor.)
SQLExecDirect ==
  /\ pc = "idle" /\ MayClose
  /\ topic_reset
  /\ polled' = committed'
  /\ subscribed' = TRUE
  /\ records_count' = 0 /\ expired' = FALSE
  /\ pc' = "exec"
  /\ UNCHANGED <<row_array_size, res_topic_name, IRD, i_row, rowset, ret, history>>

-----------------------------------------------------------------------------
(* _poll.                                                                  *)

\* Mutant: the limit is never a matter of time.
LimitReached_NoSeconds == records_count >= RecordsMax

LimitReached == records_count >= RecordsMax \/ expired

Polls == pc # "idle" /\ res = None

\* The end of SQLExecDirect: SQL_NO_DATA does not count as an error, and the IRD
\* is filled with the columns of the message, if any (_get_col_fields).
ExecReturns(r) ==
  /\ pc' = "idle" /\ ret' = "success"
  /\ IRD' = r
  /\ UNCHANGED <<i_row, rowset, history>>

\* The end of SQLFetch: SQL_NO_DATA with rows in the rowset is SQL_SUCCESS.
FetchReturns(r) ==
  /\ pc' = "idle" /\ i_row' = 0 /\ rowset' = {}
  /\ ret' = IF r = "no_data" /\ i_row > 0 THEN "success" ELSE r
  /\ told' = IF ret' = "success" THEN told \cup rowset ELSE told
  /\ UNCHANGED <<fetched, IRD>>

\* SQL_NO_DATA: a limit is reached, and no message is asked for.
PollNoData ==
  /\ Polls /\ LimitReached
  /\ \/ pc = "exec" /\ ExecReturns(None)
     \/ pc = "fetch" /\ FetchReturns("no_data")
  /\ UNCHANGED <<consumerVars, resVars, res_topic_name, fields>>

\* tmq_consumer_poll delivers the next message of a queue.  (When it delivers
\* none in time, the loop goes round.)
Delivered(q) ==
  /\ Polls /\ ~LimitReached
  /\ polled[q] < Len(Log[q])
  /\ polled' = [polled EXCEPT ![q] = @ + 1]
  /\ res' = q /\ used' = 0
  /\ UNCHANGED <<row_array_size, subscribed, records_count, expired>>

\* The message just polled is described.
_topic_desc_tripple(q) ==
  /\ res_topic_name' = TopicOf[q]
  /\ fields' = ColumnsOf[q][polled'[q]]

\* Mutant: a message is committed when it arrives.
Deliver_Commits(q) ==
  /\ Delivered(q)
  /\ _topic_desc_tripple(q)
  /\ \/ pc = "exec" /\ ExecReturns(fields')
     \/ /\ pc = "fetch"
        /\ IF res_topic_name \in {None, TopicOf[q]}
           THEN UNCHANGED <<callVars, history, IRD>>
           ELSE FetchReturns("no_data")
  /\ committed' = [committed EXCEPT ![q] = polled[q] + 1]
  /\ UNCHANGED do_not_commit

\* Mutant: a change of topic is not reported.
Deliver_Silent(q) ==
  /\ Delivered(q)
  /\ _topic_desc_tripple(q)
  /\ \/ pc = "exec" /\ ExecReturns(fields')
     \/ pc = "fetch" /\ UNCHANGED <<callVars, history, IRD>>
  /\ UNCHANGED <<committed, do_not_commit>>

\* SQL_NO_DATA when the topic of the message is another one than that of the message
\* before.  Its columns are not compared.
Deliver(q) ==
  /\ Delivered(q)
  /\ _topic_desc_tripple(q)
  /\ \/ pc = "exec" /\ ExecReturns(fields')
     \/ /\ pc = "fetch"
        /\ IF res_topic_name \in {None, TopicOf[q]}
           THEN UNCHANGED <<callVars, history, IRD>>
           ELSE FetchReturns("no_data")
  /\ UNCHANGED <<committed, do_not_commit>>

\* Mutant: closing may commit the message that could not be described.
DeliverFails_Commits(q) ==
  /\ Delivered(q)
  /\ \/ pc = "exec" /\ pc' = "idle" /\ ret' = "error" /\ UNCHANGED <<i_row, rowset, history, IRD>>
     \/ pc = "fetch" /\ FetchReturns("error")
  /\ res_topic_name' \in {res_topic_name, TopicOf[q]}
  /\ UNCHANGED <<committed, do_not_commit, fields>>

\* The message cannot be described (the name of its topic or its fields are not to be
\* had, or one has a pseudo column's name).  It is kept, and nothing is committed any more.
DeliverFails(q) ==
  /\ Delivered(q)
  /\ res_topic_name' \in {res_topic_name, TopicOf[q]}
  /\ do_not_commit' = TRUE
  /\ \/ pc = "exec" /\ pc' = "idle" /\ ret' = "error" /\ UNCHANGED <<i_row, rowset, history, IRD>>
     \/ pc = "fetch" /\ FetchReturns("error")
  /\ UNCHANGED <<committed, fields>>

-----------------------------------------------------------------------------
(* SQLFetch and SQLMoreResults.                                            *)

SQLFetch ==
  /\ pc = "idle" /\ subscribed
  /\ Careful => ret = "success"
  /\ pc' = "fetch"
  /\ UNCHANGED <<consumerVars, resVars, descVars, i_row, rowset, ret, history>>

\* A row goes to the rowset, and a full rowset to the application.
Hand(row) ==
  /\ fetched' = fetched \cup {row}
  /\ \/ /\ i_row + 1 = row_array_size
        /\ pc' = "idle" /\ i_row' = 0 /\ rowset' = {}
        /\ ret' = "success" /\ told' = told \cup rowset \cup {row}
     \/ /\ i_row + 1 < row_array_size
        /\ i_row' = i_row + 1 /\ rowset' = rowset \cup {row}
        /\ UNCHANGED <<pc, ret, told>>

\* _fetch_row finds a row in the message, _stmt_fill_row puts it in the rowset.
FetchRow ==
  /\ pc = "fetch" /\ res # None /\ used < Log[res][polled[res]]
  /\ used' = used + 1
  /\ records_count' = records_count + 1
  /\ Hand(<<res, polled[res], used + 1>>)
  /\ UNCHANGED <<row_array_size, polled, subscribed, expired, res, committed,
                 do_not_commit, descVars>>

AtEnd == pc = "fetch" /\ res # None /\ used = Log[res][polled[res]]

\* _fetch_row finds none: the message is committed and the next one polled.
EndOfMessage ==
  /\ AtEnd
  /\ _topic_reset_res(FALSE)
  /\ UNCHANGED <<consumerVars, descVars, callVars, history>>

CommitFails ==
  /\ AtEnd
  /\ _topic_reset_res(TRUE)
  /\ FetchReturns("error")
  /\ UNCHANGED <<consumerVars, res_topic_name, fields>>

\* SQL_SUCCESS when a message waits, described anew; SQL_NO_DATA when none does.
SQLMoreResults ==
  /\ pc = "idle" /\ subscribed
  /\ Careful => ret = "no_data"
  /\ IF res = None
     THEN ret' = "end" /\ UNCHANGED IRD
     ELSE ret' = "success" /\ IRD' = fields
  /\ UNCHANGED <<consumerVars, resVars, res_topic_name, fields, pc, i_row, rowset, history>>

-----------------------------------------------------------------------------
(* The environment, and the specification.                                 *)

\* seconds_max have passed since t0.
TimePasses ==
  /\ subscribed /\ ~expired
  /\ expired' = TRUE
  /\ UNCHANGED <<row_array_size, polled, subscribed, records_count, resVars, descVars,
                 callVars, history>>

\* The process ends, in a call or between two, and the application is started anew.
Crash ==
  /\ subscribed
  /\ subscribed' = FALSE /\ polled' = NoneDelivered
  /\ records_count' = 0 /\ expired' = FALSE
  /\ res' = None /\ used' = 0
  /\ res_topic_name' = None /\ fields' = None /\ IRD' = None
  /\ do_not_commit' = FALSE
  /\ pc' = "idle" /\ i_row' = 0 /\ rowset' = {} /\ ret' = "none"
  /\ UNCHANGED <<row_array_size, committed, history>>

Driver ==
  \/ PollNoData
  \/ FetchRow
  \/ EndOfMessage
  \/ CommitFails

Next ==
  \/ SQLExecDirect \/ SQLFetch \/ SQLMoreResults \/ SQLCloseCursor
  \/ \E q \in Queues : Deliver(q) \/ DeliverFails(q)
  \/ Driver
  \/ TimePasses
  \/ Crash

\* A call goes on and time passes; the server owes no message.
Spec == Init /\ [][Next]_vars /\ WF_vars(Driver) /\ WF_vars(TimePasses)

-----------------------------------------------------------------------------
(* Properties.                                                             *)

TypeOK ==
  /\ committed \in [Queues -> Nat] /\ polled \in [Queues -> Nat]
  /\ \A q \in Queues : committed[q] <= Len(Log[q]) /\ polled[q] <= Len(Log[q])
  /\ subscribed \in BOOLEAN
  /\ res \in Queues \cup {None}
  /\ IF res = None THEN used = 0
     ELSE polled[res] \in Messages(res) /\ used \in 0..Log[res][polled[res]]
  /\ res_topic_name \in {TopicOf[q] : q \in Queues} \cup {None}
  /\ {fields, IRD} \subseteq (UNION {TopicColumns(TopicOf[q]) : q \in Queues}) \cup {None}
  /\ do_not_commit \in BOOLEAN
  /\ records_count \in Nat
  /\ expired \in BOOLEAN
  /\ pc \in {"idle", "exec", "fetch"}
  /\ row_array_size \in 1..MaxSize
  /\ i_row \in 0..(row_array_size - 1)
  /\ ret \in {"none", "success", "no_data", "error", "end"}

\* Every row of a message that is committed was once put in a rowset: a message
\* is not committed as long as rows of it are left, and after a crash or a failed
\* commit they come again.
CommittedIsFetched ==
  \A q \in Queues : \A k \in 1..committed[q] : MessageRows(q, k) \subseteq fetched

\* Every row of a message that is committed was once handed out by a SQLFetch that
\* returned SQL_SUCCESS: what the comment before the commit takes for granted, "user
\* has traversed all rows within current res" (topic.c:319).
Traversed ==
  \A q \in Queues : \A k \in 1..committed[q] : MessageRows(q, k) \subseteq told

\* With rowsets of one row they have, inside a call as well: a message is committed
\* by the SQLFetch after the one that handed out its last row. (With longer ones the
\* commit may precede the return of the SQLFetch that takes its last row.)
TraversedOneByOne == row_array_size = 1 => Traversed

\* With rowsets of one row, a row is handed out under columns of its own topic, those
\* the application was told last: a change of topic is reported before its first row,
\* also when it comes with a new subscription.  Where all messages of the topic have
\* the same columns they are the row's own; a database's may have others, for the
\* driver compares the names of the topics only (topic.c:179).
DescribedOneByOne ==
  [][row_array_size = 1 /\ used' > used => IRD \in TopicColumns(TopicOf[res])]_vars

\* taos_odbc.limit.records is passed by less than a message: none is asked for
\* once it is reached.
LimitIsKept == res # None => records_count - used < RecordsMax

\* Every call returns when taos_odbc.limit.seconds is set, whatever the server
\* delivers.
EveryCallReturns == pc # "idle" ~> pc = "idle"

\* Topic changes, limits, rowsets and failures apart, a subscription is an
\* at-least-once reader: no row is skipped, and none repeated but after a message
\* that was not committed.
Reader == INSTANCE TopicLog WITH
  done <- [q \in Queues |-> IF ~subscribed THEN committed[q]
                            ELSE IF res = q THEN polled[q] - 1 ELSE polled[q]],
  part <- [q \in Queues |-> IF subscribed /\ res = q THEN used ELSE 0],
  read <- fetched

ImplementsTopicLog == Reader!Spec
=============================================================================
