---------------------------- MODULE TopicProofs ----------------------------
(***************************************************************************)
(* Proofs about Topic, for any queues and messages, limits and rowsets.    *)
(*                                                                         *)
(* That a committed message was fetched is a fact about the past; what     *)
(* makes it so is where the consumer stands.  IInv adds that every message *)
(* delivered to this consumer has been fetched, but for what is left of    *)
(* the one being read, and that nothing is left, or nothing will be        *)
(* committed, where a careful application may close.                       *)
(***************************************************************************)
EXTENDS Topic, TLAPS

\* The messages up to the consumer's place.
PlaceInv ==
  /\ ~subscribed => res = None /\ pc = "idle"
  /\ subscribed =>
       \A q \in Queues :
         /\ committed[q] <= polled[q]
         /\ \A k \in 1..polled[q] : (q = res /\ k = polled[q]) \/ MessageRows(q, k) \subseteq fetched
  /\ res # None => \A i \in 1..used : <<res, polled[res], i>> \in fetched

\* Where the application may close.
CloseInv ==
  Careful /\ pc = "idle" /\ ret \in {"end", "error"} => res = None \/ do_not_commit

\* Rowsets of one row.
OneRowInv == row_array_size = 1 => rowset = {} /\ i_row = 0 /\ told = fetched

IInv == TypeOK /\ PlaceInv /\ CloseInv /\ CommittedIsFetched

\* The log is one of messages with finitely many rows.
LEMMA LogFacts ==
  /\ \A q \in Queues : Len(Log[q]) \in Nat
  /\ \A q \in Queues : \A k \in Messages(q) : Log[q][k] \in Nat
  BY ConstAssumption DEF Messages

\* The columns of a message are columns of its topic.
LEMMA MessageColumns ==
  ASSUME NEW q \in Queues, NEW k \in Messages(q)
  PROVE  /\ ColumnsOf[q][k] \in TopicColumns(TopicOf[q]) /\ ColumnsOf[q][k] # None
         /\ ColumnsOf[q][k] \in UNION {TopicColumns(TopicOf[p]) : p \in Queues}
  <1>1. ColumnsOf[q][k] \in TopicColumns(TopicOf[q])
    BY DEF TopicColumns
  <1>2. ColumnsOf[q][k] # None
    BY ConstAssumption DEF Messages
  <1> QED BY <1>1, <1>2

-----------------------------------------------------------------------------
(* Types.                                                                  *)

LEMMA InitTypeOK == Init => TypeOK
  <1> SUFFICES ASSUME Init PROVE TypeOK
    OBVIOUS
  <1>1. subscribed \in BOOLEAN /\ do_not_commit \in BOOLEAN /\ expired \in BOOLEAN
    BY DEF Init
  <1> QED BY <1>1, LogFacts, ConstAssumption DEF Init, TypeOK, NoneDelivered

\* The Boolean variables (on their own: a leaf for Zenon).
Booleans == subscribed \in BOOLEAN /\ do_not_commit \in BOOLEAN /\ expired \in BOOLEAN

LEMMA StepBooleans == Booleans /\ [Next]_vars => Booleans'
  <1> SUFFICES ASSUME Booleans, [Next]_vars PROVE Booleans'
    OBVIOUS
  <1>1. subscribed' \in BOOLEAN
    <2>1. subscribed' = subscribed \/ subscribed' = TRUE \/ subscribed' = FALSE
      BY DEF Next, Driver, SQLExecDirect, SQLFetch, SQLMoreResults, SQLCloseCursor, Deliver,
             DeliverFails, Delivered, PollNoData, FetchRow, EndOfMessage, CommitFails, TimePasses,
             Crash, vars, consumerVars
    <2> QED BY <2>1 DEF Booleans
  <1>2. expired' \in BOOLEAN
    <2>1. expired' = expired \/ expired' = TRUE \/ expired' = FALSE
      BY DEF Next, Driver, SQLExecDirect, SQLFetch, SQLMoreResults, SQLCloseCursor, Deliver,
             DeliverFails, Delivered, PollNoData, FetchRow, EndOfMessage, CommitFails, TimePasses,
             Crash, vars, consumerVars
    <2> QED BY <2>1 DEF Booleans
  <1>3. do_not_commit' \in BOOLEAN
    <2>1. \/ do_not_commit' = do_not_commit \/ do_not_commit' = TRUE \/ do_not_commit' = FALSE
          \/ \E failed \in BOOLEAN : do_not_commit' = (do_not_commit \/ failed)
      BY DEF Next, Driver, SQLExecDirect, SQLFetch, SQLMoreResults, SQLCloseCursor, Deliver,
             DeliverFails, Delivered, PollNoData, FetchRow, EndOfMessage, CommitFails, TimePasses,
             Crash, vars, resVars, topic_reset, _topic_reset_res
    <2> QED BY <2>1 DEF Booleans
  <1> QED BY <1>1, <1>2, <1>3 DEF Booleans

\* What giving up a message does to the types.
LEMMA ResetTypes ==
  ASSUME TypeOK, NEW failed \in BOOLEAN, _topic_reset_res(failed)
  PROVE  /\ committed' \in [Queues -> Nat]
         /\ \A q \in Queues : committed'[q] <= Len(Log[q])
         /\ res' = None /\ used' = 0
  <1>1. CASE UNCHANGED committed
    BY <1>1 DEF TypeOK, _topic_reset_res
  <1>2. CASE res # None /\ committed' = Stored
    <2>1. res \in Queues /\ polled[res] \in Nat /\ polled[res] <= Len(Log[res])
      BY <1>2 DEF TypeOK
    <2> QED BY <1>2, <2>1 DEF TypeOK, _topic_reset_res, Stored
  <1> QED BY <1>1, <1>2 DEF _topic_reset_res

\* What the end of a SQLFetch does to them.
LEMMA ReturnTypes ==
  ASSUME TypeOK, NEW r \in {"no_data", "error"}, FetchReturns(r)
  PROVE  /\ pc' = "idle" /\ i_row' = 0 /\ IRD' = IRD
         /\ ret' \in {"success", "no_data", "error"}
  BY DEF FetchReturns

\* One step per action.
LEMMA StepTypeOK == TypeOK /\ [Next]_vars => TypeOK'
  <1> SUFFICES ASSUME TypeOK, [Next]_vars PROVE TypeOK'
    OBVIOUS
  <1>0. Booleans'
    BY StepBooleans DEF TypeOK, Booleans
  <1>a. ASSUME NEW q \in Queues, Delivered(q)
        PROVE  /\ polled' \in [Queues -> Nat]
               /\ \A p \in Queues : polled'[p] <= Len(Log[p])
               /\ res' \in Queues /\ polled'[res'] \in Messages(res') /\ used' = 0
               /\ res' # None /\ used' \in 0..Log[res'][polled'[res']]
               /\ res' = q
               /\ UNCHANGED <<row_array_size, records_count>>
    <2>1. polled[q] + 1 \in Messages(q) /\ Log[q][polled[q] + 1] \in Nat /\ q # None
      BY <1>a, LogFacts, ConstAssumption DEF Delivered, TypeOK, Messages
    <2>2. polled' = [polled EXCEPT ![q] = polled[q] + 1] /\ res' = q /\ used' = 0
      BY <1>a DEF Delivered
    <2>3. polled'[q] = polled[q] + 1 /\ polled' \in [Queues -> Nat]
      BY <2>1, <2>2 DEF TypeOK, Messages
    <2>4. \A p \in Queues : polled'[p] <= Len(Log[p])
      BY <2>1, <2>2, LogFacts DEF TypeOK, Messages
    <2> QED BY <1>a, <2>1, <2>2, <2>3, <2>4 DEF Delivered
  <1>1. CASE SQLExecDirect
    <2>1. PICK failed \in BOOLEAN : _topic_reset_res(failed)
      BY <1>1 DEF SQLExecDirect, topic_reset
    <2> QED BY <1>0, <1>1, <2>1, ResetTypes DEF SQLExecDirect, topic_reset, history, TypeOK, Booleans
  <1>2. CASE SQLFetch
    BY <1>0, <1>2 DEF SQLFetch, TypeOK, Booleans, consumerVars, resVars, descVars, history
  <1>3. CASE SQLMoreResults
    BY <1>0, <1>3 DEF SQLMoreResults, TypeOK, Booleans, consumerVars, resVars, history
  <1>4. CASE SQLCloseCursor
    <2>1. PICK failed \in BOOLEAN : _topic_reset_res(failed)
      BY <1>4 DEF SQLCloseCursor, topic_reset
    <2> QED BY <1>0, <1>4, <2>1, ResetTypes, LogFacts
            DEF SQLCloseCursor, topic_reset, history, TypeOK, Booleans, NoneDelivered
  <1>5. ASSUME NEW q \in Queues, Deliver(q) PROVE TypeOK'
    <2>1. Delivered(q)
      BY <1>5 DEF Deliver
    <2>2. /\ IRD' \in {IRD, fields'}
          /\ pc' \in {"idle", "fetch"} /\ i_row' \in {i_row, 0}
          /\ ret' \in {ret, "success", "no_data"}
      BY <1>5, <2>1 DEF Deliver, Delivered, Polls, ExecReturns, FetchReturns, callVars, history
    <2>3. UNCHANGED committed
      BY <1>5 DEF Deliver
    <2>4. /\ res_topic_name' \in {TopicOf[p] : p \in Queues} \cup {None}
          /\ {fields', IRD'} \subseteq (UNION {TopicColumns(TopicOf[p]) : p \in Queues}) \cup {None}
      <3>1. res_topic_name' = TopicOf[q] /\ fields' = ColumnsOf[q][polled'[q]]
        BY <1>5 DEF Deliver, _topic_desc_tripple
      <3>2. fields' \in UNION {TopicColumns(TopicOf[p]) : p \in Queues}
        BY <1>a, <2>1, <3>1, MessageColumns
      <3> QED BY <2>2, <3>1, <3>2 DEF TypeOK
    <2>5. /\ polled' \in [Queues -> Nat] /\ committed' \in [Queues -> Nat]
          /\ \A p \in Queues : committed'[p] <= Len(Log[p]) /\ polled'[p] <= Len(Log[p])
      BY <1>a, <2>1, <2>3 DEF TypeOK
    <2>6. /\ res' \in Queues \cup {None}
          /\ IF res' = None THEN used' = 0
             ELSE polled'[res'] \in Messages(res') /\ used' \in 0..Log[res'][polled'[res']]
      BY <1>a, <2>1
    <2>7. /\ row_array_size' \in 1..MaxSize /\ records_count' \in Nat
          /\ i_row' \in 0..(row_array_size' - 1)
          /\ pc' \in {"idle", "exec", "fetch"}
          /\ ret' \in {"none", "success", "no_data", "error", "end"}
      <3>1. row_array_size' = row_array_size /\ records_count' = records_count
        BY <1>a, <2>1
      <3>2. row_array_size \in Nat \ {0}
        BY ConstAssumption DEF TypeOK
      <3> QED BY <2>2, <3>1, <3>2 DEF TypeOK
    <2> QED BY <1>0, <2>4, <2>5, <2>6, <2>7 DEF TypeOK, Booleans
  <1>6. ASSUME NEW q \in Queues, DeliverFails(q) PROVE TypeOK'
    <2>1. Delivered(q)
      BY <1>6 DEF DeliverFails
    <2>2. /\ UNCHANGED <<committed, fields, IRD>>
          /\ pc' = "idle" /\ i_row' \in {i_row, 0} /\ ret' = "error"
      BY <1>6 DEF DeliverFails, FetchReturns, history
    <2>3. /\ res_topic_name' \in {TopicOf[p] : p \in Queues} \cup {None}
          /\ {fields', IRD'} \subseteq (UNION {TopicColumns(TopicOf[p]) : p \in Queues}) \cup {None}
      BY <1>6, <2>2 DEF DeliverFails, TypeOK
    <2>4. /\ polled' \in [Queues -> Nat] /\ committed' \in [Queues -> Nat]
          /\ \A p \in Queues : committed'[p] <= Len(Log[p]) /\ polled'[p] <= Len(Log[p])
      BY <1>a, <2>1, <2>2 DEF TypeOK
    <2>5. /\ res' \in Queues \cup {None}
          /\ IF res' = None THEN used' = 0
             ELSE polled'[res'] \in Messages(res') /\ used' \in 0..Log[res'][polled'[res']]
      BY <1>a, <2>1
    <2>6. /\ row_array_size' \in 1..MaxSize /\ records_count' \in Nat
          /\ i_row' \in 0..(row_array_size' - 1)
          /\ pc' \in {"idle", "exec", "fetch"}
          /\ ret' \in {"none", "success", "no_data", "error", "end"}
      <3>1. row_array_size' = row_array_size /\ records_count' = records_count
        BY <1>a, <2>1
      <3>2. row_array_size \in Nat \ {0}
        BY ConstAssumption DEF TypeOK
      <3> QED BY <2>2, <3>1, <3>2 DEF TypeOK
    <2> QED BY <1>0, <2>3, <2>4, <2>5, <2>6 DEF TypeOK, Booleans
  <1>7. CASE PollNoData
    <2>1. /\ IRD' \in {IRD, None} /\ pc' = "idle" /\ i_row' \in {i_row, 0}
          /\ ret' \in {"success", "no_data"}
      BY <1>7 DEF PollNoData, ExecReturns, FetchReturns
    <2> QED BY <1>0, <1>7, <2>1 DEF PollNoData, TypeOK, Booleans, consumerVars, resVars
  <1>8. CASE FetchRow
    <2>1. /\ res \in Queues /\ used + 1 \in 0..Log[res][polled[res]]
          /\ polled[res] \in Messages(res) /\ records_count + 1 \in Nat
      BY <1>8, LogFacts DEF FetchRow, TypeOK, Messages
    <2>2. /\ pc' \in {"idle", "fetch"} /\ ret' \in {ret, "success"}
          /\ i_row' \in 0..(row_array_size - 1)
      BY <1>8 DEF FetchRow, Hand, TypeOK
    <2>3. UNCHANGED <<row_array_size, polled, res, committed, descVars>> /\ used' = used + 1
          /\ records_count' = records_count + 1
      BY <1>8 DEF FetchRow
    <2> QED BY <1>0, <2>1, <2>2, <2>3, ConstAssumption DEF TypeOK, Booleans, descVars
  <1>9. CASE EndOfMessage
    BY <1>0, <1>9, ResetTypes DEF EndOfMessage, TypeOK, Booleans, consumerVars, descVars, callVars
  <1>10. CASE CommitFails
    <2>1. _topic_reset_res(TRUE) /\ FetchReturns("error")
      BY <1>10 DEF CommitFails
    <2>2. /\ committed' \in [Queues -> Nat] /\ res' = None /\ used' = 0
          /\ \A q \in Queues : committed'[q] <= Len(Log[q])
      BY <2>1, ResetTypes
    <2> QED BY <1>0, <1>10, <2>1, <2>2, ReturnTypes DEF CommitFails, TypeOK, Booleans, consumerVars
  <1>11. CASE TimePasses
    BY <1>0, <1>11 DEF TimePasses, TypeOK, Booleans, resVars, descVars, callVars
  <1>12. CASE Crash
    BY <1>0, <1>12, LogFacts DEF Crash, TypeOK, Booleans, NoneDelivered
  <1>13. CASE UNCHANGED vars
    BY <1>0, <1>13 DEF vars, consumerVars, resVars, descVars, callVars, TypeOK, Booleans
  <1> QED
    BY <1>1, <1>2, <1>3, <1>4, <1>5, <1>6, <1>7, <1>8, <1>9, <1>10, <1>11, <1>12, <1>13
       DEF Next, Driver

-----------------------------------------------------------------------------
(* What is committed was fetched.                                          *)

\* Giving up a message commits it if it was read to its end, or commits nothing.
LEMMA ResetCommits ==
  ASSUME IInv, NEW failed \in BOOLEAN, _topic_reset_res(failed),
         res = None \/ do_not_commit \/ used = Log[res][polled[res]]
  PROVE  /\ \A q \in Queues : \A k \in 1..committed'[q] : MessageRows(q, k) \subseteq fetched
         /\ subscribed => \A q \in Queues : committed'[q] <= polled[q]
  <1>1. CASE UNCHANGED committed
    BY <1>1 DEF IInv, PlaceInv, CommittedIsFetched
  <1>2. CASE res # None /\ ~do_not_commit /\ committed' = Stored
    <2>1. /\ subscribed /\ res \in Queues /\ polled[res] \in Nat
          /\ committed \in [Queues -> Nat] /\ polled \in [Queues -> Nat]
      BY <1>2 DEF IInv, TypeOK, PlaceInv
    <2>2. MessageRows(res, polled[res]) \subseteq fetched
      BY <1>2 DEF IInv, PlaceInv, MessageRows
    <2>3. \A k \in 1..polled[res] : MessageRows(res, k) \subseteq fetched
      BY <2>1, <2>2 DEF IInv, PlaceInv
    <2>4. \A q \in Queues : committed'[q] = IF q = res THEN polled[res] ELSE committed[q]
      BY <1>2, <2>1 DEF Stored
    <2> QED BY <2>1, <2>3, <2>4 DEF IInv, PlaceInv, CommittedIsFetched
  <1> QED BY <1>1, <1>2 DEF _topic_reset_res

\* Where a careful application closes, nothing of a message is lost.
LEMMA CloseCommits ==
  ASSUME IInv, Careful, pc = "idle", MayClose, NEW failed \in BOOLEAN, _topic_reset_res(failed)
  PROVE  \A q \in Queues : \A k \in 1..committed'[q] : MessageRows(q, k) \subseteq fetched
  <1>1. res = None \/ do_not_commit
    BY DEF IInv, PlaceInv, CloseInv, MayClose
  <1> QED BY <1>1, ResetCommits

LEMMA InitIInv == Init => IInv
  BY InitTypeOK DEF Init, IInv, PlaceInv, CloseInv, CommittedIsFetched, NoneDelivered

\* The steps that neither deliver nor fetch nor give up a message.
LEMMA SamePlace ==
  ASSUME IInv, UNCHANGED <<polled, subscribed, res, used, committed, fetched>>,
         ~subscribed => pc' = "idle"
  PROVE  PlaceInv' /\ CommittedIsFetched'
  BY DEF IInv, PlaceInv, CommittedIsFetched, MessageRows

\* A delivered message has no row fetched; the one before it is over.
LEMMA DeliveredPlace ==
  ASSUME IInv, NEW q \in Queues, Delivered(q), UNCHANGED <<committed, fetched>>
  PROVE  PlaceInv' /\ CommittedIsFetched'
  <1>1. /\ res = None /\ subscribed /\ subscribed' /\ res' = q /\ used' = 0
        /\ polled \in [Queues -> Nat] /\ committed \in [Queues -> Nat]
        /\ polled' = [polled EXCEPT ![q] = polled[q] + 1]
    BY DEF IInv, TypeOK, PlaceInv, Delivered, Polls
  <1>2. \A p \in Queues : \A k \in 1..polled[p] : MessageRows(p, k) \subseteq fetched
    BY <1>1, ConstAssumption DEF IInv, PlaceInv
  <1>3. \A p \in Queues : polled'[p] = IF p = q THEN polled[q] + 1 ELSE polled[p]
    BY <1>1
  <1>4. ASSUME NEW p \in Queues, NEW k \in 1..polled'[p], ~(p = res' /\ k = polled'[p])
        PROVE  MessageRows(p, k) \subseteq fetched'
    <2>1. k \in 1..polled[p]
      BY <1>1, <1>3, <1>4
    <2> QED BY <1>2, <2>1
  <1>5. \A p \in Queues : committed'[p] <= polled'[p]
    BY <1>1, <1>3 DEF IInv, PlaceInv
  <1> QED BY <1>1, <1>4, <1>5 DEF IInv, PlaceInv, CommittedIsFetched

\* One step per action.
LEMMA StepPlace == Careful /\ IInv /\ [Next]_vars => PlaceInv' /\ CommittedIsFetched'
  <1> SUFFICES ASSUME Careful, IInv, [Next]_vars PROVE PlaceInv' /\ CommittedIsFetched'
    OBVIOUS
  <1>1. CASE SQLExecDirect
    <2>1. PICK failed \in BOOLEAN : _topic_reset_res(failed)
      BY <1>1 DEF SQLExecDirect, topic_reset
    <2>2. /\ res' = None /\ used' = 0 /\ subscribed' /\ polled' = committed' /\ UNCHANGED fetched
          /\ \A q \in Queues : \A k \in 1..committed'[q] : MessageRows(q, k) \subseteq fetched
      BY <1>1, <2>1, CloseCommits DEF SQLExecDirect, _topic_reset_res, history
    <2>3. committed' \in [Queues -> Nat]
      BY <2>1, ResetTypes DEF IInv
    <2> QED BY <2>2, <2>3 DEF PlaceInv, CommittedIsFetched
  <1>2. CASE SQLFetch
    BY <1>2, SamePlace DEF SQLFetch, consumerVars, resVars, history
  <1>3. CASE SQLMoreResults
    BY <1>3, SamePlace DEF SQLMoreResults, consumerVars, resVars, history, IInv, PlaceInv
  <1>4. CASE SQLCloseCursor
    <2>1. PICK failed \in BOOLEAN : _topic_reset_res(failed)
      BY <1>4 DEF SQLCloseCursor, topic_reset
    <2>2. /\ res' = None /\ used' = 0 /\ ~subscribed' /\ pc' = "idle" /\ UNCHANGED fetched
          /\ \A q \in Queues : \A k \in 1..committed'[q] : MessageRows(q, k) \subseteq fetched
      BY <1>4, <2>1, CloseCommits DEF SQLCloseCursor, _topic_reset_res, history
    <2> QED BY <2>2 DEF PlaceInv, CommittedIsFetched
  <1>5. ASSUME NEW q \in Queues, Deliver(q) PROVE PlaceInv' /\ CommittedIsFetched'
    BY <1>5, DeliveredPlace DEF Deliver, ExecReturns, FetchReturns, history
  <1>6. ASSUME NEW q \in Queues, DeliverFails(q) PROVE PlaceInv' /\ CommittedIsFetched'
    BY <1>6, DeliveredPlace DEF DeliverFails, FetchReturns, history
  <1>7. CASE PollNoData
    BY <1>7, SamePlace
       DEF PollNoData, ExecReturns, FetchReturns, consumerVars, resVars, history
  <1>8. CASE FetchRow
    <2> DEFINE row == <<res, polled[res], used + 1>>
    <2>1. /\ subscribed /\ res # None /\ used \in Nat
          /\ used' = used + 1 /\ fetched' = fetched \cup {row}
          /\ UNCHANGED <<polled, subscribed, res, committed>>
      BY <1>8, LogFacts DEF IInv, TypeOK, PlaceInv, FetchRow, Hand, Messages
    <2>2. \A i \in 1..used' : <<res, polled[res], i>> \in fetched'
      <3> SUFFICES ASSUME NEW i \in 1..used' PROVE <<res, polled[res], i>> \in fetched'
        OBVIOUS
      <3>1. i \in 1..used \/ i = used + 1
        BY <2>1
      <3> QED BY <2>1, <3>1 DEF IInv, PlaceInv
    <2> QED BY <2>1, <2>2 DEF IInv, PlaceInv, CommittedIsFetched
  <1>9. CASE EndOfMessage \/ CommitFails
    <2>1. PICK failed \in BOOLEAN : _topic_reset_res(failed)
      BY <1>9 DEF EndOfMessage, CommitFails
    <2>2. /\ AtEnd /\ UNCHANGED <<polled, subscribed, fetched>> /\ subscribed
          /\ res' = None /\ used' = 0
      BY <1>9, <2>1 DEF EndOfMessage, CommitFails, _topic_reset_res, consumerVars, history,
                        FetchReturns, AtEnd, IInv, PlaceInv
    <2>3. /\ \A q \in Queues : \A k \in 1..committed'[q] : MessageRows(q, k) \subseteq fetched
          /\ \A q \in Queues : committed'[q] <= polled[q]
      BY <2>1, <2>2, ResetCommits DEF AtEnd
    <2>4. MessageRows(res, polled[res]) \subseteq fetched
      BY <2>2 DEF AtEnd, IInv, PlaceInv, MessageRows
    <2>5. \A q \in Queues : \A k \in 1..polled[q] : MessageRows(q, k) \subseteq fetched
      BY <2>2, <2>4 DEF IInv, PlaceInv
    <2> QED BY <2>2, <2>3, <2>5 DEF PlaceInv, CommittedIsFetched
  <1>11. CASE TimePasses
    BY <1>11, SamePlace DEF TimePasses, resVars, callVars, history, IInv, PlaceInv
  <1>12. CASE Crash
    BY <1>12 DEF Crash, history, IInv, PlaceInv, CommittedIsFetched, MessageRows
  <1>13. CASE UNCHANGED vars
    BY <1>13, SamePlace DEF vars, consumerVars, resVars, callVars, history, IInv, PlaceInv
  <1> QED
    BY <1>1, <1>2, <1>3, <1>4, <1>5, <1>6, <1>7, <1>8, <1>9, <1>11, <1>12, <1>13
       DEF Next, Driver

\* Only an error that forbids commits leaves a message behind.
LEMMA StepClose == IInv /\ [Next]_vars => CloseInv'
  <1> SUFFICES ASSUME IInv, [Next]_vars, Careful, pc' = "idle", ret' \in {"end", "error"}
               PROVE  res' = None \/ do_not_commit'
    BY DEF CloseInv
  <1>1. CASE SQLExecDirect \/ SQLFetch
    BY <1>1 DEF SQLExecDirect, SQLFetch
  <1>3. CASE SQLMoreResults
    BY <1>3 DEF SQLMoreResults, resVars
  <1>4. CASE SQLCloseCursor \/ Crash
    BY <1>4 DEF SQLCloseCursor, Crash
  <1>5. ASSUME NEW q \in Queues, Deliver(q) PROVE FALSE
    <2>1. pc \in {"exec", "fetch"}
      BY <1>5 DEF Deliver
    <2> QED BY <1>5, <2>1 DEF Deliver, ExecReturns, FetchReturns, callVars
  <1>6. ASSUME NEW q \in Queues, DeliverFails(q) PROVE do_not_commit'
    BY <1>6 DEF DeliverFails
  <1>7. CASE PollNoData
    BY <1>7 DEF PollNoData, ExecReturns, FetchReturns
  <1>8. CASE FetchRow
    BY <1>8 DEF FetchRow, Hand
  <1>9. CASE EndOfMessage \/ CommitFails
    BY <1>9 DEF EndOfMessage, CommitFails, _topic_reset_res
  <1>11. CASE TimePasses
    BY <1>11 DEF TimePasses, resVars, callVars, IInv, CloseInv
  <1>13. CASE UNCHANGED vars
    BY <1>13 DEF vars, resVars, callVars, IInv, CloseInv
  <1> QED
    BY <1>1, <1>3, <1>4, <1>5, <1>6, <1>7, <1>8, <1>9, <1>11, <1>13 DEF Next, Driver

-----------------------------------------------------------------------------
(* The theorems.                                                           *)

\* Rowsets of one row hold no row between two steps.
LEMMA StepOneRow == TypeOK /\ OneRowInv /\ [Next]_vars => OneRowInv'
  <1> SUFFICES ASSUME TypeOK, OneRowInv, [Next]_vars, row_array_size' = 1
               PROVE  rowset' = {} /\ i_row' = 0 /\ told' = fetched'
    BY DEF OneRowInv
  <1>0. row_array_size = 1 /\ rowset = {} /\ i_row = 0 /\ told = fetched
    BY DEF Next, Driver, SQLExecDirect, SQLFetch, SQLMoreResults, SQLCloseCursor, Deliver,
           DeliverFails, Delivered, PollNoData, FetchRow, EndOfMessage, CommitFails, TimePasses,
           Crash, vars, consumerVars, OneRowInv
  <1>1. CASE FetchRow
    BY <1>0, <1>1 DEF FetchRow, Hand
  <1>2. CASE Next /\ ~FetchRow
    BY <1>0, <1>2
       DEF Next, Driver, SQLExecDirect, SQLFetch, SQLMoreResults, SQLCloseCursor, Deliver,
           DeliverFails, PollNoData, EndOfMessage, CommitFails, TimePasses, Crash, ExecReturns,
           FetchReturns, callVars, history
  <1>3. CASE UNCHANGED vars
    BY <1>0, <1>3 DEF vars, callVars, history
  <1> QED BY <1>1, <1>2, <1>3

\* The invariant, for a careful application.
LEMMA Invariance == Careful => (Spec => [](IInv /\ OneRowInv))
  <1> SUFFICES ASSUME Careful PROVE Spec => [](IInv /\ OneRowInv)
    OBVIOUS
  <1>1. Init => IInv /\ OneRowInv
    BY InitIInv DEF Init, OneRowInv
  <1>2. IInv /\ OneRowInv /\ [Next]_vars => (IInv /\ OneRowInv)'
    BY StepTypeOK, StepPlace, StepClose, StepOneRow DEF IInv
  <1> QED BY <1>1, <1>2, PTL DEF Spec

\* Types, for any queues, messages and limits: in particular a message is fetched
\* from as long as it has rows and no longer.
THEOREM TypeCorrect == Spec => []TypeOK
  BY InitTypeOK, StepTypeOK, PTL DEF Spec

\* No message is committed before its rows have been fetched, whatever fails and
\* whenever the application or the process ends.
THEOREM FetchedBeforeCommitted == Careful => (Spec => []CommittedIsFetched)
  BY Invariance, PTL DEF IInv

\* With rowsets of one row, none is committed before they have been handed out.
THEOREM TraversedBeforeCommitted == Careful => (Spec => []TraversedOneByOne)
  <1>1. IInv /\ OneRowInv => TraversedOneByOne
    BY DEF IInv, OneRowInv, CommittedIsFetched, TraversedOneByOne, Traversed
  <1> QED BY <1>1, Invariance, PTL

\* taos_odbc.limit.records is passed by less than a message, for any limit and any
\* message.
THEOREM LimitKept == Spec => []LimitIsKept
  <1>1. Init => LimitIsKept
    BY DEF Init, LimitIsKept
  <1>2. TypeOK /\ LimitIsKept /\ [Next]_vars => LimitIsKept'
    <2> SUFFICES ASSUME TypeOK, LimitIsKept, [Next]_vars, res' # None
                 PROVE  records_count' - used' < RecordsMax
      BY DEF LimitIsKept
    <2>1. ASSUME NEW q \in Queues, Delivered(q) PROVE records_count' - used' < RecordsMax
      BY <2>1, ConstAssumption DEF Delivered, LimitReached, TypeOK
    <2>2. CASE FetchRow
      <3>1. /\ res # None /\ res \in Queues /\ used \in Nat /\ records_count \in Nat
            /\ used' = used + 1 /\ records_count' = records_count + 1
        BY <2>2, LogFacts DEF FetchRow, TypeOK
      <3>2. records_count' - used' = records_count - used
        BY <3>1
      <3> QED BY <3>1, <3>2 DEF LimitIsKept
    <2>3. CASE UNCHANGED <<res, used, records_count>>
      BY <2>3 DEF LimitIsKept
    <2> QED
      BY <2>1, <2>2, <2>3
         DEF Next, Driver, SQLExecDirect, SQLFetch, SQLMoreResults, SQLCloseCursor, Deliver,
             DeliverFails, PollNoData, EndOfMessage, CommitFails, TimePasses, Crash, topic_reset,
             _topic_reset_res, vars, consumerVars, resVars
  <1> QED BY <1>1, <1>2, TypeCorrect, PTL DEF Spec

-----------------------------------------------------------------------------
(* Rows come under columns of their topic.                                 *)

\* While a careful application with rowsets of one row may fetch, it was told columns
\* of the topic of the last message, or there is none and there will be none; and when
\* it was told SQL_NO_DATA, the columns it is going to be told are of that topic.
DescInv ==
  Careful /\ row_array_size = 1 /\ subscribed =>
    /\ pc = "fetch" => ret = "success"
    /\ pc # "exec" /\ ret = "success" =>
         /\ res # None => IRD \in TopicColumns(TopicOf[res]) /\ res_topic_name = TopicOf[res]
         /\ res = None => \/ res_topic_name # None /\ IRD \in TopicColumns(res_topic_name)
                          \/ LimitReached
    /\ ret = "no_data" /\ res # None =>
         fields \in TopicColumns(TopicOf[res]) /\ res_topic_name = TopicOf[res]

\* One step per action.
LEMMA StepDesc == TypeOK /\ PlaceInv /\ OneRowInv /\ DescInv /\ [Next]_vars => DescInv'
  <1> SUFFICES ASSUME TypeOK, PlaceInv, OneRowInv, DescInv, [Next]_vars,
                      Careful, row_array_size' = 1, subscribed'
               PROVE  /\ pc' = "fetch" => ret' = "success"
                      /\ pc' # "exec" /\ ret' = "success" =>
                           /\ res' # None => /\ IRD' \in TopicColumns(TopicOf[res'])
                                            /\ res_topic_name' = TopicOf[res']
                           /\ res' = None => \/ /\ res_topic_name' # None
                                               /\ IRD' \in TopicColumns(res_topic_name')
                                            \/ LimitReached'
                      /\ ret' = "no_data" /\ res' # None =>
                           fields' \in TopicColumns(TopicOf[res']) /\ res_topic_name' = TopicOf[res']
    BY DEF DescInv
  <1>0. row_array_size = 1
    BY DEF Next, Driver, SQLExecDirect, SQLFetch, SQLMoreResults, SQLCloseCursor, Deliver,
           DeliverFails, Delivered, PollNoData, FetchRow, EndOfMessage, CommitFails, TimePasses,
           Crash, vars, consumerVars
  <1>a. rowset = {} /\ i_row = 0
    BY <1>0 DEF OneRowInv
  <1>b. \A q \in Queues : TopicOf[q] # None /\ q # None
    BY ConstAssumption
  <1>1. CASE SQLExecDirect \/ SQLCloseCursor \/ Crash
    BY <1>1 DEF SQLExecDirect, SQLCloseCursor, Crash, topic_reset, _topic_reset_res
  <1>2. CASE SQLFetch
    BY <1>0, <1>2 DEF SQLFetch, DescInv, consumerVars, resVars, descVars, LimitReached
  <1>3. CASE SQLMoreResults
    BY <1>0, <1>3 DEF SQLMoreResults, DescInv, consumerVars, resVars, LimitReached
  <1>5. CASE \E q \in Queues : Deliver(q)
    <2> PICK q \in Queues : Deliver(q)
      BY <1>5
    <2>1. /\ Polls /\ ~LimitReached /\ res' = q /\ res_topic_name' = TopicOf[q]
          /\ fields' \in TopicColumns(TopicOf[q]) /\ subscribed
      <3>1. polled[q] + 1 \in Messages(q) /\ polled'[q] = polled[q] + 1
        BY LogFacts DEF Deliver, Delivered, TypeOK, Messages
      <3> QED BY <3>1, MessageColumns DEF Deliver, Delivered, _topic_desc_tripple
    <2>2. CASE pc = "exec"
      BY <1>b, <2>1, <2>2 DEF Deliver, ExecReturns
    <2>3. CASE pc = "fetch"
      <3>1. res_topic_name # None /\ IRD \in TopicColumns(res_topic_name)
        BY <1>0, <2>1, <2>3 DEF DescInv, Polls
      <3>2. CASE res_topic_name \in {None, TopicOf[q]}
        BY <1>0, <1>b, <2>1, <2>3, <3>1, <3>2 DEF Deliver, callVars, DescInv
      <3>3. CASE res_topic_name \notin {None, TopicOf[q]}
        BY <1>a, <1>b, <2>1, <2>3, <3>3 DEF Deliver, FetchReturns
      <3> QED BY <3>2, <3>3
    <2> QED BY <2>1, <2>2, <2>3 DEF Polls, TypeOK
  <1>6. CASE \E q \in Queues : DeliverFails(q)
    BY <1>6 DEF DeliverFails, FetchReturns
  <1>7. CASE PollNoData
    BY <1>a, <1>7
       DEF PollNoData, ExecReturns, FetchReturns, Polls, consumerVars, resVars, LimitReached
  <1>8. CASE FetchRow
    BY <1>0, <1>a, <1>8 DEF FetchRow, Hand, DescInv, descVars
  <1>9. CASE EndOfMessage
    <2>1. /\ pc = "fetch" /\ res # None /\ res' = None /\ res \in Queues /\ subscribed
          /\ UNCHANGED <<descVars, pc, ret>>
      BY <1>9 DEF EndOfMessage, AtEnd, _topic_reset_res, callVars, TypeOK, PlaceInv
    <2>2. /\ ret = "success" /\ IRD \in TopicColumns(TopicOf[res])
          /\ res_topic_name = TopicOf[res]
      BY <1>0, <2>1 DEF DescInv
    <2> QED BY <1>b, <2>1, <2>2 DEF descVars
  <1>10. CASE CommitFails
    BY <1>10 DEF CommitFails, FetchReturns
  <1>11. CASE TimePasses
    BY <1>0, <1>11 DEF TimePasses, DescInv, resVars, descVars, callVars, LimitReached
  <1>12. CASE UNCHANGED vars
    BY <1>0, <1>12
       DEF vars, DescInv, consumerVars, resVars, descVars, callVars, LimitReached
  <1> QED
    BY <1>1, <1>2, <1>3, <1>5, <1>6, <1>7, <1>8, <1>9, <1>10, <1>11, <1>12 DEF Next, Driver

\* With rowsets of one row, no row is handed out under columns of another topic, for
\* any topics, messages and columns: under its own, then, where all messages of its
\* topic have the same.
THEOREM RowsDescribed == Careful => (Spec => DescribedOneByOne)
  <1> SUFFICES ASSUME Careful PROVE Spec => DescribedOneByOne
    OBVIOUS
  <1>1. Init => DescInv
    BY DEF Init, DescInv
  <1>2. /\ IInv /\ OneRowInv /\ DescInv /\ [Next]_vars => DescInv'
        /\ IInv /\ DescInv /\ [Next]_vars =>
             [row_array_size = 1 /\ used' > used => IRD \in TopicColumns(TopicOf[res])]_vars
    <2>1. ASSUME IInv, DescInv, [Next]_vars, row_array_size = 1, used' > used
          PROVE  IRD \in TopicColumns(TopicOf[res])
      <3>1. CASE FetchRow
        BY <2>1, <3>1 DEF FetchRow, DescInv, IInv, PlaceInv
      <3>2. CASE used' = used \/ used' = 0
        <4>1. used \in Nat
          BY <2>1, LogFacts DEF IInv, TypeOK
        <4> QED BY <2>1, <3>2, <4>1
      <3> QED
        BY <2>1, <3>1, <3>2
           DEF Next, Driver, SQLExecDirect, SQLFetch, SQLMoreResults, SQLCloseCursor, Deliver,
               DeliverFails, Delivered, PollNoData, EndOfMessage, CommitFails, TimePasses, Crash,
               topic_reset, _topic_reset_res, vars, resVars
    <2> QED BY <2>1, StepDesc DEF IInv
  <1> QED BY <1>1, <1>2, Invariance, PTL DEF Spec, DescribedOneByOne

-----------------------------------------------------------------------------
(* Refinement.                                                             *)

\* The abstract reader's place.
Done == [q \in Queues |-> IF ~subscribed THEN committed[q]
                          ELSE IF res = q THEN polled[q] - 1 ELSE polled[q]]
Part == [q \in Queues |-> IF subscribed /\ res = q THEN used ELSE 0]

\* Closing and crashing bring the reader back behind the committed messages.
LEMMA Resubscribes ==
  ASSUME res' = None, UNCHANGED <<committed, fetched>>,
         ~subscribed' \/ polled' = committed'
  PROVE  Done' = [q \in Queues |-> committed[q]] /\ Part' = [q \in Queues |-> 0]
  BY ConstAssumption DEF Done, Part

\* Every step is one of the reader, or none.
LEMMA StepReads ==
  Careful /\ IInv /\ [Next]_vars =>
    \/ \E q \in Queues : Reader!ReadRow(q) \/ Reader!Finish(q)
    \/ Reader!Resubscribe
    \/ UNCHANGED <<committed, Done, Part, fetched>>
  <1> SUFFICES ASSUME Careful, IInv, [Next]_vars
               PROVE  \/ \E q \in Queues : Reader!ReadRow(q) \/ Reader!Finish(q)
                      \/ Reader!Resubscribe
                      \/ UNCHANGED <<committed, Done, Part, fetched>>
    OBVIOUS
  <1>1. CASE SQLExecDirect \/ SQLCloseCursor \/ Crash
    <2>1. /\ res' = None /\ UNCHANGED <<committed, fetched>>
          /\ ~subscribed' \/ polled' = committed'
      BY <1>1 DEF SQLExecDirect, SQLCloseCursor, Crash, topic_reset, _topic_reset_res, history,
                  MayClose, IInv, PlaceInv, CloseInv
    <2>2. committed = [q \in Queues |-> committed[q]]
      BY DEF IInv, TypeOK
    <2> QED BY <2>1, <2>2, Resubscribes DEF Reader!Resubscribe, Done, Part
  <1>2. ASSUME NEW q \in Queues, Deliver(q) \/ DeliverFails(q)
        PROVE  UNCHANGED <<committed, Done, Part, fetched>>
    <2>1. /\ Delivered(q) /\ UNCHANGED <<committed, fetched>>
      BY <1>2 DEF Deliver, DeliverFails, ExecReturns, FetchReturns, history
    <2>2. /\ res = None /\ subscribed /\ subscribed' /\ res' = q /\ used' = 0
          /\ polled \in [Queues -> Nat] /\ polled' = [polled EXCEPT ![q] = polled[q] + 1]
      BY <2>1 DEF Delivered, Polls, IInv, TypeOK, PlaceInv
    <2>3. \A p \in Queues : p # None /\ polled[p] \in Nat
                            /\ polled'[p] = IF p = q THEN polled[q] + 1 ELSE polled[p]
      BY <2>2, ConstAssumption
    <2>4. Done' = Done
      BY <2>2, <2>3 DEF Done
    <2>5. Part' = Part
      BY <2>2, <2>3 DEF Part
    <2> QED BY <2>1, <2>4, <2>5
  <1>3. CASE FetchRow
    <2>1. /\ subscribed /\ res \in Queues /\ used \in Nat /\ used < Log[res][polled[res]]
          /\ polled[res] \in 1..Len(Log[res])
          /\ used' = used + 1 /\ fetched' = fetched \cup {<<res, polled[res], used + 1>>}
          /\ UNCHANGED <<polled, subscribed, res, committed>>
      BY <1>3, LogFacts DEF FetchRow, Hand, IInv, TypeOK, PlaceInv, Messages
    <2>2. Done[res] = polled[res] - 1 /\ Part[res] = used /\ UNCHANGED Done
      BY <2>1 DEF Done, Part
    <2>3. /\ Done[res] + 1 = polled[res]
          /\ Done[res] < Len(Log[res])
      BY <2>1, <2>2, LogFacts
    <2>4. Part' = [Part EXCEPT ![res] = Part[res] + 1]
      BY <2>1 DEF Part
    <2>5. PICK q \in Queues : q = res
      BY <2>1
    <2>6. Reader!ReadRow(q)
      BY <2>1, <2>2, <2>3, <2>4, <2>5 DEF Reader!ReadRow, Done, Part
    <2> QED BY <2>6
  <1>4. CASE EndOfMessage \/ CommitFails
    <2>1. /\ subscribed /\ res \in Queues /\ used = Log[res][polled[res]]
          /\ polled[res] \in 1..Len(Log[res]) /\ polled \in [Queues -> Nat]
          /\ res' = None /\ UNCHANGED <<polled, subscribed, fetched>>
          /\ committed' = Stored \/ UNCHANGED committed
      BY <1>4 DEF EndOfMessage, CommitFails, AtEnd, _topic_reset_res, FetchReturns, consumerVars,
                  history, IInv, TypeOK, PlaceInv, Messages
    <2>2. Done[res] = polled[res] - 1 /\ Part[res] = used
      BY <2>1 DEF Done, Part
    <2>3. /\ Done[res] + 1 = polled[res]
          /\ Done[res] < Len(Log[res])
      BY <2>1, <2>2, LogFacts
    <2>4. Done' = [Done EXCEPT ![res] = Done[res] + 1]
      <3>1. \A p \in Queues : p # None
        BY ConstAssumption
      <3>2. \A p \in Queues : Done'[p] = IF p = res THEN Done[res] + 1 ELSE Done[p]
        BY <2>1, <2>3, <3>1 DEF Done
      <3> QED BY <2>1, <3>2 DEF Done
    <2>5. Part' = [Part EXCEPT ![res] = 0]
      BY <2>1, ConstAssumption DEF Part
    <2>6. PICK q \in Queues : q = res
      BY <2>1
    <2>7. Reader!Finish(q)
      BY <2>1, <2>2, <2>3, <2>4, <2>5, <2>6 DEF Reader!Finish, Done, Part, Stored
    <2> QED BY <2>7
  <1>5. CASE UNCHANGED <<committed, polled, subscribed, res, used, fetched>>
    BY <1>5 DEF Done, Part
  <1> QED
    BY <1>1, <1>2, <1>3, <1>4, <1>5
       DEF Next, Driver, SQLFetch, SQLMoreResults, PollNoData, ExecReturns, FetchReturns,
           TimePasses, vars, consumerVars, resVars, history

\* The statement implements the at-least-once reader.
THEOREM Refinement == Careful => (Spec => ImplementsTopicLog)
  <1> SUFFICES ASSUME Careful PROVE Spec => ImplementsTopicLog
    OBVIOUS
  <1>1. Init => Reader!Init
    BY ConstAssumption DEF Init, Reader!Init, NoneDelivered
  <1>2. IInv /\ [Next]_vars => [Reader!Next]_(Reader!vars)
    BY StepReads DEF Reader!Next, Reader!vars, Done, Part
  <1> QED BY <1>1, <1>2, Invariance, PTL DEF Spec, ImplementsTopicLog, Reader!Spec
=============================================================================
