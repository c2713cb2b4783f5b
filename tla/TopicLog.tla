------------------------------ MODULE TopicLog ------------------------------
(***************************************************************************)
(* What a subscription promises: an at-least-once reader of the queues of  *)
(* a topic.  The rows of each queue are read in order, message by message; *)
(* the server may be told of a message once it has been read to its end;   *)
(* and a new subscription goes on behind the last message it was told of.  *)
(* Topic is shown to implement this specification.                         *)
(***************************************************************************)
EXTENDS Naturals, Sequences

CONSTANTS Queues, \* the vgroups of the topics
          Log     \* per queue, the number of rows of each of its messages

VARIABLES committed, \* per queue, the messages the server was told of
          done,      \* per queue, the messages read to their end
          part,      \* per queue, the rows read of the next one
          read       \* every row ever read: <<queue, message, row>>

vars == <<committed, done, part, read>>

Init ==
  /\ committed = [q \in Queues |-> 0]
  /\ done = [q \in Queues |-> 0]
  /\ part = [q \in Queues |-> 0]
  /\ read = {}

ReadRow(q) ==
  /\ done[q] < Len(Log[q])
  /\ part[q] < Log[q][done[q] + 1]
  /\ part' = [part EXCEPT ![q] = @ + 1]
  /\ read' = read \cup {<<q, done[q] + 1, part[q] + 1>>}
  /\ UNCHANGED <<committed, done>>

\* The server hears of the message or not.
Finish(q) ==
  /\ done[q] < Len(Log[q])
  /\ part[q] = Log[q][done[q] + 1]
  /\ done' = [done EXCEPT ![q] = @ + 1]
  /\ part' = [part EXCEPT ![q] = 0]
  /\ \/ committed' = [committed EXCEPT ![q] = done[q] + 1]
     \/ UNCHANGED committed
  /\ UNCHANGED read

Resubscribe ==
  /\ done' = committed
  /\ part' = [q \in Queues |-> 0]
  /\ UNCHANGED <<committed, read>>

Next ==
  \/ \E q \in Queues : ReadRow(q) \/ Finish(q)
  \/ Resubscribe

Spec == Init /\ [][Next]_vars
=============================================================================
