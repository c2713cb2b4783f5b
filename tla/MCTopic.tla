------------------------------ MODULE MCTopic ------------------------------
(* Two topics, one of them with two vgroups; messages of one and two rows, *)
(* so that a message may end inside a rowset and a topic may change.       *)
(* Topic B is a database's: its messages have different columns.           *)
EXTENDS Topic, TLC

CONSTANTS a, b, c, A, B

MCTopicOf == (a :> A) @@ (b :> A) @@ (c :> B)
MCLog == (a :> <<2, 1>>) @@ (b :> <<1>>) @@ (c :> <<2, 1>>)
MCColumnsOf == (a :> <<"x", "x">>) @@ (b :> <<"x">>) @@ (c :> <<"y", "z">>)
=============================================================================
