------------------------------- MODULE MCParams -------------------------------
(***************************************************************************)
(* Values at every boundary of the scaled widths: one byte is -2..1, two   *)
(* are -8..7, four -128..127.                                              *)
(***************************************************************************)
EXTENDS Params

Ints(s)    == {<<"i", n>> : n \in s} \cup {Null}
Txt(k, n, len) == <<"t", [k |-> k, n |-> n, len |-> len]>>
MCTexts    == {Txt("num", 1, 1), Txt("num", -3, 2), Txt("num", 200, 3), Txt("num", 40000, 5),
               Txt("date", 3, 3), Txt("alien", 0, 1), Txt("empty", 0, 0), Null}
MCWide     == {Txt("num", 1, 1), Txt("num", 200, 3), Txt("alien", 0, 1), Null}
MCValues ==
  [v \in CTypes |->
     CASE v = "CHAR"     -> MCTexts
       [] v = "WCHAR"    -> MCWide
       [] v = "SBIGINT"  -> Ints({-129, 0, 1, 2, 8})
       [] v \in {"SLONG", "LONG"} -> Ints({-128, 0, 1})
       [] v = "SHORT"    -> Ints({-8, 0, 1, 4})
       [] v = "STINYINT" -> Ints({-2, 0, 1})
       [] v = "DOUBLE"   -> {<<"d", -3>>, <<"d", 0>>, <<"d", 1>>, <<"d", 255>>, <<"d", 300>>, <<"d", 65535>>, Null}
       [] v = "FLOAT"    -> {<<"f", -3>>, <<"f", 1>>, Null}
       [] v = "BINARY"   -> {<<"b", [k |-> "bin", n |-> 0, len |-> l]>> : l \in {0, 2, 7}} \cup {Null}]
MCShared ==
  [v \in CTypes |->
     CASE v \in Texts    -> {Txt("num", 1, 1)}
       [] v \in Integral -> {<<"i", 1>>}
       [] v = "DOUBLE"   -> {<<"d", 1>>}
       [] v = "FLOAT"    -> {<<"f", 1>>}
       [] v = "BINARY"   -> {<<"b", [k |-> "bin", n |-> 0, len |-> 2]>>}]
MCSharedPairs == {<<"SLONG", "INTEGER">>, <<"SBIGINT", "INTEGER">>, <<"CHAR", "VARCHAR">>}
MCSizes == {<<3, 3>>, <<0, 0>>}
=============================================================================
