------------------------------ MODULE MCDescribe ------------------------------
(* Every type at the edges of every width, every source, precision and flag. *)
EXTENDS Describe

Edges == {0, 1, 7, 8, 15, 16, 31, 32, 63, 64}
Texts == {<<"text", n>> : n \in {0, 1, 10}}
MCValues == [t \in Types |->
  CASE t \in DOMAIN Bits     -> {<<"int", s, n>> : s \in IF t \in SignedTypes THEN {"+", "-"} ELSE {"+"},
                                                   n \in {e \in Edges : e <= Bits[t]}}
    [] t = "FLOAT"           -> {<<"flt", n>> : n \in {1, 6, 9}}
    [] t = "DOUBLE"          -> {<<"flt", n>> : n \in {1, 6, 17}}
    [] t = "TIMESTAMP"       -> {<<"ts", s, f>> : s \in {0, 1, 7}, f \in {0, 1, 9, 42}} \cup {<<"ts", -1, 0>>, <<"ts", 0, -1>>}
    [] OTHER                 -> Texts]

Bytes(t) == IF t \in VarTypes THEN 10 ELSE _col_bind_map[t].octet
F(t, bytes) == [type |-> t, bytes |-> bytes]
Src(base, p, t) == [base |-> base, p |-> p, fields |-> <<F(t, Bytes(t))>>, as |-> <<t>>, raw |-> FALSE]
Answered(t, as) == [base |-> "catalog", p |-> 0, fields |-> <<F(t, Bytes(t))>>, as |-> <<as>>, raw |-> FALSE]
AUTO_UNIQUE_VALUE == 12   \* the column of SQLGetTypeInfo
MCSources ==
  {Src(base, 0, t) : base \in {"tsdb", "topic"}, t \in Types}
  \cup {Src(base, p, "TIMESTAMP") : base \in {"tsdb", "topic"}, p \in 1..2}
  \cup {Answered(columns_fields[k], columns_answers[k]) : k \in DOMAIN columns_fields}
  \cup {Answered(primarykeys_fields[k], primarykeys_answers[k]) : k \in DOMAIN primarykeys_fields}
  \cup {[Answered(typesinfo_fields[k], typesinfo_answers[k]) EXCEPT !.raw = k = AUTO_UNIQUE_VALUE] : k \in DOMAIN typesinfo_fields}
  \cup {[base |-> "tsdb", p |-> 1, fields |-> <<F("INT", 4), F("SMALLINT", 4)>>, as |-> <<"INT", "SMALLINT">>, raw |-> FALSE],
        [base |-> "tsdb", p |-> 1, fields |-> <<F("INT", 4), F("TIMESTAMP", 8)>>, as |-> <<"INT", "TIMESTAMP">>, raw |-> FALSE]}
=============================================================================
