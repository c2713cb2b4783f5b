----------------------------- MODULE MCParamBatch -----------------------------
(* Three rows in batches of at most two: the sub-table's name, a value of      *)
(* fixed and a value of variable width.  A change of table, a null and a row   *)
(* in error may be at any place, in the first and in a later batch.            *)
EXTENDS ParamBatch

MCKind == <<"subtbl", "fixed", "var">>
MCOutcomes == <<{"ok", "bad"}, {"ok", "bad"}, {"ok", "null", "bad"}>>
=============================================================================
