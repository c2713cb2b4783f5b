------------------------------ MODULE MCFetch ------------------------------
(* Four rows in blocks of at most three, rowsets of at most four: rowsets end *)
(* inside blocks and blocks inside rowsets, and a rowset may span three       *)
(* blocks.  One row converts with a warning, one fails.                       *)
EXTENDS Fetch

MCOutcome == <<"success", "with_info", "error", "success">>
=============================================================================
