----------------------------- MODULE RowCursor -----------------------------
(***************************************************************************)
(* What SQLFetch promises an application: a forward-only cursor over the   *)
(* rows of one result.  A call hands out the next rows of the result, as   *)
(* many as the rowset holds; fewer only at the end of the result or with   *)
(* an error, and the end itself is SQL_NO_DATA.  How the server cuts the   *)
(* result into blocks does not show: TODO.md asks for rowsets of 3, 3, 3   *)
(* and not 3, 2, 1.  Fetch is shown to implement this specification.       *)
(***************************************************************************)
EXTENDS Naturals

CONSTANTS Rows,     \* rows of a result
          MaxSize   \* largest rowset

VARIABLES size,   \* rows a rowset holds
          taken,  \* rows handed out so far
          rowset, \* how many of them by the last call: the rows
                  \* taken - rowset + 1 .. taken
          ret     \* how the last call ended

vars == <<size, taken, rowset, ret>>

Init ==
  /\ size = 1
  /\ taken = 0
  /\ rowset = 0
  /\ ret = "none"

SetSize(n) == size' = n /\ UNCHANGED <<taken, rowset, ret>>

\* The result is closed and another one opened.
Reopen == taken' = 0 /\ rowset' = 0 /\ ret' = "none" /\ UNCHANGED size

Take(k) ==
  /\ taken + k <= Rows
  /\ taken' = taken + k
  /\ rowset' = k
  /\ UNCHANGED size

FetchFull == Take(size) /\ ret' = "success"

FetchRest ==
  \E k \in 0..(size - 1) :
    /\ Take(k)
    /\ taken + k = Rows
    /\ ret' = IF k = 0 THEN "no_data" ELSE "success"

FetchError == \E k \in 0..(size - 1) : Take(k) /\ ret' = "error"

Next ==
  \/ \E n \in 1..MaxSize : SetSize(n)
  \/ Reopen
  \/ FetchFull
  \/ FetchRest
  \/ FetchError

Spec == Init /\ [][Next]_vars
=============================================================================
