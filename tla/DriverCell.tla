----------------------------- MODULE DriverCell -----------------------------
(***************************************************************************)
(* What conn_init_driver_type promises its callers: one process-wide cell  *)
(* that is written once.  Every call is atomic somewhere between its       *)
(* invocation and its return: it fixes the driver type, agrees with the    *)
(* type already fixed, is refused because another type is fixed, or fails  *)
(* because the client library refused the type, leaving the cell empty.    *)
(* DriverInit is shown to implement this specification.                    *)
(***************************************************************************)
CONSTANTS Threads,  \* callers
          Types,    \* the driver types a connection may ask for
          None      \* no driver type, no call

VARIABLES chosen,   \* the type the process uses, or None
          call,     \* per thread: the type asked for by the call under way, or None
          answer    \* per thread: what its last call was told

vars == <<chosen, call, answer>>

Init ==
  /\ chosen = None
  /\ call = [t \in Threads |-> None]
  /\ answer = [t \in Threads |-> "none"]

Invoke(t, w) ==
  /\ call[t] = None
  /\ call' = [call EXCEPT ![t] = w]
  /\ answer' = [answer EXCEPT ![t] = "none"]
  /\ UNCHANGED chosen

Return(t, r) ==
  /\ call[t] # None
  /\ call' = [call EXCEPT ![t] = None]
  /\ answer' = [answer EXCEPT ![t] = r]

\* The cell is empty and the caller's type is installed.
Choose(t) == Return(t, "ok") /\ chosen = None /\ chosen' = call[t]

\* The caller's type is the one in the cell.
Agree(t) == Return(t, "ok") /\ chosen = call[t] /\ UNCHANGED chosen

\* The cell holds another type: -1, "driver already initialized as ...".
Refuse(t) == Return(t, "refused") /\ chosen \notin {None, call[t]} /\ UNCHANGED chosen

\* The client library refuses the type while the cell is empty: -1.
Fail(t) == Return(t, "failed") /\ chosen = None /\ UNCHANGED chosen

Next ==
  \E t \in Threads :
    \/ \E w \in Types : Invoke(t, w)
    \/ Choose(t)
    \/ Agree(t)
    \/ Refuse(t)
    \/ Fail(t)

Spec == Init /\ [][Next]_vars
=============================================================================
