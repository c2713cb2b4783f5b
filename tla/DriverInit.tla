----------------------------- MODULE DriverInit -----------------------------
(***************************************************************************)
(* The lock-free choice of the process-wide driver type.  Each connection  *)
(* attempt, and each "Test connection" of the setup dialog, calls          *)
(* conn_init_driver_type on its own thread; the static s_driver_state is   *)
(* the only thing the threads share.  One step is one atomic operation on  *)
(* that word, or the library call between two of them.                     *)
(***************************************************************************)
EXTENDS Naturals

CONSTANTS Threads,   \* threads of the application that connect
          Types,     \* {"native", "websocket"} in the code
          None,      \* no type
          MaxCalls   \* bound: calls per thread

Uninit       == "uninit"
Initializing == "initializing"

ASSUME ConstAssumption ==
  /\ None \notin Types
  /\ {Uninit, Initializing} \cap (Types \cup {None}) = {}
  /\ MaxCalls \in Nat

VARIABLES s_driver_state,  \* the shared word
          lib,             \* the type the TDengine client library has loaded
          stage,           \* per thread: where its call stands
          desired,         \* per thread: the type its call asks for
          prev,            \* per thread: the last value it read of the word
          result,          \* per thread: how its last call ended
          calls            \* per thread: calls made so far

choice_vars == <<s_driver_state, lib, stage, desired, prev, result, calls>>

States == {Uninit, Initializing} \cup Types

ChoiceInit ==
  /\ s_driver_state = Uninit
  /\ lib = None
  /\ stage = [t \in Threads |-> "idle"]
  /\ desired = [t \in Threads |-> None]
  /\ prev = [t \in Threads |-> Uninit]
  /\ result = [t \in Threads |-> "none"]
  /\ calls = [t \in Threads |-> 0]

GoTo(t, from, to) ==
  /\ stage[t] = from
  /\ stage' = [stage EXCEPT ![t] = to]

ReturnWith(t, from, r) ==
  /\ GoTo(t, from, "idle")
  /\ result' = [result EXCEPT ![t] = r]

\* A connection attempt with or without a URL enters the function.
Enter(t, w) ==
  /\ calls[t] < MaxCalls
  /\ GoTo(t, "idle", "cas")
  /\ calls' = [calls EXCEPT ![t] = @ + 1]
  /\ desired' = [desired EXCEPT ![t] = w]
  /\ result' = [result EXCEPT ![t] = "none"]
  /\ UNCHANGED <<s_driver_state, lib, prev>>

\* Mutant: the test and the set are two operations, and a second thread passes
\* the test in between.
Cas_NotAtomic(t) ==
  /\ prev' = [prev EXCEPT ![t] = s_driver_state]
  /\ IF s_driver_state \in Types
     THEN GoTo(t, "cas", "compare") /\ UNCHANGED s_driver_state
     ELSE GoTo(t, "cas", "options") /\ s_driver_state' = Initializing
  /\ UNCHANGED <<lib, desired, result, calls>>

\* Compare-and-swap UNINIT -> INITIALIZING; the winner goes on to the library,
\* who met INITIALIZING spins, who met a type compares.
Cas(t) ==
  /\ prev' = [prev EXCEPT ![t] = s_driver_state]
  /\ \/ /\ s_driver_state = Uninit
        /\ s_driver_state' = Initializing
        /\ GoTo(t, "cas", "options")
     \/ /\ s_driver_state = Initializing
        /\ GoTo(t, "cas", "spin")
        /\ UNCHANGED s_driver_state
     \/ /\ s_driver_state \in Types
        /\ GoTo(t, "cas", "compare")
        /\ UNCHANGED s_driver_state
  /\ UNCHANGED <<lib, desired, result, calls>>

\* taos_options(TSDB_OPTION_DRIVER, type) succeeds inside the library.
OptionsSucceed(t) ==
  /\ GoTo(t, "options", "publish")
  /\ lib' = desired[t]
  /\ UNCHANGED <<s_driver_state, desired, prev, result, calls>>

\* ... or reports an error and loads nothing.
OptionsFail(t) ==
  /\ GoTo(t, "options", "restore")
  /\ UNCHANGED <<s_driver_state, lib, desired, prev, result, calls>>

\* ATOMIC_SET(desired), return 0.
Publish(t) ==
  /\ s_driver_state' = desired[t]
  /\ ReturnWith(t, "publish", "ok")
  /\ UNCHANGED <<lib, desired, prev, calls>>

\* Mutant: the word is not reset after a failure.
Restore_Forgets(t) ==
  /\ ReturnWith(t, "restore", "failed")
  /\ UNCHANGED <<s_driver_state, lib, desired, prev, calls>>

\* ATOMIC_SET(UNINIT), return -1: the next caller may try again.
Restore(t) ==
  /\ s_driver_state' = Uninit
  /\ ReturnWith(t, "restore", "failed")
  /\ UNCHANGED <<lib, desired, prev, calls>>

\* Mutant: a spinner that sees UNINIT again does not try for itself.
Spin_NoRetry(t) ==
  /\ s_driver_state # Initializing
  /\ prev' = [prev EXCEPT ![t] = s_driver_state]
  /\ GoTo(t, "spin", "compare")
  /\ UNCHANGED <<s_driver_state, lib, desired, result, calls>>

\* The spin loop ends: UNINIT again recurses to the compare-and-swap.  A turn
\* of the loop that reads INITIALIZING changes nothing and is a stutter.
Spin(t) ==
  /\ s_driver_state # Initializing
  /\ prev' = [prev EXCEPT ![t] = s_driver_state]
  /\ GoTo(t, "spin", IF s_driver_state = Uninit THEN "cas" ELSE "compare")
  /\ UNCHANGED <<s_driver_state, lib, desired, result, calls>>

\* The comparison uses the value read, not the shared word.
Compare(t) ==
  /\ ReturnWith(t, "compare", IF prev[t] = desired[t] THEN "ok" ELSE "refused")
  /\ UNCHANGED <<s_driver_state, lib, desired, prev, calls>>

Running(t) ==
  \/ Cas(t)
  \/ OptionsSucceed(t)
  \/ OptionsFail(t)
  \/ Publish(t)
  \/ Restore(t)
  \/ Spin(t)
  \/ Compare(t)

ChoiceNext == \E t \in Threads : Running(t) \/ \E w \in Types : Enter(t, w)

\* A thread inside the function keeps being scheduled (sched_yield puts it at
\* the end of the run queue); nothing makes an application call it.
Fairness == \A t \in Threads : WF_choice_vars(Running(t))

ChoiceSpec == ChoiceInit /\ [][ChoiceNext]_choice_vars /\ Fairness

-----------------------------------------------------------------------------
Winner(t) == stage[t] \in {"options", "publish", "restore"}

ChoiceTypeOK ==
  /\ s_driver_state \in States
  /\ lib \in Types \cup {None}
  /\ stage \in [Threads -> {"idle", "cas", "options", "publish", "restore",
                            "spin", "compare"}]
  /\ desired \in [Threads -> Types \cup {None}]
  /\ prev \in [Threads -> States]
  /\ result \in [Threads -> {"none", "ok", "failed", "refused"}]
  /\ calls \in [Threads -> 0..MaxCalls]

\* At most one thread is between winning the compare-and-swap and writing the
\* word back, so the non-reentrant taos_options is never entered twice at once.
OneInitializer ==
  \A t, u \in Threads : Winner(t) /\ Winner(u) => t = u

\* A caller told 0 may connect: the library runs the driver it asked for.
SuccessMeansLoaded ==
  \A t \in Threads : result[t] = "ok" => lib = desired[t]

\* A caller is refused only when the library really runs another driver, never
\* for a type that was tried and failed.
RefusedMeansOther ==
  \A t \in Threads : result[t] = "refused" => lib \notin {None, desired[t]}

\* Once the library has loaded a driver, no later or concurrent connection
\* makes it load another.
LoadedForGood == [][lib # None => lib' = lib]_choice_vars

\* Every call returns, spinning callers included, whatever taos_options answers
\* the others: a failed initializer must wake them.
EveryCallReturns ==
  \A t \in Threads : stage[t] # "idle" ~> stage[t] = "idle"

Cell == INSTANCE DriverCell WITH
          chosen <- IF s_driver_state \in Types THEN s_driver_state ELSE None,
          call <- [t \in Threads |-> IF stage[t] = "idle" THEN None ELSE desired[t]],
          answer <- result

\* The spinning, retrying protocol behaves as one atomic write-once cell.
ImplementsCell == Cell!Spec
=============================================================================
