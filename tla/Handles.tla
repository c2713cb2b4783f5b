------------------------------ MODULE Handles ------------------------------
(***************************************************************************)
(* The lifecycle of the driver's four kinds of handles (environments,      *)
(* connections, statements, explicit descriptors) under concurrent API     *)
(* calls: env.c, conn.c, desc.c, the first part of stmt.c, and the         *)
(* ref / call / unref shape of every entry point of odbc.c.                *)
(*                                                                         *)
(* The driver has no lock.  What keeps a handle alive is its atomic refc,  *)
(* and what refuses to free it too early are the counters conns, descs and *)
(* nr_stmts.  A step of this module is one access to such shared state; a  *)
(* call is a sequence of steps of its thread, and a release (refc reached  *)
(* 0) is a sequence of steps of the thread whose unref reached it.         *)
(*                                                                         *)
(* Every place that holds a counted reference is a slot of the function    *)
(* ref: the application's handle (the refc = 1 of creation), the handle    *)
(* argument of a call in progress, an object's pointer to its parent, a    *)
(* statement's associated_ARD and associated_APD.                          *)
(***************************************************************************)
EXTENDS Integers, FiniteSets

CONSTANTS Envs, Conns, Stmts, Descs,  \* memory for so many objects of a kind
          Threads,                    \* application threads
          NULL

Objs == Envs \cup Conns \cup Stmts \cup Descs

App(o) == <<"app", o>>   \* the application's handle
Api(t) == <<"api", t>>   \* the handle argument of the call of thread t
Up(o)  == <<"up", o>>    \* conn->env, stmt->conn, desc->conn
Ard(s) == <<"ard", s>>   \* stmt->associated_ARD
Apd(s) == <<"apd", s>>   \* stmt->associated_APD

Slots == {App(o) : o \in Objs} \cup {Api(t) : t \in Threads}
           \cup {Up(o) : o \in Objs \ Envs}
           \cup {Ard(s) : s \in Stmts} \cup {Apd(s) : s \in Stmts}

ASSUME ConstAssumption ==
  /\ NULL \notin Threads /\ \A o \in Objs : NULL # o
  /\ Envs \cap (Conns \cup Stmts \cup Descs) = {}
  /\ Conns \cap (Stmts \cup Descs) = {}
  /\ Stmts \cap Descs = {}
  /\ IsFiniteSet(Objs) /\ IsFiniteSet(Threads)

VARIABLES
  life,          \* "none", "new" (not yet counted by the parent), "live",
                 \* "dying" (refc reached 0), "leaving" (no longer counted)
  refc,          \* the atomic reference counts
  ref,           \* what each slot points to
  releaser,      \* the thread that releases a dying object
  conns, descs,  \* env->conns, conn->descs
  stmts,         \* conn->stmts, a linked list: its members
  nr_stmts,      \* conn->nr_stmts
  asARD, asAPD,  \* desc->associated_stmts_as_ARD / _as_APD: their members
  connected,     \* conn->ds_conn.taos # NULL
  outstandings,  \* conn->outstandings
  fn, pc,        \* per thread: the API function and where it stands
  home,          \* per thread: the connection of the call's handle
  arg            \* per thread: the object created, or the descriptor passed

objVars  == <<life, refc, ref, releaser>>
listVars == <<stmts, nr_stmts, asARD, asAPD>>
connVars == <<connected, outstandings>>
callVars == <<fn, home, arg>>
vars == <<objVars, conns, descs, listVars, connVars, callVars, pc>>

Init ==
  /\ life = [o \in Objs |-> "none"]
  /\ refc = [o \in Objs |-> 0]
  /\ ref = [k \in Slots |-> NULL]
  /\ releaser = [o \in Objs |-> NULL]
  /\ conns = [e \in Envs |-> 0]
  /\ descs = [c \in Conns |-> 0]
  /\ stmts = [c \in Conns |-> {}]
  /\ nr_stmts = [c \in Conns |-> 0]
  /\ asARD = [d \in Descs |-> {}]
  /\ asAPD = [d \in Descs |-> {}]
  /\ connected = [c \in Conns |-> FALSE]
  /\ outstandings = [c \in Conns |-> 0]
  /\ fn = [t \in Threads |-> "none"]
  /\ pc = [t \in Threads |-> "idle"]
  /\ home = [t \in Threads |-> NULL]
  /\ arg = [t \in Threads |-> NULL]

-----------------------------------------------------------------------------
(* References.                                                             *)

\* X_ref, or the refc = 1 of a constructor: slot k now points to o.
Acquire(k, o) ==
  /\ ref' = [ref EXCEPT ![k] = o]
  /\ refc' = [refc EXCEPT ![o] = @ + 1]

\* X_unref of what slot k points to; the unref that reaches 0 releases it.
\* lf and rl are life and releaser after the rest of the step.
DropFrom(t, k, lf, rl) ==
  LET o == ref[k]
  IN /\ ref' = [ref EXCEPT ![k] = NULL]
     /\ refc' = [refc EXCEPT ![o] = @ - 1]
     /\ life' = IF refc[o] = 1 THEN [lf EXCEPT ![o] = "dying"] ELSE lf
     /\ releaser' = IF refc[o] = 1 THEN [rl EXCEPT ![o] = t] ELSE rl

Drop(t, k) == DropFrom(t, k, life, releaser)

Parent(o) == ref[Up(o)]
Handle(t) == ref[Api(t)]

\* Mutant: the descriptor's list keeps the statement.
stmt_dissociate_APD_Listed(t, s) ==
  /\ Drop(t, Apd(s))
  /\ UNCHANGED <<asARD, asAPD>>

\* The statement's explicit descriptor leaves its list and loses a reference.
stmt_dissociate_ARD(t, s) ==
  /\ asARD' = [asARD EXCEPT ![ref[Ard(s)]] = @ \ {s}]
  /\ Drop(t, Ard(s))
  /\ UNCHANGED asAPD

stmt_dissociate_APD(t, s) ==
  /\ asAPD' = [asAPD EXCEPT ![ref[Apd(s)]] = @ \ {s}]
  /\ Drop(t, Apd(s))
  /\ UNCHANGED asARD

-----------------------------------------------------------------------------
(* What the application and the driver manager above this driver may do.   *)

Releasing(t) == \E o \in Objs : releaser[o] = t

\* Calls that write a plain linked list or nr_stmts of their connection.
ListCalls == {"alloc_stmt", "free_stmt", "set_ard", "set_apd", "free_desc",
              "disconnect"}

\* Calls after which the handle, and for SQLDisconnect the connection's
\* statements, must not be used any more.
EndingCalls == {"free_env", "free_conn", "free_stmt", "free_desc", "disconnect"}

ConnOf(o) == IF o \in Stmts \cup Descs THEN Parent(o) ELSE IF o \in Conns THEN o ELSE NULL

Uses(t, o) == fn[t] # "none" /\ o \in {Handle(t), arg[t]}

\* A handle that was returned to the application and that no thread is ending.
Usable(o) ==
  /\ ref[App(o)] = o
  /\ \A u \in Threads : arg[u] = o => fn[u] \in {"set_ard", "set_apd"}
  /\ \A u \in Threads : fn[u] \in EndingCalls =>
       /\ Handle(u) # o
       /\ ~(o \in Stmts /\ fn[u] = "disconnect" /\ home[u] = Parent(o))

Ended(f, o) == {o} \cup (IF f = "disconnect" THEN stmts[o] ELSE {})

\* Thread t enters function f with handle o.  Ending a handle is
\* for its only user, and the calls that write a connection's plain lists are
\* taken one at a time; the driver relies on its callers for both.
Enter(t, f, o) ==
  /\ fn[t] = "none"
  /\ Usable(o)
  /\ f \in EndingCalls =>
       \A p \in Ended(f, o), u \in Threads : ~Uses(u, p)
  /\ f \in ListCalls =>
       \A u \in Threads : ~(fn[u] \in ListCalls /\ home[u] = ConnOf(o))
  /\ fn' = [fn EXCEPT ![t] = f]
  /\ home' = [home EXCEPT ![t] = ConnOf(o)]
  /\ pc' = [pc EXCEPT ![t] = f]
  /\ Acquire(Api(t), o)
  /\ UNCHANGED <<life, releaser, conns, descs, listVars, connVars>>

EnterPlain(t, f, o) == Enter(t, f, o) /\ UNCHANGED arg

\* The driver manager's connection states: C2/C3 without, C4 with a connection.
Connecting(c)   == \E u \in Threads : fn[u] = "connect" /\ home[u] = c
DMConnected(c)    == connected[c] /\ ~Connecting(c)
DMDisconnected(c) == ~connected[c] /\ ~Connecting(c)

SQLAllocHandle(t) ==
  \/ \E e \in Envs : EnterPlain(t, "alloc_conn", e)
  \/ \E c \in Conns : DMConnected(c) /\ EnterPlain(t, "alloc_stmt", c)
  \/ \E c \in Conns : DMConnected(c) /\ EnterPlain(t, "alloc_desc", c)

SQLFreeHandle(t) ==
  \/ \E e \in Envs : EnterPlain(t, "free_env", e)
  \/ \E c \in Conns : EnterPlain(t, "free_conn", c)
  \/ \E s \in Stmts : EnterPlain(t, "free_stmt", s)
  \/ \E d \in Descs : EnterPlain(t, "free_desc", d)

SQLDriverConnect(t) ==
  \E c \in Conns : DMDisconnected(c) /\ EnterPlain(t, "connect", c)

SQLDisconnect(t) ==
  \E c \in Conns : DMConnected(c) /\ EnterPlain(t, "disconnect", c)

SQLExecDirect(t) == \E s \in Stmts : EnterPlain(t, "exec_direct", s)

\* SQL_ATTR_APP_ROW_DESC / SQL_ATTR_APP_PARAM_DESC with a descriptor of any
\* connection, or SQL_NULL_DESC.
SQLSetStmtAttr(t) ==
  \E s \in Stmts, d \in Descs \cup {NULL}, f \in {"set_ard", "set_apd"} :
    /\ d # NULL => Usable(d)
    /\ Enter(t, f, s)
    /\ arg' = [arg EXCEPT ![t] = d]

-----------------------------------------------------------------------------
(* The functions behind the entry points, one shared access a step.  A     *)
(* thread that releases an object finishes that first.                     *)

At(t, p) == pc[t] = p /\ ~Releasing(t)

GoTo(t, p) == pc' = [pc EXCEPT ![t] = p]

\* env_create: the new environment is private until it is returned.
env_create(e) ==
  /\ life[e] = "none"
  /\ life' = [life EXCEPT ![e] = "live"]
  /\ Acquire(App(e), e)
  /\ UNCHANGED <<releaser, conns, descs, listVars, connVars, callVars, pc>>

\* calloc fails in conn_create, stmt_create or desc_create.
OutOfMemory(t) ==
  /\ \E p \in {"alloc_conn", "alloc_stmt", "alloc_desc"} : At(t, p)
  /\ GoTo(t, "leave")
  /\ UNCHANGED <<objVars, conns, descs, listVars, connVars, callVars>>

\* _conn_init: env_ref, then conns + 1 and refc = 1.
conn_create(t) ==
  /\ At(t, "alloc_conn")
  /\ \E c \in Conns :
       /\ life[c] = "none"
       /\ life' = [life EXCEPT ![c] = "new"]
       /\ Acquire(Up(c), Handle(t))
       /\ arg' = [arg EXCEPT ![t] = c]
  /\ GoTo(t, "conn_count")
  /\ UNCHANGED <<releaser, conns, descs, listVars, connVars, fn, home>>

conn_count(t) ==
  /\ At(t, "conn_count")
  /\ conns' = [conns EXCEPT ![Handle(t)] = @ + 1]
  /\ life' = [life EXCEPT ![arg[t]] = "live"]
  /\ Acquire(App(arg[t]), arg[t])
  /\ GoTo(t, "leave")
  /\ UNCHANGED <<releaser, descs, listVars, connVars, callVars>>

\* _desc_init: conn_ref, then descs + 1 and refc = 1.
desc_create(t) ==
  /\ At(t, "alloc_desc")
  /\ \E d \in Descs :
       /\ life[d] = "none"
       /\ life' = [life EXCEPT ![d] = "new"]
       /\ Acquire(Up(d), Handle(t))
       /\ arg' = [arg EXCEPT ![t] = d]
  /\ GoTo(t, "desc_count")
  /\ UNCHANGED <<releaser, conns, descs, listVars, connVars, fn, home>>

desc_count(t) ==
  /\ At(t, "desc_count")
  /\ descs' = [descs EXCEPT ![Handle(t)] = @ + 1]
  /\ life' = [life EXCEPT ![arg[t]] = "live"]
  /\ Acquire(App(arg[t]), arg[t])
  /\ GoTo(t, "leave")
  /\ UNCHANGED <<releaser, conns, listVars, connVars, callVars>>

\* stmt_create: into the list and counted first, then conn_ref, refc = 1 last.
stmt_create(t) ==
  /\ At(t, "alloc_stmt")
  /\ \E s \in Stmts :
       /\ life[s] = "none"
       /\ life' = [life EXCEPT ![s] = "new"]
       /\ stmts' = [stmts EXCEPT ![Handle(t)] = @ \cup {s}]
       /\ arg' = [arg EXCEPT ![t] = s]
  /\ nr_stmts' = [nr_stmts EXCEPT ![Handle(t)] = @ + 1]
  /\ GoTo(t, "stmt_ref_conn")
  /\ UNCHANGED <<refc, ref, releaser, conns, descs, asARD, asAPD, connVars,
                 fn, home>>

\* Mutant: the statement points to the connection without conn_ref.
stmt_ref_conn_Borrowed(t) ==
  /\ At(t, "stmt_ref_conn")
  /\ ref' = [ref EXCEPT ![Up(arg[t])] = Handle(t)]
  /\ GoTo(t, "stmt_ready")
  /\ UNCHANGED <<life, refc, releaser, conns, descs, listVars, connVars, callVars>>

stmt_ref_conn(t) ==
  /\ At(t, "stmt_ref_conn")
  /\ Acquire(Up(arg[t]), Handle(t))
  /\ GoTo(t, "stmt_ready")
  /\ UNCHANGED <<life, releaser, conns, descs, listVars, connVars, callVars>>

stmt_ready(t) ==
  /\ At(t, "stmt_ready")
  /\ life' = [life EXCEPT ![arg[t]] = "live"]
  /\ Acquire(App(arg[t]), arg[t])
  /\ GoTo(t, "leave")
  /\ UNCHANGED <<releaser, conns, descs, listVars, connVars, callVars>>

\* The connection attempt fails before there is a TAOS handle, or gets one.
TaosConnect(t) ==
  /\ At(t, "connect")
  /\ \/ GoTo(t, "leave") /\ UNCHANGED connected
     \/ GoTo(t, "post_connect") /\ connected' = [connected EXCEPT ![Handle(t)] = TRUE]
  /\ UNCHANGED <<objVars, conns, descs, listVars, outstandings, callVars>>

\* What follows succeeds, or fails and goes through conn_disconnect.
PostConnect(t) ==
  /\ At(t, "post_connect")
  /\ \E p \in {"leave", "disconnect"} : GoTo(t, p)
  /\ UNCHANGED <<objVars, conns, descs, listVars, connVars, callVars>>

\* conn_disconnect: the walk over conn->stmts drops the creation reference of
\* each statement (and asserts that it is the only one), ...
DisconnectStmt(t) ==
  /\ At(t, "disconnect")
  /\ \E s \in stmts[Handle(t)] : Drop(t, App(s))
  /\ UNCHANGED <<conns, descs, listVars, connVars, callVars, pc>>

\* ... nr_stmts is reset and the TAOS handle closed; descriptors stay.
DisconnectClose(t) ==
  /\ At(t, "disconnect")
  /\ stmts[Handle(t)] = {}
  /\ nr_stmts' = [nr_stmts EXCEPT ![Handle(t)] = 0]
  /\ connected' = [connected EXCEPT ![Handle(t)] = FALSE]
  /\ GoTo(t, "leave")
  /\ UNCHANGED <<objVars, conns, descs, stmts, asARD, asAPD, outstandings, callVars>>

\* _stmt_exec_direct_sql: outstandings is up while the server works.
ExecBegin(t) ==
  /\ At(t, "exec_direct")
  /\ outstandings' = [outstandings EXCEPT ![Parent(Handle(t))] = @ + 1]
  /\ GoTo(t, "executing")
  /\ UNCHANGED <<objVars, conns, descs, listVars, connected, callVars>>

ExecEnd(t) ==
  /\ At(t, "executing")
  /\ outstandings' = [outstandings EXCEPT ![Parent(Handle(t))] = @ - 1]
  /\ GoTo(t, "leave")
  /\ UNCHANGED <<objVars, conns, descs, listVars, connected, callVars>>

\* The checks before the old association is dissolved: the same descriptor
\* again (success), another connection's, or the statement's other one.
SetDescKeep(t, f, k, other) ==
  /\ At(t, f)
  /\ \/ ref[k] = arg[t]
     \/ arg[t] # NULL /\ Parent(arg[t]) # Parent(Handle(t))
     \/ arg[t] # NULL /\ ref[other] = arg[t]
  /\ GoTo(t, "leave")
  /\ UNCHANGED <<objVars, conns, descs, listVars, connVars, callVars>>

SetDescAllowed(t, k, other) ==
  /\ ref[k] # arg[t]
  /\ arg[t] # NULL => Parent(arg[t]) = Parent(Handle(t)) /\ ref[other] # arg[t]

\* The old descriptor goes; SQL_NULL_DESC returns to the implicit one.
SetARD(t) ==
  LET s == Handle(t)
  IN /\ At(t, "set_ard")
     /\ SetDescAllowed(t, Ard(s), Apd(s))
     /\ IF ref[Ard(s)] = NULL
        THEN UNCHANGED <<objVars, asARD, asAPD>>
        ELSE stmt_dissociate_ARD(t, s)
     /\ GoTo(t, IF arg[t] = NULL THEN "leave" ELSE "associate_ard")
     /\ UNCHANGED <<conns, descs, stmts, nr_stmts, connVars, callVars>>

SetAPD(t) ==
  LET s == Handle(t)
  IN /\ At(t, "set_apd")
     /\ SetDescAllowed(t, Apd(s), Ard(s))
     /\ IF ref[Apd(s)] = NULL
        THEN UNCHANGED <<objVars, asARD, asAPD>>
        ELSE stmt_dissociate_APD(t, s)
     /\ GoTo(t, IF arg[t] = NULL THEN "leave" ELSE "associate_apd")
     /\ UNCHANGED <<conns, descs, stmts, nr_stmts, connVars, callVars>>

\* The statement enters the descriptor's list and refers to it.
AssociateARD(t) ==
  /\ At(t, "associate_ard")
  /\ asARD' = [asARD EXCEPT ![arg[t]] = @ \cup {Handle(t)}]
  /\ Acquire(Ard(Handle(t)), arg[t])
  /\ GoTo(t, "leave")
  /\ UNCHANGED <<life, releaser, conns, descs, stmts, nr_stmts, asAPD, connVars, callVars>>

AssociateAPD(t) ==
  /\ At(t, "associate_apd")
  /\ asAPD' = [asAPD EXCEPT ![arg[t]] = @ \cup {Handle(t)}]
  /\ Acquire(Apd(Handle(t)), arg[t])
  /\ GoTo(t, "leave")
  /\ UNCHANGED <<life, releaser, conns, descs, stmts, nr_stmts, asARD, connVars, callVars>>

-----------------------------------------------------------------------------
(* Freeing.                                                                *)

\* env_free refuses while conns # 0.
env_free(t) ==
  /\ At(t, "free_env")
  /\ GoTo(t, IF conns[Handle(t)] = 0 THEN "drop_own" ELSE "leave")
  /\ UNCHANGED <<objVars, conns, descs, listVars, connVars, callVars>>

\* Mutant: one of the four checks is missing.
conn_free_Connected(t) ==
  LET c == Handle(t)
  IN /\ At(t, "free_conn")
     /\ GoTo(t, IF outstandings[c] = 0 /\ nr_stmts[c] = 0 /\ descs[c] = 0
                THEN "drop_own" ELSE "leave")
     /\ UNCHANGED <<objVars, conns, descs, listVars, connVars, callVars>>

\* conn_free refuses while something is outstanding.  Its four reads are one
\* step: nothing it reads can grow from zero meanwhile except outstandings,
\* and then nr_stmts refuses.
conn_free(t) ==
  LET c == Handle(t)
  IN /\ At(t, "free_conn")
     /\ GoTo(t, IF /\ outstandings[c] = 0 /\ ~connected[c]
                   /\ nr_stmts[c] = 0 /\ descs[c] = 0
                THEN "drop_own" ELSE "leave")
     /\ UNCHANGED <<objVars, conns, descs, listVars, connVars, callVars>>

\* desc_free: every association is dissolved, those as ARD first.
desc_free(t) ==
  LET d == Handle(t)
  IN /\ At(t, "free_desc")
     /\ \/ \E s \in asARD[d] : stmt_dissociate_ARD(t, s) /\ UNCHANGED pc
        \/ /\ asARD[d] = {}
           /\ \E s \in asAPD[d] : stmt_dissociate_APD(t, s) /\ UNCHANGED pc
        \/ /\ asARD[d] = {} /\ asAPD[d] = {}
           /\ GoTo(t, "drop_own")
           /\ UNCHANGED <<objVars, asARD, asAPD>>
     /\ UNCHANGED <<conns, descs, stmts, nr_stmts, connVars, callVars>>

\* The unref of the creation reference.
DropOwn(t) ==
  /\ At(t, "drop_own") \/ At(t, "free_stmt")
  /\ Drop(t, App(Handle(t)))
  /\ GoTo(t, "leave")
  /\ UNCHANGED <<conns, descs, listVars, connVars, callVars>>

\* The unref at the end of every entry point.
Leave(t) ==
  /\ At(t, "leave")
  /\ Drop(t, Api(t))
  /\ GoTo(t, "return")
  /\ UNCHANGED <<conns, descs, listVars, connVars, callVars>>

Return(t) ==
  /\ At(t, "return")
  /\ fn' = [fn EXCEPT ![t] = "none"]
  /\ home' = [home EXCEPT ![t] = NULL]
  /\ arg' = [arg EXCEPT ![t] = NULL]
  /\ GoTo(t, "idle")
  /\ UNCHANGED <<objVars, conns, descs, listVars, connVars>>

-----------------------------------------------------------------------------
(* Releases, by the thread whose unref reached 0.                          *)

_env_release(t, e) ==
  /\ releaser[e] = t
  /\ life' = [life EXCEPT ![e] = "none"]
  /\ releaser' = [releaser EXCEPT ![e] = NULL]
  /\ UNCHANGED <<refc, ref, conns, descs, listVars, connVars, callVars, pc>>

\* Mutant: env->conns is not decremented.
conn_uncount_Forgets(t, c) ==
  /\ releaser[c] = t /\ life[c] = "dying"
  /\ life' = [life EXCEPT ![c] = "leaving"]
  /\ UNCHANGED <<refc, ref, releaser, conns, descs, listVars, connVars, callVars, pc>>

\* conns - 1 first, env_unref afterwards.
conn_uncount(t, c) ==
  /\ releaser[c] = t /\ life[c] = "dying"
  /\ conns' = [conns EXCEPT ![Parent(c)] = @ - 1]
  /\ life' = [life EXCEPT ![c] = "leaving"]
  /\ UNCHANGED <<refc, ref, releaser, descs, listVars, connVars, callVars, pc>>

desc_uncount(t, d) ==
  /\ releaser[d] = t /\ life[d] = "dying"
  /\ descs' = [descs EXCEPT ![Parent(d)] = @ - 1]
  /\ life' = [life EXCEPT ![d] = "leaving"]
  /\ UNCHANGED <<refc, ref, releaser, conns, listVars, connVars, callVars, pc>>

stmt_unlink(t, s) ==
  /\ releaser[s] = t /\ life[s] = "dying"
  /\ stmts' = [stmts EXCEPT ![Parent(s)] = @ \ {s}]
  /\ nr_stmts' = [nr_stmts EXCEPT ![Parent(s)] = @ - 1]
  /\ life' = [life EXCEPT ![s] = "leaving"]
  /\ UNCHANGED <<refc, ref, releaser, conns, descs, asARD, asAPD, connVars, callVars, pc>>

\* _stmt_release: APD first, then ARD, each with whatever release it causes.
stmt_drop_descs(t, s) ==
  /\ releaser[s] = t /\ life[s] = "leaving"
  /\ \A d \in Descs : releaser[d] # t
  /\ \/ ref[Apd(s)] # NULL /\ stmt_dissociate_APD(t, s)
     \/ ref[Apd(s)] = NULL /\ ref[Ard(s)] # NULL /\ stmt_dissociate_ARD(t, s)
  /\ UNCHANGED <<conns, descs, stmts, nr_stmts, connVars, callVars, pc>>

\* Mutant: the pointer to the parent goes without an unref.
ReleaseParent_NoUnref(t, o) ==
  /\ releaser[o] = t /\ life[o] = "leaving"
  /\ \A d \in Descs \ {o} : releaser[d] # t
  /\ o \in Stmts => ref[Apd(o)] = NULL /\ ref[Ard(o)] = NULL
  /\ life' = [life EXCEPT ![o] = "none"]
  /\ releaser' = [releaser EXCEPT ![o] = NULL]
  /\ ref' = [ref EXCEPT ![Up(o)] = NULL]
  /\ UNCHANGED <<refc, conns, descs, listVars, connVars, callVars, pc>>

\* The parent is unreferenced last and the object's memory freed.
ReleaseParent(t, o) ==
  /\ releaser[o] = t /\ life[o] = "leaving"
  /\ \A d \in Descs \ {o} : releaser[d] # t
  /\ o \in Stmts => ref[Apd(o)] = NULL /\ ref[Ard(o)] = NULL
  /\ DropFrom(t, Up(o), [life EXCEPT ![o] = "none"], [releaser EXCEPT ![o] = NULL])
  /\ UNCHANGED <<conns, descs, listVars, connVars, callVars, pc>>

-----------------------------------------------------------------------------
Call(t) ==
  \/ SQLAllocHandle(t)
  \/ SQLFreeHandle(t)
  \/ SQLDriverConnect(t)
  \/ SQLDisconnect(t)
  \/ SQLExecDirect(t)
  \/ SQLSetStmtAttr(t)

Step(t) ==
  \/ OutOfMemory(t)
  \/ conn_create(t) \/ conn_count(t)
  \/ desc_create(t) \/ desc_count(t)
  \/ stmt_create(t) \/ stmt_ref_conn(t) \/ stmt_ready(t)
  \/ TaosConnect(t) \/ PostConnect(t)
  \/ DisconnectStmt(t) \/ DisconnectClose(t)
  \/ ExecBegin(t) \/ ExecEnd(t)
  \/ SetDescKeep(t, "set_ard", Ard(Handle(t)), Apd(Handle(t)))
  \/ SetDescKeep(t, "set_apd", Apd(Handle(t)), Ard(Handle(t)))
  \/ SetARD(t) \/ SetAPD(t)
  \/ AssociateARD(t) \/ AssociateAPD(t)
  \/ env_free(t) \/ conn_free(t) \/ desc_free(t)
  \/ DropOwn(t) \/ Leave(t) \/ Return(t)

Release(t) ==
  \/ \E e \in Envs : _env_release(t, e)
  \/ \E c \in Conns : conn_uncount(t, c)
  \/ \E d \in Descs : desc_uncount(t, d)
  \/ \E s \in Stmts : stmt_unlink(t, s) \/ stmt_drop_descs(t, s)
  \/ \E o \in Objs \ Envs : ReleaseParent(t, o)

Next ==
  \/ \E e \in Envs : env_create(e)
  \/ \E t \in Threads : Call(t) \/ Step(t) \/ Release(t)

Spec == Init /\ [][Next]_vars

-----------------------------------------------------------------------------
(* Properties.                                                             *)

Calls == {"alloc_conn", "alloc_stmt", "alloc_desc", "connect", "exec_direct",
          "set_ard", "set_apd"} \cup EndingCalls

\* Every variable has its type (that the counts are not negative is in CountersExact).
TypeOK ==
  /\ life \in [Objs -> {"none", "new", "live", "dying", "leaving"}]
  /\ refc \in [Objs -> Int]
  /\ ref \in [Slots -> Objs \cup {NULL}]
  /\ releaser \in [Objs -> Threads \cup {NULL}]
  /\ conns \in [Envs -> Int]
  /\ descs \in [Conns -> Int]
  /\ stmts \in [Conns -> SUBSET Stmts]
  /\ nr_stmts \in [Conns -> Int]
  /\ asARD \in [Descs -> SUBSET Stmts]
  /\ asAPD \in [Descs -> SUBSET Stmts]
  /\ connected \in [Conns -> BOOLEAN]
  /\ outstandings \in [Conns -> Int]
  /\ fn \in [Threads -> Calls \cup {"none"}]
  /\ pc \in [Threads -> Calls \cup
               {"idle", "conn_count", "desc_count", "stmt_ref_conn", "stmt_ready",
                "post_connect", "executing", "associate_ard", "associate_apd",
                "drop_own", "leave", "return"}]
  /\ home \in [Threads -> Conns \cup {NULL}]
  /\ arg \in [Threads -> Conns \cup Stmts \cup Descs \cup {NULL}]

Refs(o) == {k \in Slots : ref[k] = o}

\* No use after free: whatever a thread, an object or the application can still
\* reach (a parent, an associated descriptor, the handle of a call in progress)
\* is alive, and its release has not begun.
NoDanglingRef == \A k \in Slots : ref[k] # NULL => life[ref[k]] = "live"

\* The lists of a descriptor and the pointers of the statements agree, stay on
\* one connection, and no descriptor serves one statement in both roles (HY024).
AssociationsAgree ==
  \A s \in Stmts, d \in Descs :
    /\ s \in asARD[d] <=> ref[Ard(s)] = d
    /\ s \in asAPD[d] <=> ref[Apd(s)] = d
    /\ d \in {ref[Ard(s)], ref[Apd(s)]} => Parent(s) = Parent(d)
    /\ ~(s \in asARD[d] /\ s \in asAPD[d])

Counted(p, kids) ==
  Cardinality({o \in kids : Parent(o) = p /\ life[o] \in {"live", "dying"}})

\* Every count is exact. The reference count is the number of references, so that the
\* last one releases; of the counters that refuse a free, a connection (descriptor)
\* counts from its construction to its release, a statement while it is in the list.
CountersExact ==
  /\ \A o \in Objs : refc[o] = Cardinality(Refs(o))
  /\ \A e \in Envs : conns[e] = Counted(e, Conns)
  /\ \A c \in Conns : descs[c] = Counted(c, Descs)
  /\ \A c \in Conns : nr_stmts[c] = Cardinality(stmts[c])

\* The assertions of the release paths never abort the process: _env_release
\* finds no connection, _conn_release neither a TAOS handle nor statements, and
\* conn_disconnect no statement that someone else still refers to.
ReleaseAssertionsHold ==
  /\ \A e \in Envs : life[e] = "dying" => conns[e] = 0
  /\ \A c \in Conns : life[c] = "dying" => ~connected[c] /\ nr_stmts[c] = 0
  /\ \A t \in Threads : At(t, "disconnect") =>
       \A s \in stmts[Handle(t)] : refc[s] = 1

\* Whatever order handles were freed in, associated or not, disconnected or
\* not: once the application holds no handle and no call runs, nothing is left.
NothingLeaks ==
  (\A t \in Threads : fn[t] = "none") /\ (\A o \in Objs : ref[App(o)] = NULL)
    => \A o \in Objs : life[o] = "none"
=============================================================================
