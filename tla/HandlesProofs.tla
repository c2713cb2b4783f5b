--------------------------- MODULE HandlesProofs ---------------------------
(***************************************************************************)
(* Proofs about Handles, for any number of environments, connections,      *)
(* statements, descriptors and threads.                                    *)
(*                                                                         *)
(* A reference count is exact because every step fills an empty slot or    *)
(* empties a full one.  That no slot points to what is freed needs to know *)
(* where each thread stands in its call, what its callers see to as long   *)
(* as the call lasts, and which statements a connection lists.             *)
(***************************************************************************)
EXTENDS Handles, FiniteSetTheorems, TLAPS

-----------------------------------------------------------------------------
(* What a slot may point to.                                               *)

ShapeInv ==
  /\ \A o \in Objs : ref[App(o)] \in {o, NULL}
  /\ \A c \in Conns : Parent(c) \in Envs \cup {NULL}
  /\ \A o \in Stmts \cup Descs : Parent(o) \in Conns \cup {NULL}
  /\ \A s \in Stmts : ref[Ard(s)] \in Descs \cup {NULL} /\ ref[Apd(s)] \in Descs \cup {NULL}

RefcExact == \A o \in Objs : refc[o] = Cardinality(Refs(o))

\* What an object holds in each part of its life.
LifeInv ==
  /\ \A o \in Objs : releaser[o] # NULL <=> life[o] \in {"dying", "leaving"}
  /\ \A o \in Objs : life[o] = "live" => refc[o] # 0
  /\ \A e \in Envs : life[e] \notin {"new", "leaving"}
  /\ \A o \in Objs \ Envs : life[o] = "none" => Parent(o) = NULL
  /\ \A o \in Objs \ Envs : life[o] \in {"live", "dying", "leaving"} => Parent(o) # NULL
  /\ \A s \in Stmts : life[s] \in {"none", "new"} => ref[Ard(s)] = NULL /\ ref[Apd(s)] = NULL

ObjInv == ShapeInv /\ RefcExact /\ NoDanglingRef /\ LifeInv

-----------------------------------------------------------------------------
(* Where a thread stands in its call.                                      *)

Frees    == {"free_env", "free_conn", "free_stmt", "free_desc"}
Sets     == {"set_ard", "set_apd"}
Creating == {"conn_count", "desc_count", "stmt_ref_conn", "stmt_ready"}

\* The steps of each function, and the kind of handle it is called with.
PlaceInv ==
  \A t \in Threads :
    /\ pc[t] = "idle" <=> fn[t] = "none"
    /\ Handle(t) = NULL <=> pc[t] \in {"idle", "return"}
    /\ pc[t] \in {"alloc_conn", "conn_count"} => fn[t] = "alloc_conn"
    /\ pc[t] \in {"alloc_desc", "desc_count"} => fn[t] = "alloc_desc"
    /\ pc[t] \in {"alloc_stmt", "stmt_ref_conn", "stmt_ready"} => fn[t] = "alloc_stmt"
    /\ pc[t] \in {"connect", "post_connect"} => fn[t] = "connect"
    /\ pc[t] = "disconnect" => fn[t] \in {"connect", "disconnect"}
    /\ pc[t] \in {"exec_direct", "executing"} => fn[t] = "exec_direct"
    /\ pc[t] \in {"set_ard", "associate_ard"} => fn[t] = "set_ard"
    /\ pc[t] \in {"set_apd", "associate_apd"} => fn[t] = "set_apd"
    /\ pc[t] \in Frees => fn[t] = pc[t]
    /\ pc[t] = "drop_own" => fn[t] \in Frees \ {"free_stmt"}

KindInv ==
  \A t \in Threads : Handle(t) # NULL =>
    /\ fn[t] \in {"alloc_conn", "free_env"} => Handle(t) \in Envs
    /\ fn[t] \in {"alloc_stmt", "alloc_desc", "connect", "disconnect", "free_conn"}
         => Handle(t) \in Conns
    /\ fn[t] \in {"exec_direct", "free_stmt"} \cup Sets => Handle(t) \in Stmts
    /\ fn[t] = "free_desc" => Handle(t) \in Descs

HomeInv == \A t \in Threads : Handle(t) # NULL => home[t] = ConnOf(Handle(t))

\* The object a thread creates, or the descriptor it was passed.
ArgInv ==
  \A t \in Threads :
    /\ arg[t] # NULL =>
         /\ fn[t] \in {"alloc_conn", "alloc_stmt", "alloc_desc"} \cup Sets
         /\ fn[t] = "alloc_conn" => arg[t] \in Conns
         /\ fn[t] = "alloc_stmt" => arg[t] \in Stmts
         /\ fn[t] \in {"alloc_desc"} \cup Sets => arg[t] \in Descs
         /\ pc[t] \in Creating => life[arg[t]] = "new"
         /\ pc[t] \notin Creating => ref[App(arg[t])] = arg[t]
    /\ pc[t] \in Creating =>
         /\ arg[t] # NULL
         /\ Parent(arg[t]) = IF pc[t] = "stmt_ref_conn" THEN NULL ELSE Handle(t)

NewInv ==
  /\ \A o \in Objs : life[o] = "new" => \E t \in Threads : pc[t] \in Creating /\ arg[t] = o
  /\ \A t, u \in Threads : t # u /\ arg[t] = arg[u] /\ arg[t] # NULL => fn[t] \in Sets /\ fn[u] \in Sets

\* Between the two halves of an association.
AssociateInv ==
  \A t \in Threads :
    /\ pc[t] \in {"associate_ard", "associate_apd"} =>
         arg[t] # NULL /\ Parent(arg[t]) = Parent(Handle(t))
    /\ pc[t] = "associate_ard" => ref[Ard(Handle(t))] = NULL /\ ref[Apd(Handle(t))] # arg[t]
    /\ pc[t] = "associate_apd" => ref[Apd(Handle(t))] = NULL /\ ref[Ard(Handle(t))] # arg[t]

-----------------------------------------------------------------------------
(* What the callers see to, as long as the calls last.                     *)

\* A handle that is being ended is nobody else's.
ExclInv ==
  \A t, u \in Threads : t # u /\ fn[t] \in EndingCalls /\ Handle(t) # NULL => ~Uses(u, Handle(t))

DisconnectInv ==
  \A t, u \in Threads : t # u /\ fn[t] = "disconnect" /\ Handle(t) # NULL =>
    \A s \in stmts[Handle(t)] : ~Uses(u, s)

ListInv ==
  \A t, u \in Threads : t # u /\ {fn[t], fn[u]} \subseteq ListCalls => home[t] # home[u]

\* The handle of a call keeps the application's reference, unless the call is there to drop it.
OwnInv ==
  \A t \in Threads : Handle(t) # NULL =>
    ref[App(Handle(t))] = Handle(t) \/ (fn[t] \in Frees /\ pc[t] = "leave")

-----------------------------------------------------------------------------
(* Statements, which a disconnect frees with their connection.             *)

StmtInv ==
  /\ \A s \in Stmts : life[s] = "live" =>
       ref[App(s)] = s \/ \E t \in Threads : Handle(t) = s /\ fn[t] = "free_stmt"
  /\ \A c \in Conns, s \in Stmts :
       s \in stmts[c] <=> \/ Parent(s) = c /\ life[s] \in {"new", "live", "dying"}
                          \/ \E t \in Threads : pc[t] = "stmt_ref_conn" /\ arg[t] = s /\ Handle(t) = c

\* A release is part of a call; that of a statement of one that writes its connection's list.
ReleaserInv ==
  \A o \in Objs : releaser[o] # NULL =>
    /\ fn[releaser[o]] # "none"
    /\ o \in Stmts => fn[releaser[o]] \in {"free_stmt", "disconnect"} /\ home[releaser[o]] = Parent(o)

ConnectedInv ==
  /\ \A c \in Conns : connected[c] => ref[App(c)] = c
  /\ \A c \in Conns : stmts[c] # {} => connected[c]
  /\ \A t \in Threads : Handle(t) # NULL =>
       /\ fn[t] = "alloc_stmt" => connected[Handle(t)]
       /\ pc[t] = "drop_own" /\ fn[t] = "free_conn" => ~connected[Handle(t)]
       /\ fn[t] = "connect" =>
            /\ stmts[Handle(t)] = {}
            /\ pc[t] = "connect" => ~connected[Handle(t)]
            /\ \A u \in Threads : Handle(u) = Handle(t) /\ u # t =>
                 fn[u] \notin {"alloc_stmt", "connect", "disconnect"}

ThreadInv == PlaceInv /\ KindInv /\ HomeInv /\ ArgInv /\ NewInv /\ AssociateInv
CallerInv == ExclInv /\ DisconnectInv /\ ListInv /\ OwnInv
IInv == /\ TypeOK /\ ObjInv /\ ThreadInv /\ CallerInv /\ AssociationsAgree
        /\ StmtInv /\ ReleaserInv /\ ConnectedInv /\ CountersExact

-----------------------------------------------------------------------------
(* Kinds and slots.                                                        *)

LEMMA KindFacts ==
  /\ Envs \subseteq Objs /\ Conns \subseteq Objs /\ Stmts \subseteq Objs /\ Descs \subseteq Objs
  /\ \A o \in Objs : o # NULL
  /\ \A o \in Objs : o \in Envs \/ o \in Conns \/ o \in Stmts \/ o \in Descs
  /\ \A o : o \in Envs => o \notin Conns /\ o \notin Stmts /\ o \notin Descs
  /\ \A o : o \in Conns => o \notin Stmts /\ o \notin Descs
  /\ \A o : o \in Stmts => o \notin Descs
  BY ConstAssumption DEF Objs

LEMMA SlotFacts ==
  /\ \A o \in Objs : App(o) \in Slots
  /\ \A t \in Threads : Api(t) \in Slots
  /\ \A o \in Objs : o \notin Envs => Up(o) \in Slots
  /\ \A s \in Stmts : Ard(s) \in Slots /\ Apd(s) \in Slots
  BY KindFacts DEF Slots

\* Slots of different owners or of different purposes are different slots.
LEMMA SlotsDiffer ==
  /\ \A x, y : App(x) = App(y) => x = y
  /\ \A x, y : Api(x) = Api(y) => x = y
  /\ \A x, y : Up(x) = Up(y) => x = y
  /\ \A x, y : Ard(x) = Ard(y) => x = y
  /\ \A x, y : Apd(x) = Apd(y) => x = y
  /\ \A x, y : /\ App(x) # Api(y) /\ App(x) # Up(y) /\ App(x) # Ard(y) /\ App(x) # Apd(y)
               /\ Api(x) # Up(y) /\ Api(x) # Ard(y) /\ Api(x) # Apd(y)
               /\ Up(x) # Ard(y) /\ Up(x) # Apd(y) /\ Ard(x) # Apd(y)
  BY DEF App, Api, Up, Ard, Apd

\* Every slot is of one of the five purposes.
LEMMA SlotKinds ==
  \A k \in Slots : \/ \E o \in Objs : k = App(o)
                   \/ \E t \in Threads : k = Api(t)
                   \/ \E o \in Objs : o \notin Envs /\ k = Up(o)
                   \/ \E s \in Stmts : k = Ard(s) \/ k = Apd(s)
  BY DEF Slots

\* There are finitely many slots: those of one kind are as many as their owners.
LEMMA SlotsFinite == IsFiniteSet(Slots)
<1> DEFINE A == {App(o) : o \in Objs}
           P == {Api(t) : t \in Threads}
           U == {Up(o) : o \in Objs \ Envs}
           R == {Ard(s) : s \in Stmts}
           D == {Apd(s) : s \in Stmts}
<1>0. IsFiniteSet(Objs) /\ IsFiniteSet(Threads) /\ IsFiniteSet(Objs \ Envs) /\ IsFiniteSet(Stmts)
  <2>1. IsFiniteSet(Objs) /\ IsFiniteSet(Threads)
    BY ConstAssumption
  <2>2. Stmts \in SUBSET Objs /\ Objs \ Envs \in SUBSET Objs
    BY KindFacts
  <2> QED BY <2>1, <2>2, FS_Subset
<1>1. IsFiniteSet(A)
  <2>1. [o \in Objs |-> App(o)] \in Surjection(Objs, A)
    BY DEF Surjection
  <2> HIDE DEF A
  <2> QED BY <1>0, <2>1, FS_Surjection
<1>2. IsFiniteSet(P)
  <2>1. [t \in Threads |-> Api(t)] \in Surjection(Threads, P)
    BY DEF Surjection
  <2> HIDE DEF P
  <2> QED BY <1>0, <2>1, FS_Surjection
<1>3. IsFiniteSet(U)
  <2>1. [o \in Objs \ Envs |-> Up(o)] \in Surjection(Objs \ Envs, U)
    BY DEF Surjection
  <2> HIDE DEF U
  <2> QED BY <1>0, <2>1, FS_Surjection
<1>4. IsFiniteSet(R)
  <2>1. [s \in Stmts |-> Ard(s)] \in Surjection(Stmts, R)
    BY DEF Surjection
  <2> HIDE DEF R
  <2> QED BY <1>0, <2>1, FS_Surjection
<1>5. IsFiniteSet(D)
  <2>1. [s \in Stmts |-> Apd(s)] \in Surjection(Stmts, D)
    BY DEF Surjection
  <2> HIDE DEF D
  <2> QED BY <1>0, <2>1, FS_Surjection
<1>6. Slots = A \cup P \cup U \cup R \cup D
  BY DEF Slots
<1> HIDE DEF A, P, U, R, D
<1>7. IsFiniteSet(A \cup P)
  BY <1>1, <1>2, FS_Union
<1>8. IsFiniteSet(A \cup P \cup U)
  BY <1>7, <1>3, FS_Union
<1>9. IsFiniteSet(A \cup P \cup U \cup R)
  BY <1>8, <1>4, FS_Union
<1>10. IsFiniteSet(A \cup P \cup U \cup R \cup D)
  BY <1>9, <1>5, FS_Union
<1> QED BY <1>6, <1>10

-----------------------------------------------------------------------------
(* Counting.  A set that gains or loses one element.                       *)

LEMMA CountIn ==
  ASSUME NEW S, NEW T, NEW x, IsFiniteSet(S), x \notin S, T = S \cup {x}
  PROVE  Cardinality(T) = Cardinality(S) + 1 /\ IsFiniteSet(T)
  BY FS_AddElement

LEMMA CountOut ==
  ASSUME NEW S, NEW T, NEW x, IsFiniteSet(S), x \in S, T = S \ {x}
  PROVE  Cardinality(T) = Cardinality(S) - 1 /\ IsFiniteSet(T)
  BY FS_RemoveElement

RefsOf(f, o) == {k \in Slots : f[k] = o}

LEMMA RefsFinite ==
  \A f, o : IsFiniteSet(RefsOf(f, o)) /\ Cardinality(RefsOf(f, o)) \in Nat
<1> TAKE f, o
<1>1. RefsOf(f, o) \in SUBSET Slots
  BY DEF RefsOf
<1>2. IsFiniteSet(RefsOf(f, o))
  BY <1>1, SlotsFinite, FS_Subset
<1> QED BY <1>2, FS_CardinalityType

\* Filling an empty slot adds one reference, to the object it now points to.
LEMMA PointCount ==
  ASSUME NEW f, f \in [Slots -> Objs \cup {NULL}], NEW k \in Slots, NEW o \in Objs, f[k] = NULL,
         NEW g, g = [f EXCEPT ![k] = o]
  PROVE  Cardinality(RefsOf(g, o)) = Cardinality(RefsOf(f, o)) + 1
<1>1. k \notin RefsOf(f, o) /\ RefsOf(g, o) = RefsOf(f, o) \cup {k}
  BY KindFacts DEF RefsOf
<1> QED BY <1>1, RefsFinite, CountIn

\* Emptying a slot takes one reference away.
LEMMA ClearCount ==
  ASSUME NEW f, f \in [Slots -> Objs \cup {NULL}], NEW k \in Slots, NEW o \in Objs, f[k] = o,
         NEW g, g = [f EXCEPT ![k] = NULL]
  PROVE  Cardinality(RefsOf(g, o)) = Cardinality(RefsOf(f, o)) - 1
<1>1. k \in RefsOf(f, o) /\ RefsOf(g, o) = RefsOf(f, o) \ {k}
  BY KindFacts DEF RefsOf
<1> QED BY <1>1, RefsFinite, CountOut

\* Where the counts are exact, 0 means unreferenced and 1 that a slot is the only one.
LEMMA RefcFacts ==
  ASSUME RefcExact, NEW o \in Objs
  PROVE  /\ refc[o] = Cardinality(RefsOf(ref, o)) /\ refc[o] \in Nat
         /\ refc[o] = 0 <=> \A k \in Slots : ref[k] # o
         /\ \A j, k \in Slots : refc[o] = 1 /\ ref[j] = o /\ ref[k] = o => j = k
<1>1. refc[o] = Cardinality(RefsOf(ref, o))
  BY DEF RefcExact, Refs, RefsOf
<1>2. IsFiniteSet(RefsOf(ref, o)) /\ refc[o] \in Nat
  BY <1>1, RefsFinite
<1>3. refc[o] = 0 <=> RefsOf(ref, o) = {}
  BY <1>1, <1>2, FS_EmptySet
<1>4. refc[o] = 1 => \E x : RefsOf(ref, o) = {x}
  BY <1>1, <1>2, FS_Singleton
<1> QED BY <1>1, <1>2, <1>3, <1>4 DEF RefsOf

\* X_ref keeps the counts exact.
LEMMA AcquireCount ==
  ASSUME TypeOK, RefcExact, NEW k \in Slots, NEW o \in Objs, ref[k] = NULL, Acquire(k, o)
  PROVE  /\ RefcExact'
         /\ ref' \in [Slots -> Objs \cup {NULL}] /\ refc' \in [Objs -> Int]
         /\ ref'[k] = o /\ \A j \in Slots : j # k => ref'[j] = ref[j]
         /\ refc'[o] # 0 /\ \A p \in Objs : p # o => refc'[p] = refc[p]
<1>1. /\ ref \in [Slots -> Objs \cup {NULL}] /\ refc \in [Objs -> Int]
      /\ ref' = [ref EXCEPT ![k] = o] /\ refc' = [refc EXCEPT ![o] = @ + 1]
  BY DEF TypeOK, Acquire
<1>2. Cardinality(RefsOf(ref', o)) = Cardinality(RefsOf(ref, o)) + 1
  BY <1>1, PointCount
<1>2a. \A p \in Objs : p # o => RefsOf(ref', p) = RefsOf(ref, p)
  BY <1>1, KindFacts DEF RefsOf
<1>3. \A p \in Objs : refc[p] = Cardinality(RefsOf(ref, p)) /\ refc[p] \in Nat
  BY RefcFacts
<1>4. \A p \in Objs : refc'[p] = Cardinality(RefsOf(ref', p))
  BY <1>1, <1>2, <1>2a, <1>3
<1>5. RefcExact'
  BY <1>4 DEF RefcExact, Refs, RefsOf
<1> QED BY <1>1, <1>3, <1>5

\* An unref: the slot is empty, and if it was the last one the object is released by t.
Dropped(t, k, lf, rl) ==
  /\ ref' = [ref EXCEPT ![k] = NULL]
  /\ \A o \in Objs : \/ life'[o] = lf[o] /\ releaser'[o] = rl[o]
                     \/ /\ o = ref[k] /\ life'[o] = "dying" /\ releaser'[o] = t
                        /\ \A j \in Slots : ref[j] = o => j = k
  /\ refc[ref[k]] = 1 => life'[ref[k]] = "dying"

\* X_unref keeps the counts exact, and releases what the last slot pointed to.
LEMMA DropCount ==
  ASSUME TypeOK, RefcExact, NEW k \in Slots, NEW t \in Threads, ref[k] # NULL, NEW lf, NEW rl,
         lf \in [Objs -> {"none", "new", "live", "dying", "leaving"}],
         rl \in [Objs -> Threads \cup {NULL}],
         DropFrom(t, k, lf, rl)
  PROVE  /\ RefcExact' /\ Dropped(t, k, lf, rl)
         /\ ref' \in [Slots -> Objs \cup {NULL}] /\ refc' \in [Objs -> Int]
         /\ life' \in [Objs -> {"none", "new", "live", "dying", "leaving"}]
         /\ releaser' \in [Objs -> Threads \cup {NULL}]
         /\ \A p \in Objs : p # ref[k] => refc'[p] = refc[p]
         /\ refc'[ref[k]] = refc[ref[k]] - 1
<1>0. /\ ref \in [Slots -> Objs \cup {NULL}] /\ refc \in [Objs -> Int]
  BY DEF TypeOK
<1> DEFINE o == ref[k]
<1>1. o \in Objs
  BY <1>0
<1>2. /\ ref' = [ref EXCEPT ![k] = NULL] /\ refc' = [refc EXCEPT ![o] = @ - 1]
      /\ life' = IF refc[o] = 1 THEN [lf EXCEPT ![o] = "dying"] ELSE lf
      /\ releaser' = IF refc[o] = 1 THEN [rl EXCEPT ![o] = t] ELSE rl
  BY DEF DropFrom
<1>3. Cardinality(RefsOf(ref', o)) = Cardinality(RefsOf(ref, o)) - 1
  BY <1>0, <1>1, <1>2, ClearCount
<1>3a. \A p \in Objs : p # o => RefsOf(ref', p) = RefsOf(ref, p)
  BY <1>0, <1>2, KindFacts DEF RefsOf
<1>4. \A p \in Objs : refc[p] = Cardinality(RefsOf(ref, p)) /\ refc[p] \in Nat
  BY RefcFacts
<1>5. \A j \in Slots : refc[o] = 1 /\ ref[j] = o => j = k
  BY <1>1, RefcFacts
<1>6. \A p \in Objs : refc'[p] = Cardinality(RefsOf(ref', p))
  BY <1>0, <1>1, <1>2, <1>3, <1>3a, <1>4
<1>7. RefcExact'
  BY <1>6 DEF RefcExact, Refs, RefsOf
<1>8. Dropped(t, k, lf, rl)
  BY <1>0, <1>1, <1>2, <1>5 DEF Dropped
<1>9. ref' \in [Slots -> Objs \cup {NULL}] /\ refc' \in [Objs -> Int]
  BY <1>0, <1>2
<1>10. life' \in [Objs -> {"none", "new", "live", "dying", "leaving"}] /\ releaser' \in [Objs -> Threads \cup {NULL}]
  BY <1>1, <1>2
<1> QED BY <1>0, <1>1, <1>2, <1>7, <1>8, <1>9, <1>10

-----------------------------------------------------------------------------
(* What acquiring and dropping do to the other objects.                    *)

\* A new reference to a live object dangles as little as the others.
LEMMA AcquireSafe ==
  ASSUME TypeOK, RefcExact, NoDanglingRef, NEW k \in Slots, NEW o \in Objs, ref[k] = NULL, Acquire(k, o),
         life'[o] = "live", \A p \in Objs : life[p] = "live" => life'[p] = "live"
  PROVE  NoDanglingRef'
<1>1. ref' \in [Slots -> Objs \cup {NULL}] /\ ref'[k] = o /\ \A j \in Slots : j # k => ref'[j] = ref[j]
  BY AcquireCount
<1>2. ref \in [Slots -> Objs \cup {NULL}]
  BY DEF TypeOK
<1>3. \A j \in Slots : ref'[j] # NULL => life'[ref'[j]] = "live"
  BY <1>1, <1>2 DEF NoDanglingRef
<1> QED BY <1>3 DEF NoDanglingRef

\* An unref leaves every other reference to a live object.
LEMMA DropSafe ==
  ASSUME TypeOK, NoDanglingRef, NEW k \in Slots, NEW t, NEW lf, NEW rl, ref[k] # NULL, Dropped(t, k, lf, rl),
         \A p \in Objs : (\E j \in Slots : j # k /\ ref[j] = p) => lf[p] = "live"
  PROVE  NoDanglingRef'
<1>1. ref \in [Slots -> Objs \cup {NULL}]
  BY DEF TypeOK
<1>2. ref' \in [Slots -> Objs \cup {NULL}] /\ ref'[k] = NULL /\ \A j \in Slots : j # k => ref'[j] = ref[j]
  BY <1>1 DEF Dropped
<1>3. \A j \in Slots : ref'[j] # NULL => life'[ref'[j]] = "live"
  <2> TAKE j \in Slots
  <2> HAVE ref'[j] # NULL
  <2>1. j # k /\ ref'[j] = ref[j] /\ ref[j] \in Objs
    BY <1>1, <1>2
  <2>2. lf[ref[j]] = "live"
    BY <2>1
  <2> QED BY <2>1, <2>2 DEF Dropped
<1> QED BY <1>3 DEF NoDanglingRef

\* Where a thread that is neither creating nor leaving may go next.
Turn(t, p) ==
  /\ pc[t] \notin Creating \cup {"idle", "leave", "return"}
  /\ \/ p = "leave"
     \/ p \in {"post_connect", "disconnect"} /\ fn[t] = "connect"
     \/ p = "executing" /\ fn[t] = "exec_direct"
     \/ p = "associate_ard" /\ fn[t] = "set_ard"
     \/ p = "associate_apd" /\ fn[t] = "set_apd"
     \/ p = "drop_own" /\ fn[t] \in Frees \ {"free_stmt"}

\* A step that takes no reference, drops none of an application or a call, and leaves the
\* parents of what lives alone: it disturbs nothing the threads rely on.
Quiet(t, p) ==
  /\ UNCHANGED <<fn, home, arg>>
  /\ pc' = [pc EXCEPT ![t] = p] /\ (p = pc[t] \/ Turn(t, p))
  /\ \A u \in Threads : ref'[Api(u)] = ref[Api(u)]
  /\ \A o \in Objs : ref'[App(o)] = ref[App(o)]
  /\ \A o \in Objs : o \notin Envs /\ life[o] \in {"new", "live"} => ref'[Up(o)] = ref[Up(o)]
  /\ \A o \in Objs : life'[o] = "new" <=> life[o] = "new"
  /\ \A s \in Stmts : ref'[Ard(s)] \in {ref[Ard(s)], NULL} /\ ref'[Apd(s)] \in {ref[Apd(s)], NULL}
  /\ \A c \in Conns : stmts'[c] \subseteq stmts[c]

\* The handle of a call in progress is live.
LEMMA HandleLives ==
  ASSUME TypeOK, NoDanglingRef, NEW t \in Threads, Handle(t) # NULL
  PROVE  Handle(t) \in Objs /\ life[Handle(t)] = "live"
  BY SlotFacts DEF TypeOK, NoDanglingRef, Handle

\* A quiet step leaves every thread in a place where its call has one.
LEMMA QuietSteps ==
  ASSUME TypeOK, ObjInv, ThreadInv, CallerInv, NEW t \in Threads, NEW p, Quiet(t, p),
         p = "associate_ard" => /\ arg[t] # NULL /\ Parent(arg[t]) = Parent(Handle(t))
                                /\ ref'[Ard(Handle(t))] = NULL /\ ref[Apd(Handle(t))] # arg[t],
         p = "associate_apd" => /\ arg[t] # NULL /\ Parent(arg[t]) = Parent(Handle(t))
                                /\ ref'[Apd(Handle(t))] = NULL /\ ref[Ard(Handle(t))] # arg[t]
  PROVE  ThreadInv' /\ CallerInv'
<1> USE DEF ThreadInv, CallerInv, ObjInv
<1>1a. /\ fn' = fn /\ home' = home /\ arg' = arg /\ pc' = [pc EXCEPT ![t] = p] /\ DOMAIN pc = Threads
  BY DEF Quiet, TypeOK
<1>1b. \A u \in Threads : Handle(u)' = Handle(u)
  BY DEF Quiet, Handle
<1>1. /\ fn' = fn /\ home' = home /\ arg' = arg /\ pc' = [pc EXCEPT ![t] = p] /\ DOMAIN pc = Threads
      /\ \A u \in Threads : Handle(u)' = Handle(u)
  BY <1>1a, <1>1b
<1>2. \A u \in Threads : u # t => pc'[u] = pc[u]
  BY <1>1
<1>3. pc'[t] = p
  BY <1>1
<1>4. p = pc[t] \/ Turn(t, p)
  BY DEF Quiet
<1>5. \A u \in Threads : Handle(u) # NULL => Handle(u) \in Objs /\ life[Handle(u)] = "live"
  BY HandleLives
<1>6. \A o \in Objs : o \notin Envs /\ life[o] \in {"new", "live"} => ref'[Up(o)] = ref[Up(o)]
  BY DEF Quiet
<1>7. \A o \in Objs : ref'[App(o)] = ref[App(o)] /\ (life'[o] = "new" <=> life[o] = "new")
  BY DEF Quiet
<1>8. PlaceInv'
  <2>1. PlaceInv
    OBVIOUS
  <2> QED BY <1>1, <1>2, <1>3, <1>4, <2>1 DEF PlaceInv, Turn, Frees, Creating
<1>9. KindInv'
  <2>1. KindInv
    OBVIOUS
  <2> QED BY <1>1, <2>1 DEF KindInv
<1>10. HomeInv'
  <2>1. \A u \in Threads : Handle(u) # NULL => ConnOf(Handle(u))' = ConnOf(Handle(u))
    BY <1>1, <1>5, <1>6, KindFacts DEF ConnOf, Parent
  <2>2. HomeInv
    OBVIOUS
  <2> QED BY <1>1, <2>1, <2>2 DEF HomeInv
<1>11. ArgInv'
  <2> SUFFICES ASSUME NEW u \in Threads
               PROVE  /\ arg[u] # NULL =>
                           /\ fn[u] \in {"alloc_conn", "alloc_stmt", "alloc_desc"} \cup Sets
                           /\ fn[u] = "alloc_conn" => arg[u] \in Conns
                           /\ fn[u] = "alloc_stmt" => arg[u] \in Stmts
                           /\ fn[u] \in {"alloc_desc"} \cup Sets => arg[u] \in Descs
                           /\ pc'[u] \in Creating => life'[arg[u]] = "new"
                           /\ pc'[u] \notin Creating => ref'[App(arg[u])] = arg[u]
                      /\ pc'[u] \in Creating =>
                           /\ arg[u] # NULL
                           /\ ref'[Up(arg[u])] = IF pc'[u] = "stmt_ref_conn" THEN NULL ELSE Handle(u)
    BY <1>1 DEF ArgInv, Parent
  <2>1. ArgInv
    OBVIOUS
  <2>2. pc'[u] \in Creating <=> pc[u] \in Creating
    BY <1>1, <1>2, <1>3, <1>4 DEF Turn, Creating
  <2>3. pc'[u] = "stmt_ref_conn" <=> pc[u] = "stmt_ref_conn"
    BY <1>1, <1>2, <1>3, <1>4 DEF Turn, Creating
  <2>4. arg[u] # NULL => arg[u] \in Objs /\ arg[u] \notin Envs
    BY KindFacts DEF TypeOK
  <2>5. pc[u] \in Creating => arg[u] # NULL /\ ref'[Up(arg[u])] = ref[Up(arg[u])]
    BY <1>6, <2>1, <2>4 DEF ArgInv
  <2>6. arg[u] # NULL => ref'[App(arg[u])] = ref[App(arg[u])] /\ (life'[arg[u]] = "new" <=> life[arg[u]] = "new")
    BY <1>7, <2>4
  <2> QED BY <2>1, <2>2, <2>3, <2>5, <2>6 DEF ArgInv, Parent
<1>12. NewInv'
  <2>1. NewInv
    OBVIOUS
  <2>2. \A u \in Threads : pc[u] \in Creating => pc'[u] \in Creating
    BY <1>1, <1>2, <1>3, <1>4 DEF Turn, Creating
  <2> QED BY <1>1, <1>7, <2>1, <2>2 DEF NewInv
<1>13. AssociateInv'
  <2> SUFFICES ASSUME NEW u \in Threads
               PROVE  /\ pc'[u] \in {"associate_ard", "associate_apd"} =>
                           arg[u] # NULL /\ ref'[Up(arg[u])] = ref'[Up(Handle(u))]
                      /\ pc'[u] = "associate_ard" => ref'[Ard(Handle(u))] = NULL /\ ref'[Apd(Handle(u))] # arg[u]
                      /\ pc'[u] = "associate_apd" => ref'[Apd(Handle(u))] = NULL /\ ref'[Ard(Handle(u))] # arg[u]
    BY <1>1 DEF AssociateInv, Parent
  <2>0. AssociateInv /\ ArgInv /\ KindInv /\ PlaceInv
    OBVIOUS
  <2> SUFFICES ASSUME pc'[u] \in {"associate_ard", "associate_apd"}
               PROVE  /\ arg[u] # NULL /\ ref'[Up(arg[u])] = ref'[Up(Handle(u))]
                      /\ pc'[u] = "associate_ard" => ref'[Ard(Handle(u))] = NULL /\ ref'[Apd(Handle(u))] # arg[u]
                      /\ pc'[u] = "associate_apd" => ref'[Apd(Handle(u))] = NULL /\ ref'[Ard(Handle(u))] # arg[u]
    OBVIOUS
  <2>1. PlaceInv'
    BY <1>8
  <2>2. fn[u] \in Sets /\ Handle(u) # NULL
    <3>1. fn'[u] \in Sets /\ Handle(u)' # NULL
      BY <2>1 DEF PlaceInv, Sets
    <3> QED BY <1>1, <3>1
  <2>3. Handle(u) \in Stmts /\ life[Handle(u)] = "live"
    BY <1>5, <2>0, <2>2 DEF KindInv
  <2>4. arg[u] # NULL /\ ref[Up(arg[u])] = ref[Up(Handle(u))]
    BY <1>1, <1>2, <1>3, <1>4, <2>0 DEF AssociateInv, Parent
  <2>5. arg[u] \in Descs /\ ref[App(arg[u])] = arg[u]
    <3>1. pc'[u] \notin Creating
      BY DEF Creating
    <3> QED BY <1>11, <1>1, <2>0, <2>2, <2>4, <3>1, <1>7, KindFacts DEF ArgInv
  <2>6. life[arg[u]] = "live"
    BY <2>5, KindFacts, SlotFacts DEF NoDanglingRef
  <2>7. ref'[Up(arg[u])] = ref[Up(arg[u])] /\ ref'[Up(Handle(u))] = ref[Up(Handle(u))]
    BY <1>6, <2>3, <2>5, <2>6, KindFacts
  <2>8. ref'[Ard(Handle(u))] \in {ref[Ard(Handle(u))], NULL} /\ ref'[Apd(Handle(u))] \in {ref[Apd(Handle(u))], NULL}
    BY <2>3 DEF Quiet
  <2>9. pc'[u] = "associate_ard" => ref'[Ard(Handle(u))] = NULL /\ ref'[Apd(Handle(u))] # arg[u]
    BY <1>2, <1>3, <1>4, <2>0, <2>4, <2>8 DEF AssociateInv
  <2>10. pc'[u] = "associate_apd" => ref'[Apd(Handle(u))] = NULL /\ ref'[Ard(Handle(u))] # arg[u]
    BY <1>2, <1>3, <1>4, <2>0, <2>4, <2>8 DEF AssociateInv
  <2> QED BY <2>4, <2>7, <2>9, <2>10
<1>14. ExclInv'
  <2>1. ExclInv
    OBVIOUS
  <2> QED BY <1>1, <2>1 DEF ExclInv, Uses
<1>15. DisconnectInv'
  <2>1. DisconnectInv /\ KindInv
    OBVIOUS
  <2>2. \A c \in Conns : stmts'[c] \subseteq stmts[c]
    BY DEF Quiet
  <2> QED BY <1>1, <2>1, <2>2 DEF DisconnectInv, KindInv, Uses
<1>16. ListInv'
  <2>1. ListInv
    OBVIOUS
  <2> QED BY <1>1, <2>1 DEF ListInv
<1>17. OwnInv'
  <2>1. OwnInv
    OBVIOUS
  <2>2. \A u \in Threads : pc[u] = "leave" => pc'[u] = "leave"
    BY <1>1, <1>2, <1>3, <1>4 DEF Turn
  <2> QED BY <1>1, <1>5, <1>7, <2>1, <2>2 DEF OwnInv
<1> QED BY <1>8, <1>9, <1>10, <1>11, <1>12, <1>13, <1>14, <1>15, <1>16, <1>17

-----------------------------------------------------------------------------
(* What a quiet step leaves of the other invariants.                       *)

LEMMA QuietFacts ==
  ASSUME TypeOK, NEW t \in Threads, NEW p, Quiet(t, p)
  PROVE  /\ fn' = fn /\ home' = home /\ arg' = arg
         /\ \A u \in Threads : Handle(u)' = Handle(u)
         /\ \A u \in Threads : u # t => pc'[u] = pc[u]
         /\ pc'[t] = p
         /\ \A u \in Threads : pc'[u] = "stmt_ref_conn" <=> pc[u] = "stmt_ref_conn"
         /\ \A u \in Threads : pc'[u] = "connect" => pc[u] = "connect"
<1>1. /\ fn' = fn /\ home' = home /\ arg' = arg /\ pc' = [pc EXCEPT ![t] = p] /\ DOMAIN pc = Threads
      /\ p = pc[t] \/ Turn(t, p)
  BY DEF Quiet, TypeOK
<1>2. \A u \in Threads : Handle(u)' = Handle(u)
  BY DEF Quiet, Handle
<1>3. (\A u \in Threads : u # t => pc'[u] = pc[u]) /\ pc'[t] = p
  BY <1>1
<1>4. p = "stmt_ref_conn" <=> pc[t] = "stmt_ref_conn"
  BY <1>1 DEF Turn, Creating
<1>5. p = "connect" => pc[t] = "connect"
  BY <1>1 DEF Turn
<1> QED BY <1>1, <1>2, <1>3, <1>4, <1>5

LEMMA ConnectedKept ==
  ASSUME TypeOK, NoDanglingRef, KindInv, ConnectedInv, NEW t \in Threads, NEW p, Quiet(t, p), connected' = connected,
         p # pc[t] /\ p = "drop_own" /\ fn[t] = "free_conn" => ~connected[Handle(t)]
  PROVE  ConnectedInv'
<1>1. \A c \in Conns : ref'[App(c)] = ref[App(c)] /\ stmts'[c] \subseteq stmts[c]
  BY KindFacts DEF Quiet
<1>2. /\ fn' = fn /\ \A u \in Threads : Handle(u)' = Handle(u)
      /\ \A u \in Threads : u # t => pc'[u] = pc[u]
      /\ pc'[t] = p
      /\ \A u \in Threads : pc'[u] = "connect" => pc[u] = "connect"
  BY QuietFacts
<1>3. \A u \in Threads : Handle(u) # NULL /\ fn[u] = "connect" => Handle(u) \in Conns
  BY DEF KindInv
<1>4. \A c \in Conns : stmts'[c] # {} => connected'[c]
  BY <1>1 DEF ConnectedInv
<1>5. \A c \in Conns : connected'[c] => ref'[App(c)] = c
  BY <1>1 DEF ConnectedInv
<1>6. \A u \in Threads : Handle(u) # NULL /\ pc'[u] = "drop_own" /\ fn[u] = "free_conn" => ~connected[Handle(u)]
  BY <1>2 DEF ConnectedInv
<1>7. \A u \in Threads : Handle(u) # NULL =>
        /\ fn[u] = "alloc_stmt" => connected'[Handle(u)]
        /\ fn[u] = "connect" =>
             /\ stmts'[Handle(u)] = {}
             /\ pc'[u] = "connect" => ~connected'[Handle(u)]
             /\ \A v \in Threads : Handle(v) = Handle(u) /\ v # u => fn[v] \notin {"alloc_stmt", "connect", "disconnect"}
  BY <1>1, <1>2, <1>3 DEF ConnectedInv
<1> QED BY <1>2, <1>4, <1>5, <1>6, <1>7 DEF ConnectedInv

LEMMA StmtKept ==
  ASSUME TypeOK, StmtInv, NEW t \in Threads, NEW p, Quiet(t, p), stmts' = stmts,
         \A s \in Stmts : life'[s] = life[s] /\ ref'[Up(s)] = ref[Up(s)]
  PROVE  StmtInv'
<1>1. /\ fn' = fn /\ arg' = arg /\ \A u \in Threads : Handle(u)' = Handle(u)
      /\ \A u \in Threads : pc'[u] = "stmt_ref_conn" <=> pc[u] = "stmt_ref_conn"
  BY QuietFacts
<1>2. \A s \in Stmts : ref'[App(s)] = ref[App(s)]
  BY KindFacts DEF Quiet
<1>3. \A s \in Stmts : life'[s] = "live" =>
        ref'[App(s)] = s \/ \E u \in Threads : Handle(u)' = s /\ fn'[u] = "free_stmt"
  BY <1>1, <1>2 DEF StmtInv
<1>4. \A c \in Conns, s \in Stmts :
        s \in stmts'[c] <=> \/ ref'[Up(s)] = c /\ life'[s] \in {"new", "live", "dying"}
                            \/ \E u \in Threads : pc'[u] = "stmt_ref_conn" /\ arg'[u] = s /\ Handle(u)' = c
  BY <1>1 DEF StmtInv, Parent
<1> QED BY <1>3, <1>4 DEF StmtInv, Parent

LEMMA ReleaserKept ==
  ASSUME TypeOK, ReleaserInv, NEW t \in Threads, NEW p, Quiet(t, p), fn[t] # "none",
         \A o \in Objs : releaser'[o] \in {releaser[o], NULL} \/ (o \notin Stmts /\ releaser'[o] = t),
         \A s \in Stmts : releaser'[s] # NULL => ref'[Up(s)] = ref[Up(s)]
  PROVE  ReleaserInv'
<1>1. fn' = fn /\ home' = home
  BY QuietFacts
<1>2. \A o \in Objs : releaser'[o] # NULL =>
        /\ fn[releaser'[o]] # "none"
        /\ o \in Stmts => fn[releaser'[o]] \in {"free_stmt", "disconnect"} /\ home[releaser'[o]] = ref'[Up(o)]
  BY DEF ReleaserInv, Parent
<1> QED BY <1>1, <1>2 DEF ReleaserInv, Parent

LEMMA ObjFrame ==
  ASSUME ObjInv, UNCHANGED objVars
  PROVE  ObjInv'
<1>1. ShapeInv'
  BY DEF ObjInv, ShapeInv, objVars, Parent
<1>2. RefcExact'
  BY DEF ObjInv, RefcExact, Refs, objVars
<1>3. NoDanglingRef'
  BY DEF ObjInv, NoDanglingRef, objVars
<1>4. LifeInv'
  BY DEF ObjInv, LifeInv, objVars, Parent
<1> QED BY <1>1, <1>2, <1>3, <1>4 DEF ObjInv

LEMMA AssocFrame ==
  ASSUME AssociationsAgree, UNCHANGED <<ref, asARD, asAPD>>
  PROVE  AssociationsAgree'
  BY DEF AssociationsAgree, Parent

\* The counts, part by part.
ConnsExact == \A e \in Envs : conns[e] = Counted(e, Conns)
DescsExact == \A c \in Conns : descs[c] = Counted(c, Descs)
StmtsExact == \A c \in Conns : nr_stmts[c] = Cardinality(stmts[c])

LEMMA CountParts == CountersExact <=> RefcExact /\ ConnsExact /\ DescsExact /\ StmtsExact
  BY DEF CountersExact, RefcExact, ConnsExact, DescsExact, StmtsExact

LEMMA CountPartsPrime == CountersExact' <=> RefcExact' /\ ConnsExact' /\ DescsExact' /\ StmtsExact'
  BY DEF CountersExact, RefcExact, ConnsExact, DescsExact, StmtsExact

LEMMA CountFrame ==
  ASSUME ConnsExact, DescsExact, UNCHANGED <<conns, descs, ref, life>>
  PROVE  ConnsExact' /\ DescsExact'
  BY DEF ConnsExact, DescsExact, Counted, Parent

-----------------------------------------------------------------------------
(* The steps of a thread that move no reference.                           *)

\* Nothing but the place of the thread and what the connection says of itself.
Moves(t, p) ==
  /\ UNCHANGED <<life, refc, ref, releaser, conns, descs, stmts, asARD, asAPD, fn, home, arg>>
  /\ pc' = [pc EXCEPT ![t] = p] /\ Turn(t, p)

LEMMA MovesQuiet ==
  ASSUME NEW t \in Threads, NEW p, Moves(t, p)
  PROVE  Quiet(t, p)
  BY DEF Moves, Quiet

\* A thread goes on within its call and moves no reference.
LEMMA MoveSteps ==
  ASSUME IInv, NEW t \in Threads, NEW p, Moves(t, p),
         p = "associate_ard" => /\ arg[t] # NULL /\ Parent(arg[t]) = Parent(Handle(t))
                                /\ ref[Ard(Handle(t))] = NULL /\ ref[Apd(Handle(t))] # arg[t],
         p = "associate_apd" => /\ arg[t] # NULL /\ Parent(arg[t]) = Parent(Handle(t))
                                /\ ref[Apd(Handle(t))] = NULL /\ ref[Ard(Handle(t))] # arg[t],
         nr_stmts' \in [Conns -> Int], StmtsExact',
         connected' \in [Conns -> BOOLEAN], outstandings' \in [Conns -> Int], ConnectedInv'
  PROVE  IInv'
<1>0. /\ TypeOK /\ ObjInv /\ ThreadInv /\ CallerInv /\ AssociationsAgree
      /\ StmtInv /\ ReleaserInv /\ ConnectedInv /\ CountersExact
  BY DEF IInv
<1>1. Quiet(t, p)
  BY MovesQuiet
<1>2. UNCHANGED <<life, refc, ref, releaser, conns, descs, stmts, asARD, asAPD, fn, home, arg>>
  BY DEF Moves
<1>3. TypeOK'
  <2>1. pc' = [pc EXCEPT ![t] = p] /\ Turn(t, p)
    BY DEF Moves
  <2>2. p \in {"leave", "post_connect", "disconnect", "executing", "associate_ard", "associate_apd", "drop_own"}
    BY <2>1 DEF Turn
  <2>3. pc' \in [Threads -> Calls \cup
               {"idle", "conn_count", "desc_count", "stmt_ref_conn", "stmt_ready",
                "post_connect", "executing", "associate_ard", "associate_apd",
                "drop_own", "leave", "return"}]
    BY <1>0, <2>1, <2>2 DEF TypeOK, Calls, EndingCalls
  <2> QED BY <1>0, <1>2, <2>3 DEF TypeOK
<1>4. ObjInv'
  BY <1>0, <1>2, ObjFrame DEF objVars
<1>5. ThreadInv' /\ CallerInv'
  <2>1. ref' = ref
    BY <1>2
  <2> QED BY <1>0, <1>1, <2>1, QuietSteps
<1>6. AssociationsAgree'
  BY <1>0, <1>2, AssocFrame
<1>7. StmtInv'
  BY <1>0, <1>1, <1>2, StmtKept
<1>8. ReleaserInv'
  <2>1. fn[t] # "none"
    BY <1>0 DEF ThreadInv, PlaceInv, Moves, Turn
  <2> QED BY <1>0, <1>1, <1>2, <2>1, ReleaserKept
<1>9. CountersExact'
  <2>1. RefcExact'
    BY <1>4 DEF ObjInv
  <2> QED BY <1>0, <1>2, <2>1, CountParts, CountPartsPrime, CountFrame
<1> QED BY <1>3, <1>4, <1>5, <1>6, <1>7, <1>8, <1>9 DEF IInv

\* Of these, the ones that leave the connection alone, too.
LEMMA PlainMoves ==
  ASSUME IInv, NEW t \in Threads, NEW p, Moves(t, p), UNCHANGED <<nr_stmts, connected>>,
         outstandings' \in [Conns -> Int], p \notin {"associate_ard", "associate_apd"},
         p = "drop_own" /\ fn[t] = "free_conn" => ~connected[Handle(t)]
  PROVE  IInv'
<1>1. StmtsExact'
  BY CountParts DEF IInv, Moves, StmtsExact
<1>2. nr_stmts' \in [Conns -> Int] /\ connected' \in [Conns -> BOOLEAN]
  BY DEF IInv, TypeOK
<1>3. ConnectedInv'
  BY MovesQuiet, ConnectedKept DEF IInv, ObjInv, ThreadInv
<1> QED BY <1>1, <1>2, <1>3, MoveSteps

\* A thread that stands inside a call has a live handle.
LEMMA AtFacts ==
  ASSUME ThreadInv, TypeOK, NoDanglingRef, NEW t \in Threads, NEW p, At(t, p), p \notin {"idle", "return"}
  PROVE  Handle(t) # NULL /\ Handle(t) \in Objs /\ life[Handle(t)] = "live" /\ pc[t] = p
  BY HandleLives DEF ThreadInv, PlaceInv, At

LEMMA OutOfMemorySteps ==
  ASSUME IInv, NEW t \in Threads, OutOfMemory(t)
  PROVE  IInv'
<1>1. Moves(t, "leave") /\ UNCHANGED <<nr_stmts, connected, outstandings>>
  BY DEF OutOfMemory, At, GoTo, Moves, Turn, Creating, objVars, listVars, connVars, callVars
<1> QED BY <1>1, PlainMoves DEF IInv, TypeOK

LEMMA ExecSteps ==
  ASSUME IInv, NEW t \in Threads, ExecBegin(t) \/ ExecEnd(t)
  PROVE  IInv'
<1>0. outstandings \in [Conns -> Int]
  BY DEF IInv, TypeOK
<1>a. Parent(Handle(t)) \in Conns
  <2>1. /\ TypeOK /\ ThreadInv /\ NoDanglingRef /\ PlaceInv /\ KindInv /\ ShapeInv /\ LifeInv
    BY DEF IInv, ThreadInv, ObjInv
  <2>2. fn[t] = "exec_direct" /\ Handle(t) # NULL
    BY <2>1 DEF ExecBegin, ExecEnd, At, PlaceInv
  <2>3. Handle(t) \in Stmts /\ life[Handle(t)] = "live"
    BY <2>1, <2>2, HandleLives DEF KindInv
  <2> QED BY <2>1, <2>3, KindFacts DEF ShapeInv, LifeInv
<1>1. CASE ExecBegin(t)
  <2>1. UNCHANGED <<nr_stmts, connected>> /\ outstandings' \in [Conns -> Int]
    <3>1. /\ UNCHANGED <<nr_stmts, connected>>
          /\ outstandings' = [outstandings EXCEPT ![Parent(Handle(t))] = @ + 1]
      BY <1>1 DEF ExecBegin, listVars
    <3> QED BY <1>0, <1>a, <3>1
  <2>2. pc[t] = "exec_direct"
    BY <1>1 DEF ExecBegin, At
  <2>3. Moves(t, "executing")
    BY <1>1, <2>2 DEF ExecBegin, GoTo, Moves, Turn, Creating, objVars, listVars, callVars, IInv, ThreadInv, PlaceInv
  <2> QED BY <2>1, <2>3, PlainMoves
<1>2. CASE ExecEnd(t)
  <2>1. UNCHANGED <<nr_stmts, connected>> /\ outstandings' \in [Conns -> Int]
    <3>1. /\ UNCHANGED <<nr_stmts, connected>>
          /\ outstandings' = [outstandings EXCEPT ![Parent(Handle(t))] = @ - 1]
      BY <1>2 DEF ExecEnd, listVars
    <3> QED BY <1>0, <1>a, <3>1
  <2>2. Moves(t, "leave")
    BY <1>2 DEF ExecEnd, At, GoTo, Moves, Turn, Creating, objVars, listVars, callVars
  <2> QED BY <2>1, <2>2, PlainMoves
<1> QED BY <1>1, <1>2

LEMMA SetDescKeepSteps ==
  ASSUME IInv, NEW t \in Threads, NEW f \in Sets, NEW k, NEW other, SetDescKeep(t, f, k, other)
  PROVE  IInv'
<1>1. Moves(t, "leave") /\ UNCHANGED <<nr_stmts, connected, outstandings>>
  BY DEF SetDescKeep, Sets, At, GoTo, Moves, Turn, Creating, objVars, listVars, connVars, callVars
<1> QED BY <1>1, PlainMoves DEF IInv, TypeOK

LEMMA RefuseOrFree ==
  ASSUME IInv, NEW t \in Threads, env_free(t) \/ conn_free(t)
  PROVE  IInv'
<1>0. UNCHANGED <<nr_stmts, connected, outstandings>> /\ outstandings' \in [Conns -> Int]
  BY DEF env_free, conn_free, listVars, connVars, IInv, TypeOK
<1>1. PlaceInv
  BY DEF IInv, ThreadInv
<1>2. CASE env_free(t)
  <2>1. pc[t] = "free_env" /\ fn[t] = "free_env"
    BY <1>1, <1>2 DEF env_free, At, PlaceInv, Frees
  <2>2. \E p \in {"leave", "drop_own"} : Moves(t, p)
    BY <1>2, <2>1 DEF env_free, GoTo, Moves, Turn, Creating, Frees, objVars, listVars, connVars, callVars
  <2> QED BY <1>0, <2>1, <2>2, PlainMoves
<1>3. CASE conn_free(t)
  <2>1. pc[t] = "free_conn" /\ fn[t] = "free_conn"
    BY <1>1, <1>3 DEF conn_free, At, PlaceInv, Frees
  <2>2. \/ Moves(t, "leave")
        \/ Moves(t, "drop_own") /\ ~connected[Handle(t)]
    BY <1>3, <2>1 DEF conn_free, GoTo, Moves, Turn, Creating, Frees, objVars, listVars, connVars, callVars
  <2>3. CASE Moves(t, "leave")
    BY <1>0, <2>3, PlainMoves
  <2>4. CASE Moves(t, "drop_own") /\ ~connected[Handle(t)]
    BY <1>0, <2>4, PlainMoves
  <2> QED BY <2>2, <2>3, <2>4
<1> QED BY <1>2, <1>3

LEMMA PostConnectSteps ==
  ASSUME IInv, NEW t \in Threads, PostConnect(t)
  PROVE  IInv'
<1>1. UNCHANGED <<nr_stmts, connected, outstandings>> /\ outstandings' \in [Conns -> Int]
  BY DEF PostConnect, listVars, connVars, IInv, TypeOK
<1>2. pc[t] = "post_connect" /\ fn[t] = "connect"
  BY DEF PostConnect, At, IInv, ThreadInv, PlaceInv
<1>3. \E p \in {"leave", "disconnect"} : Moves(t, p)
  BY <1>2 DEF PostConnect, GoTo, Moves, Turn, Creating, objVars, listVars, connVars, callVars
<1> QED BY <1>1, <1>3, PlainMoves

\* The connection that is connected keeps its handle: the thread is not there to free it.
LEMMA TaosConnectSteps ==
  ASSUME IInv, NEW t \in Threads, TaosConnect(t)
  PROVE  IInv'
<1>0. /\ TypeOK /\ NoDanglingRef /\ KindInv /\ PlaceInv /\ ExclInv /\ OwnInv /\ ConnectedInv
      /\ UNCHANGED <<nr_stmts, outstandings>> /\ outstandings' \in [Conns -> Int]
  BY DEF IInv, ObjInv, ThreadInv, CallerInv, TaosConnect, listVars, TypeOK
<1>1. pc[t] = "connect" /\ fn[t] = "connect" /\ Handle(t) # NULL /\ Handle(t) \in Conns
  BY <1>0 DEF TaosConnect, At, PlaceInv, KindInv
<1>2. CASE GoTo(t, "leave") /\ UNCHANGED connected
  <2>1. Moves(t, "leave")
    BY <1>1, <1>2 DEF TaosConnect, GoTo, Moves, Turn, Creating, objVars, listVars, callVars
  <2> QED BY <1>0, <1>2, <2>1, PlainMoves
<1>3. CASE GoTo(t, "post_connect") /\ connected' = [connected EXCEPT ![Handle(t)] = TRUE]
  <2>1. Moves(t, "post_connect")
    BY <1>1, <1>3 DEF TaosConnect, GoTo, Moves, Turn, Creating, objVars, listVars, callVars
  <2>2. connected' \in [Conns -> BOOLEAN]
    BY <1>0, <1>3 DEF TypeOK
  <2>3. ref' = ref /\ fn' = fn /\ stmts' = stmts /\ pc' = [pc EXCEPT ![t] = "post_connect"] /\ DOMAIN pc = Threads
    BY <1>0, <2>1 DEF Moves, TypeOK
  <2>4. \A c \in Conns : c # Handle(t) => connected'[c] = connected[c]
    BY <1>0, <1>3 DEF TypeOK
  <2>5. connected'[Handle(t)] = TRUE
    BY <1>0, <1>1, <1>3 DEF TypeOK
  <2>6. ref[App(Handle(t))] = Handle(t)
    BY <1>0, <1>1 DEF OwnInv, Frees
  <2>7. \A u \in Threads : u # t /\ fn[u] = "free_conn" => Handle(u) # Handle(t)
    BY <1>0, <1>1 DEF ExclInv, EndingCalls, Uses
  <2>8. \A u \in Threads : u # t /\ fn[u] = "connect" => Handle(u) # Handle(t)
    BY <1>0, <1>1 DEF ConnectedInv
  <2>9. ConnectedInv'
    <3>1. \A c \in Conns : connected'[c] => ref'[App(c)] = c
      BY <1>0, <2>3, <2>4, <2>6 DEF ConnectedInv
    <3>2. \A c \in Conns : stmts'[c] # {} => connected'[c]
      BY <1>0, <2>3, <2>4, <2>5 DEF ConnectedInv
    <3>3. ASSUME NEW u \in Threads, Handle(u) # NULL
          PROVE  /\ fn[u] = "alloc_stmt" => connected'[Handle(u)]
                 /\ pc'[u] = "drop_own" /\ fn[u] = "free_conn" => ~connected'[Handle(u)]
                 /\ fn[u] = "connect" =>
                      /\ stmts[Handle(u)] = {}
                      /\ pc'[u] = "connect" => ~connected'[Handle(u)]
                      /\ \A v \in Threads : Handle(v) = Handle(u) /\ v # u =>
                           fn[v] \notin {"alloc_stmt", "connect", "disconnect"}
      <4>1. fn[u] \in {"alloc_stmt", "free_conn", "connect"} => Handle(u) \in Conns
        BY <1>0, <3>3 DEF KindInv
      <4>2. u # t => pc'[u] = pc[u]
        BY <2>3
      <4>3. pc'[t] = "post_connect"
        BY <2>3
      <4>4. fn[u] = "alloc_stmt" => connected'[Handle(u)]
        BY <1>0, <2>4, <2>5, <3>3, <4>1 DEF ConnectedInv
      <4>5. pc'[u] = "drop_own" /\ fn[u] = "free_conn" => ~connected'[Handle(u)]
        BY <1>0, <2>4, <2>7, <3>3, <4>1, <4>2, <4>3 DEF ConnectedInv
      <4>6. fn[u] = "connect" /\ pc'[u] = "connect" => ~connected'[Handle(u)]
        BY <1>0, <2>4, <2>8, <3>3, <4>1, <4>2, <4>3 DEF ConnectedInv
      <4>7. fn[u] = "connect" => /\ stmts[Handle(u)] = {}
                                 /\ \A v \in Threads : Handle(v) = Handle(u) /\ v # u =>
                                      fn[v] \notin {"alloc_stmt", "connect", "disconnect"}
        BY <1>0, <3>3 DEF ConnectedInv
      <4> QED BY <4>4, <4>5, <4>6, <4>7
    <3>4. \A u \in Threads : Handle(u)' = Handle(u)
      BY <2>3 DEF Handle
    <3> QED BY <2>3, <3>1, <3>2, <3>3, <3>4 DEF ConnectedInv
  <2>10. StmtsExact'
    BY <1>0, <2>3, CountParts DEF IInv, StmtsExact
  <2>11. nr_stmts' \in [Conns -> Int]
    BY <1>0 DEF TypeOK
  <2> QED BY <1>0, <2>1, <2>2, <2>9, <2>10, <2>11, MoveSteps
<1> QED BY <1>2, <1>3 DEF TaosConnect

\* Nothing is left in the list, and nobody puts anything into it.
LEMMA DisconnectCloseSteps ==
  ASSUME IInv, NEW t \in Threads, DisconnectClose(t)
  PROVE  IInv'
<1>0. /\ TypeOK /\ NoDanglingRef /\ KindInv /\ PlaceInv /\ HomeInv /\ ListInv /\ ConnectedInv
      /\ outstandings' \in [Conns -> Int]
  BY DEF IInv, ObjInv, ThreadInv, CallerInv, DisconnectClose, TypeOK
<1>1. /\ pc[t] = "disconnect" /\ fn[t] \in {"connect", "disconnect"}
      /\ Handle(t) # NULL /\ Handle(t) \in Conns
  BY <1>0 DEF DisconnectClose, At, PlaceInv, KindInv
<1>2. Moves(t, "leave")
  BY <1>1 DEF DisconnectClose, GoTo, Moves, Turn, Creating, objVars, callVars
<1>3. /\ nr_stmts' = [nr_stmts EXCEPT ![Handle(t)] = 0]
      /\ connected' = [connected EXCEPT ![Handle(t)] = FALSE]
      /\ stmts[Handle(t)] = {}
  BY DEF DisconnectClose
<1>4. nr_stmts' \in [Conns -> Int] /\ connected' \in [Conns -> BOOLEAN]
  <2>1. nr_stmts \in [Conns -> Int] /\ connected \in [Conns -> BOOLEAN]
    BY <1>0 DEF TypeOK
  <2>2. nr_stmts' = [nr_stmts EXCEPT ![Handle(t)] = 0] /\ 0 \in Int
    BY <1>3
  <2>3. nr_stmts' \in [Conns -> Int]
    BY <2>1, <2>2
  <2>4. connected' = [connected EXCEPT ![Handle(t)] = FALSE]
    BY <1>3
  <2>5. connected' \in [Conns -> BOOLEAN]
    BY <2>1, <2>4
  <2> QED BY <2>3, <2>5
<1>5. ref' = ref /\ fn' = fn /\ stmts' = stmts /\ pc' = [pc EXCEPT ![t] = "leave"] /\ DOMAIN pc = Threads
  BY <1>0, <1>2 DEF Moves, TypeOK
<1>6. StmtsExact'
  <2>1. StmtsExact
    BY CountParts DEF IInv
  <2>2. \A c \in Conns : nr_stmts'[c] = Cardinality(stmts[c])
    BY <1>0, <1>3, <2>1, FS_EmptySet DEF StmtsExact, TypeOK
  <2> QED BY <1>5, <2>2 DEF StmtsExact
<1>7. \A c \in Conns : connected'[c] <=> connected[c] /\ c # Handle(t)
  BY <1>0, <1>3 DEF TypeOK
<1>8. \A u \in Threads : fn[u] = "alloc_stmt" => Handle(u) # Handle(t)
  <2> SUFFICES ASSUME NEW u \in Threads, fn[u] = "alloc_stmt", Handle(u) = Handle(t) PROVE FALSE
    OBVIOUS
  <2>1. CASE fn[t] = "connect"
    <3>1. u # t
      BY <2>1
    <3> QED BY <1>0, <1>1, <2>1, <3>1 DEF ConnectedInv
  <2>2. CASE fn[t] = "disconnect"
    <3>1. u # t /\ {fn[u], fn[t]} \subseteq ListCalls
      BY <2>2 DEF ListCalls
    <3>2. home[u] = home[t]
      BY <1>0, <1>1 DEF HomeInv
    <3> QED BY <1>0, <3>1, <3>2 DEF ListInv
  <2> QED BY <1>1, <2>1, <2>2
<1>9. ConnectedInv'
  <2>1. \A c \in Conns : connected'[c] => ref'[App(c)] = c
    BY <1>0, <1>5, <1>7 DEF ConnectedInv
  <2>2. \A c \in Conns : stmts'[c] # {} => connected'[c]
    BY <1>0, <1>3, <1>5, <1>7 DEF ConnectedInv
  <2>3. ASSUME NEW u \in Threads, Handle(u) # NULL
        PROVE  /\ fn[u] = "alloc_stmt" => connected'[Handle(u)]
               /\ pc'[u] = "drop_own" /\ fn[u] = "free_conn" => ~connected'[Handle(u)]
               /\ fn[u] = "connect" =>
                    /\ stmts[Handle(u)] = {}
                    /\ pc'[u] = "connect" => ~connected'[Handle(u)]
                    /\ \A v \in Threads : Handle(v) = Handle(u) /\ v # u =>
                         fn[v] \notin {"alloc_stmt", "connect", "disconnect"}
    <3>1. fn[u] \in {"alloc_stmt", "free_conn", "connect"} => Handle(u) \in Conns
      BY <1>0, <2>3 DEF KindInv
    <3>2. u # t => pc'[u] = pc[u]
      BY <1>5
    <3>3. pc'[t] = "leave"
      BY <1>5
    <3>4. fn[u] = "alloc_stmt" => connected'[Handle(u)]
      BY <1>0, <1>7, <1>8, <2>3, <3>1 DEF ConnectedInv
    <3>5. pc'[u] = "drop_own" /\ fn[u] = "free_conn" => ~connected'[Handle(u)]
      BY <1>0, <1>7, <2>3, <3>1, <3>2, <3>3 DEF ConnectedInv
    <3>6. fn[u] = "connect" /\ pc'[u] = "connect" => ~connected'[Handle(u)]
      BY <1>0, <1>7, <2>3, <3>1, <3>2, <3>3 DEF ConnectedInv
    <3>7. fn[u] = "connect" => /\ stmts[Handle(u)] = {}
                               /\ \A v \in Threads : Handle(v) = Handle(u) /\ v # u =>
                                    fn[v] \notin {"alloc_stmt", "connect", "disconnect"}
      BY <1>0, <2>3 DEF ConnectedInv
    <3> QED BY <3>4, <3>5, <3>6, <3>7
  <2>4. \A u \in Threads : Handle(u)' = Handle(u)
    BY <1>5 DEF Handle
  <2> QED BY <1>5, <2>1, <2>2, <2>3, <2>4 DEF ConnectedInv
<1> QED BY <1>0, <1>2, <1>4, <1>6, <1>9, MoveSteps

-----------------------------------------------------------------------------
(* What an unref does to the objects.                                      *)

LEMMA LastRef ==
  ASSUME RefcExact, NEW k \in Slots, NEW o \in Objs, ref[k] = o, \A j \in Slots : ref[j] = o => j = k
  PROVE  refc[o] = 1
<1>1. RefsOf(ref, o) = {k}
  BY DEF RefsOf
<1>2. refc[o] = Cardinality(RefsOf(ref, o))
  BY DEF RefcExact, Refs, RefsOf
<1> QED BY <1>1, <1>2, FS_Singleton

\* What an unref has to leave for the objects to stay as they should be.
LEMMA DropObj ==
  ASSUME TypeOK, ObjInv, NEW t \in Threads, NEW k \in Slots, ref[k] # NULL, NEW lf, NEW rl,
         lf \in [Objs -> {"none", "new", "live", "dying", "leaving"}],
         rl \in [Objs -> Threads \cup {NULL}],
         DropFrom(t, k, lf, rl),
         \A o \in Objs : rl[o] # NULL <=> lf[o] \in {"dying", "leaving"},
         \A o \in Objs : lf[o] = "live" <=> life[o] = "live",
         \A e \in Envs : lf[e] \notin {"new", "leaving"},
         \A o \in Objs \ Envs : lf[o] = "none" => Parent(o) = NULL \/ k = Up(o),
         \A o \in Objs \ Envs : lf[o] \in {"live", "dying", "leaving"} => Parent(o) # NULL /\ k # Up(o),
         \A s \in Stmts : lf[s] \in {"none", "new"} => ref[Ard(s)] = NULL /\ ref[Apd(s)] = NULL
  PROVE  ObjInv'
<1>0. /\ ShapeInv /\ RefcExact /\ NoDanglingRef /\ LifeInv
      /\ ref \in [Slots -> Objs \cup {NULL}]
  BY DEF ObjInv, TypeOK
<1>1. /\ RefcExact' /\ Dropped(t, k, lf, rl)
      /\ ref' \in [Slots -> Objs \cup {NULL}]
      /\ \A p \in Objs : p # ref[k] => refc'[p] = refc[p]
      /\ refc'[ref[k]] = refc[ref[k]] - 1
  BY <1>0, DropCount
<1>2. ref' = [ref EXCEPT ![k] = NULL]
  BY <1>1 DEF Dropped
<1>3. ref'[k] = NULL /\ \A j \in Slots : j # k => ref'[j] = ref[j]
  BY <1>0, <1>2
<1>4. \A j \in Slots : ref'[j] \in {ref[j], NULL}
  BY <1>3
<1>5. ref[k] \in Objs /\ life[ref[k]] = "live" /\ lf[ref[k]] = "live"
  BY <1>0 DEF NoDanglingRef
<1>6. ShapeInv'
  <2>1. \A o \in Objs : ref'[App(o)] \in {o, NULL}
    BY <1>0, <1>4, SlotFacts DEF ShapeInv
  <2>2. \A c \in Conns : ref'[Up(c)] \in Envs \cup {NULL}
    BY <1>0, <1>4, SlotFacts, KindFacts DEF ShapeInv, Parent
  <2>3. \A o \in Stmts \cup Descs : ref'[Up(o)] \in Conns \cup {NULL}
    BY <1>0, <1>4, SlotFacts, KindFacts DEF ShapeInv, Parent
  <2>4. \A s \in Stmts : ref'[Ard(s)] \in Descs \cup {NULL} /\ ref'[Apd(s)] \in Descs \cup {NULL}
    BY <1>0, <1>4, SlotFacts DEF ShapeInv
  <2> QED BY <2>1, <2>2, <2>3, <2>4 DEF ShapeInv, Parent
<1>7. NoDanglingRef'
  <2>1. \A p \in Objs : (\E j \in Slots : j # k /\ ref[j] = p) => lf[p] = "live"
    BY <1>0, KindFacts DEF NoDanglingRef
  <2> QED BY <1>0, <1>1, <2>1, DropSafe
<1>8. LifeInv'
  <2>1. \A o \in Objs : \/ life'[o] = lf[o] /\ releaser'[o] = rl[o]
                        \/ o = ref[k] /\ life'[o] = "dying" /\ releaser'[o] = t
    BY <1>1 DEF Dropped
  <2>2. \A u \in Threads, o \in Objs : releaser'[o] = u => u # NULL \/ releaser'[o] = NULL
    OBVIOUS
  <2>3. t # NULL
    BY ConstAssumption
  <2>4. \A o \in Objs : releaser'[o] # NULL <=> life'[o] \in {"dying", "leaving"}
    BY <2>1, <2>3
  <2>5. \A o \in Objs : life'[o] = "live" => refc'[o] # 0
    <3>1. \A o \in Objs : life[o] = "live" => refc[o] # 0 /\ refc[o] \in Nat
      BY <1>0, RefcFacts DEF LifeInv
    <3>2. refc[ref[k]] = 1 => life'[ref[k]] = "dying"
      BY <1>1 DEF Dropped
    <3> QED BY <1>1, <1>5, <2>1, <3>1, <3>2
  <2>6. \A e \in Envs : life'[e] \notin {"new", "leaving"}
    BY <2>1, KindFacts
  <2>7. \A o \in Objs \ Envs : life'[o] = "none" => ref'[Up(o)] = NULL
    BY <1>3, <2>1, SlotFacts DEF Parent
  <2>8. \A o \in Objs \ Envs : life'[o] \in {"live", "dying", "leaving"} => ref'[Up(o)] # NULL
    BY <1>3, <1>5, <2>1, SlotFacts DEF Parent
  <2>9. \A s \in Stmts : life'[s] \in {"none", "new"} => ref'[Ard(s)] = NULL /\ ref'[Apd(s)] = NULL
    BY <1>4, <2>1, SlotFacts, KindFacts
  <2> QED BY <2>4, <2>5, <2>6, <2>7, <2>8, <2>9 DEF LifeInv, Parent
<1> QED BY <1>1, <1>6, <1>7, <1>8 DEF ObjInv

\* A reference that is not an object's pointer to its parent.
DropPlain(t, k) ==
  /\ k \in Slots /\ ref[k] # NULL /\ \A o : k # Up(o)
  /\ Drop(t, k)

\* The unref of a slot that is no pointer to a parent needs nothing else.
LEMMA DropPlainObj ==
  ASSUME TypeOK, ObjInv, NEW t \in Threads, NEW k, DropPlain(t, k)
  PROVE  /\ ObjInv' /\ Dropped(t, k, life, releaser)
         /\ ref' \in [Slots -> Objs \cup {NULL}] /\ refc' \in [Objs -> Int]
         /\ life' \in [Objs -> {"none", "new", "live", "dying", "leaving"}]
         /\ releaser' \in [Objs -> Threads \cup {NULL}]
         /\ ref'[k] = NULL /\ \A j \in Slots : j # k => ref'[j] = ref[j]
         /\ \A o \in Objs : \/ life'[o] = life[o] /\ releaser'[o] = releaser[o]
                            \/ /\ o = ref[k] /\ life[o] = "live" /\ life'[o] = "dying" /\ releaser'[o] = t
                               /\ \A j \in Slots : ref[j] = o => j = k
         /\ life'[ref[k]] = "live" => \E j \in Slots : j # k /\ ref[j] = ref[k]
<1>0. /\ k \in Slots /\ ref[k] # NULL /\ DropFrom(t, k, life, releaser) /\ \A o : k # Up(o)
      /\ ShapeInv /\ RefcExact /\ NoDanglingRef /\ LifeInv
      /\ life \in [Objs -> {"none", "new", "live", "dying", "leaving"}]
      /\ releaser \in [Objs -> Threads \cup {NULL}] /\ ref \in [Slots -> Objs \cup {NULL}]
  BY DEF DropPlain, Drop, ObjInv, TypeOK
<1>1. ObjInv'
  BY <1>0, DropObj DEF LifeInv
<1>2. /\ Dropped(t, k, life, releaser)
      /\ ref' \in [Slots -> Objs \cup {NULL}] /\ refc' \in [Objs -> Int]
      /\ life' \in [Objs -> {"none", "new", "live", "dying", "leaving"}]
      /\ releaser' \in [Objs -> Threads \cup {NULL}]
  BY <1>0, DropCount
<1>3. ref' = [ref EXCEPT ![k] = NULL]
  BY <1>2 DEF Dropped
<1>4. ref'[k] = NULL /\ \A j \in Slots : j # k => ref'[j] = ref[j]
  BY <1>0, <1>3
<1>5. ref[k] \in Objs /\ life[ref[k]] = "live"
  BY <1>0 DEF NoDanglingRef
<1>6. life'[ref[k]] = "live" => \E j \in Slots : j # k /\ ref[j] = ref[k]
  <2>1. refc[ref[k]] = 1 => life'[ref[k]] = "dying"
    BY <1>2 DEF Dropped
  <2> QED BY <1>0, <1>5, <2>1, LastRef
<1>7. \A o \in Objs : \/ life'[o] = life[o] /\ releaser'[o] = releaser[o]
                      \/ /\ o = ref[k] /\ life[o] = "live" /\ life'[o] = "dying" /\ releaser'[o] = t
                         /\ \A j \in Slots : ref[j] = o => j = k
  BY <1>2, <1>5 DEF Dropped
<1> QED BY <1>1, <1>2, <1>4, <1>6, <1>7

-----------------------------------------------------------------------------
(* Associations and counts, when no pointer they look at moves.            *)

\* Associations agree as long as no pointer of theirs moves.
LEMMA AssocKept ==
  ASSUME AssociationsAgree, asARD' = asARD, asAPD' = asAPD,
         \A s \in Stmts : ref'[Ard(s)] = ref[Ard(s)] /\ ref'[Apd(s)] = ref[Apd(s)],
         \A o \in Stmts \cup Descs : (\E s \in Stmts, d \in Descs : o \in {s, d} /\ d \in {ref[Ard(s)], ref[Apd(s)]})
                                       => ref'[Up(o)] = ref[Up(o)]
  PROVE  AssociationsAgree'
<1>1. ASSUME NEW s \in Stmts, NEW d \in Descs
      PROVE  /\ s \in asARD[d] <=> ref'[Ard(s)] = d
             /\ s \in asAPD[d] <=> ref'[Apd(s)] = d
             /\ d \in {ref'[Ard(s)], ref'[Apd(s)]} => ref'[Up(s)] = ref'[Up(d)]
             /\ ~(s \in asARD[d] /\ s \in asAPD[d])
  <2>1. /\ s \in asARD[d] <=> ref[Ard(s)] = d
        /\ s \in asAPD[d] <=> ref[Apd(s)] = d
        /\ d \in {ref[Ard(s)], ref[Apd(s)]} => ref[Up(s)] = ref[Up(d)]
        /\ ~(s \in asARD[d] /\ s \in asAPD[d])
    BY DEF AssociationsAgree, Parent
  <2>2. ref'[Ard(s)] = ref[Ard(s)] /\ ref'[Apd(s)] = ref[Apd(s)]
    OBVIOUS
  <2>3. d \in {ref[Ard(s)], ref[Apd(s)]} => ref'[Up(s)] = ref[Up(s)] /\ ref'[Up(d)] = ref[Up(d)]
    OBVIOUS
  <2> QED BY <2>1, <2>2, <2>3
<1> QED BY <1>1 DEF AssociationsAgree, Parent

\* Whom a parent counts, with life and pointers as parameters.
CountedIn(f, lf, p, kids) == {o \in kids : f[Up(o)] = p /\ lf[o] \in {"live", "dying"}}

\* The counters, in terms of the objects they count.
LEMMA CountedFacts ==
  /\ ConnsExact <=> \A e \in Envs : conns[e] = Cardinality(CountedIn(ref, life, e, Conns))
  /\ DescsExact <=> \A c \in Conns : descs[c] = Cardinality(CountedIn(ref, life, c, Descs))
  /\ ConnsExact' <=> \A e \in Envs : conns'[e] = Cardinality(CountedIn(ref', life', e, Conns))
  /\ DescsExact' <=> \A c \in Conns : descs'[c] = Cardinality(CountedIn(ref', life', c, Descs))
  BY DEF ConnsExact, DescsExact, Counted, CountedIn, Parent

LEMMA KidsFinite ==
  /\ \A f, lf, p : IsFiniteSet(CountedIn(f, lf, p, Conns)) /\ IsFiniteSet(CountedIn(f, lf, p, Descs))
  /\ \A S \in SUBSET Stmts : IsFiniteSet(S) /\ Cardinality(S) \in Nat
<1>1. IsFiniteSet(Objs)
  BY ConstAssumption
<1>2. \A S \in SUBSET Objs : IsFiniteSet(S) /\ Cardinality(S) \in Nat
  BY <1>1, FS_Subset, FS_CardinalityType
<1>3. \A f, lf, p : CountedIn(f, lf, p, Conns) \in SUBSET Objs /\ CountedIn(f, lf, p, Descs) \in SUBSET Objs
  BY KindFacts DEF CountedIn
<1>4. \A S \in SUBSET Stmts : S \in SUBSET Objs
  BY KindFacts
<1> QED BY <1>2, <1>3, <1>4

\* An object that is counted, or is not, before and after.
LEMMA ConnsKept ==
  ASSUME ConnsExact, conns' = conns,
         \A c \in Conns : life'[c] \in {"live", "dying"} <=> life[c] \in {"live", "dying"},
         \A c \in Conns : life[c] \in {"live", "dying"} => ref'[Up(c)] = ref[Up(c)]
  PROVE  ConnsExact'
<1>1. \A e \in Envs : CountedIn(ref', life', e, Conns) = CountedIn(ref, life, e, Conns)
  BY DEF CountedIn
<1> QED BY <1>1, CountedFacts

LEMMA DescsKept ==
  ASSUME DescsExact, descs' = descs,
         \A d \in Descs : life'[d] \in {"live", "dying"} <=> life[d] \in {"live", "dying"},
         \A d \in Descs : life[d] \in {"live", "dying"} => ref'[Up(d)] = ref[Up(d)]
  PROVE  DescsExact'
<1>1. \A c \in Conns : CountedIn(ref', life', c, Descs) = CountedIn(ref, life, c, Descs)
  BY DEF CountedIn
<1> QED BY <1>1, CountedFacts

LEMMA StmtsCountKept ==
  ASSUME StmtsExact, stmts' = stmts, nr_stmts' = nr_stmts
  PROVE  StmtsExact'
  BY DEF StmtsExact

-----------------------------------------------------------------------------
(* A statement loses an explicit descriptor.                               *)

LEMMA PcType ==
  ASSUME TypeOK, NEW t \in Threads, NEW p, p = pc[t] \/ Turn(t, p), pc' = [pc EXCEPT ![t] = p]
  PROVE  pc' \in [Threads -> Calls \cup
               {"idle", "conn_count", "desc_count", "stmt_ref_conn", "stmt_ready",
                "post_connect", "executing", "associate_ard", "associate_apd",
                "drop_own", "leave", "return"}]
<1>1. p \in {"leave", "post_connect", "disconnect", "executing", "associate_ard", "associate_apd", "drop_own", pc[t]}
  BY DEF Turn
<1> QED BY <1>1 DEF TypeOK, Calls, EndingCalls

Dissociates(t, s, p) ==
  /\ \/ ref[Ard(s)] # NULL /\ stmt_dissociate_ARD(t, s)
     \/ ref[Apd(s)] # NULL /\ stmt_dissociate_APD(t, s)
  /\ pc' = [pc EXCEPT ![t] = p]
  /\ UNCHANGED <<conns, descs, stmts, nr_stmts, connVars, callVars>>

\* One of the two slots is empty afterwards, the list of its descriptor shorter.
LEMMA DissociateFacts ==
  ASSUME IInv, NEW t \in Threads, NEW s \in Stmts, NEW p, Dissociates(t, s, p)
  PROVE  \E k \in {Ard(s), Apd(s)} :
           /\ DropPlain(t, k) /\ ref[k] \in Descs
           /\ asARD' = IF k = Ard(s) THEN [asARD EXCEPT ![ref[k]] = @ \ {s}] ELSE asARD
           /\ asAPD' = IF k = Apd(s) THEN [asAPD EXCEPT ![ref[k]] = @ \ {s}] ELSE asAPD
<1>1. ShapeInv
  BY DEF IInv, ObjInv
<1>2. CASE ref[Ard(s)] # NULL /\ stmt_dissociate_ARD(t, s)
  <2>1. ref[Ard(s)] \in Descs
    BY <1>1, <1>2 DEF ShapeInv
  <2>2. DropPlain(t, Ard(s))
    BY <1>2, SlotFacts, SlotsDiffer DEF DropPlain, stmt_dissociate_ARD
  <2>3. Ard(s) # Apd(s)
    BY SlotsDiffer
  <2> QED BY <1>2, <2>1, <2>2, <2>3 DEF stmt_dissociate_ARD
<1>3. CASE ref[Apd(s)] # NULL /\ stmt_dissociate_APD(t, s)
  <2>1. ref[Apd(s)] \in Descs
    BY <1>1, <1>3 DEF ShapeInv
  <2>2. DropPlain(t, Apd(s))
    BY <1>3, SlotFacts, SlotsDiffer DEF DropPlain, stmt_dissociate_APD
  <2>3. Ard(s) # Apd(s)
    BY SlotsDiffer
  <2> QED BY <1>3, <2>1, <2>2, <2>3 DEF stmt_dissociate_APD
<1> QED BY <1>2, <1>3 DEF Dissociates

\* A dissociation, in whichever call or release it happens.
LEMMA DissociateSteps ==
  ASSUME IInv, NEW t \in Threads, NEW s \in Stmts, NEW p, Dissociates(t, s, p), fn[t] # "none",
         p = pc[t] \/ (Turn(t, p) /\ p # "drop_own"),
         p = "associate_ard" => /\ arg[t] # NULL /\ Parent(arg[t]) = Parent(Handle(t))
                                /\ ref'[Ard(Handle(t))] = NULL /\ ref[Apd(Handle(t))] # arg[t],
         p = "associate_apd" => /\ arg[t] # NULL /\ Parent(arg[t]) = Parent(Handle(t))
                                /\ ref'[Apd(Handle(t))] = NULL /\ ref[Ard(Handle(t))] # arg[t]
  PROVE  IInv'
<1>0. /\ TypeOK /\ ObjInv /\ ThreadInv /\ CallerInv /\ AssociationsAgree
      /\ StmtInv /\ ReleaserInv /\ ConnectedInv /\ CountersExact /\ NoDanglingRef /\ KindInv
  BY DEF IInv, ObjInv, ThreadInv
<1>1. PICK k \in {Ard(s), Apd(s)} :
        /\ DropPlain(t, k) /\ ref[k] \in Descs
        /\ asARD' = IF k = Ard(s) THEN [asARD EXCEPT ![ref[k]] = @ \ {s}] ELSE asARD
        /\ asAPD' = IF k = Apd(s) THEN [asAPD EXCEPT ![ref[k]] = @ \ {s}] ELSE asAPD
  BY DissociateFacts
<1>2. /\ pc' = [pc EXCEPT ![t] = p] /\ UNCHANGED <<conns, descs, stmts, nr_stmts>>
      /\ connected' = connected /\ outstandings' = outstandings /\ fn' = fn /\ home' = home /\ arg' = arg
  BY DEF Dissociates, connVars, callVars
<1>3. /\ ObjInv' /\ Dropped(t, k, life, releaser)
      /\ ref' \in [Slots -> Objs \cup {NULL}] /\ refc' \in [Objs -> Int]
      /\ life' \in [Objs -> {"none", "new", "live", "dying", "leaving"}]
      /\ releaser' \in [Objs -> Threads \cup {NULL}]
      /\ ref'[k] = NULL /\ \A j \in Slots : j # k => ref'[j] = ref[j]
  BY <1>0, <1>1, DropPlainObj
<1>4. \A o \in Objs : \/ life'[o] = life[o] /\ releaser'[o] = releaser[o]
                      \/ o = ref[k] /\ life[o] = "live" /\ life'[o] = "dying" /\ releaser'[o] = t
  BY <1>0, <1>1, DropPlainObj
<1>5. \A x : k # App(x) /\ k # Api(x) /\ k # Up(x)
  BY <1>1, SlotsDiffer
<1>6. Quiet(t, p)
  <2>1. \A u \in Threads : ref'[Api(u)] = ref[Api(u)]
    BY <1>3, <1>5, SlotFacts
  <2>2. \A o \in Objs : ref'[App(o)] = ref[App(o)]
    BY <1>3, <1>5, SlotFacts
  <2>3. \A o \in Objs : o \notin Envs => ref'[Up(o)] = ref[Up(o)]
    BY <1>3, <1>5, SlotFacts
  <2>4. \A o \in Objs : life'[o] = "new" <=> life[o] = "new"
    BY <1>4
  <2>5. \A r \in Stmts : ref'[Ard(r)] \in {ref[Ard(r)], NULL} /\ ref'[Apd(r)] \in {ref[Apd(r)], NULL}
    BY <1>3, SlotFacts
  <2> QED BY <1>2, <2>1, <2>2, <2>3, <2>4, <2>5 DEF Quiet
<1>7. TypeOK'
  <2>1. pc' \in [Threads -> Calls \cup
               {"idle", "conn_count", "desc_count", "stmt_ref_conn", "stmt_ready",
                "post_connect", "executing", "associate_ard", "associate_apd",
                "drop_own", "leave", "return"}]
    BY <1>0, <1>2, PcType
  <2>2. asARD' \in [Descs -> SUBSET Stmts] /\ asAPD' \in [Descs -> SUBSET Stmts]
    BY <1>0, <1>1 DEF TypeOK
  <2> QED BY <1>0, <1>2, <1>3, <2>1, <2>2 DEF TypeOK
<1>8. ThreadInv' /\ CallerInv'
  <2>1. Apd(Handle(t)) # Ard(Handle(t))
    BY SlotsDiffer
  <2> QED BY <1>0, <1>6, QuietSteps
<1>9. \A o \in Objs : o \notin Envs => ref'[Up(o)] = ref[Up(o)]
  BY <1>3, <1>5, SlotFacts
<1>10. AssociationsAgree'
  <2> SUFFICES ASSUME NEW r \in Stmts, NEW d \in Descs
               PROVE  /\ r \in asARD'[d] <=> ref'[Ard(r)] = d
                      /\ r \in asAPD'[d] <=> ref'[Apd(r)] = d
                      /\ d \in {ref'[Ard(r)], ref'[Apd(r)]} => ref'[Up(r)] = ref'[Up(d)]
                      /\ ~(r \in asARD'[d] /\ r \in asAPD'[d])
    BY DEF AssociationsAgree, Parent
  <2>1. /\ r \in asARD[d] <=> ref[Ard(r)] = d
        /\ r \in asAPD[d] <=> ref[Apd(r)] = d
        /\ d \in {ref[Ard(r)], ref[Apd(r)]} => ref[Up(r)] = ref[Up(d)]
        /\ ~(r \in asARD[d] /\ r \in asAPD[d])
    BY <1>0 DEF AssociationsAgree, Parent
  <2>2. d # NULL /\ ref'[Up(r)] = ref[Up(r)] /\ ref'[Up(d)] = ref[Up(d)]
    BY <1>9, KindFacts
  <2>3. r \in asARD'[d] <=> ref'[Ard(r)] = d
    <3>1. CASE k = Ard(s)
      <4>1. asARD' = [asARD EXCEPT ![ref[k]] = @ \ {s}] /\ asARD \in [Descs -> SUBSET Stmts]
        BY <1>0, <1>1, <3>1 DEF TypeOK
      <4>2. r \in asARD'[d] <=> r \in asARD[d] /\ ~(d = ref[k] /\ r = s)
        BY <1>1, <4>1
      <4>3. Ard(r) = k <=> r = s
        BY <3>1, SlotsDiffer
      <4>4. Ard(r) \in Slots
        BY SlotFacts
      <4> QED BY <1>3, <2>1, <2>2, <4>2, <4>3, <4>4
    <3>2. CASE k = Apd(s)
      <4>1. Ard(r) \in Slots /\ Ard(r) # k /\ k # Ard(s)
        BY <3>2, SlotFacts, SlotsDiffer
      <4> QED BY <1>1, <1>3, <2>1, <4>1
    <3> QED BY <3>1, <3>2
  <2>4. r \in asAPD'[d] <=> ref'[Apd(r)] = d
    <3>1. CASE k = Apd(s)
      <4>1. asAPD' = [asAPD EXCEPT ![ref[k]] = @ \ {s}] /\ asAPD \in [Descs -> SUBSET Stmts]
        BY <1>0, <1>1, <3>1 DEF TypeOK
      <4>2. r \in asAPD'[d] <=> r \in asAPD[d] /\ ~(d = ref[k] /\ r = s)
        BY <1>1, <4>1
      <4>3. Apd(r) = k <=> r = s
        BY <3>1, SlotsDiffer
      <4>4. Apd(r) \in Slots
        BY SlotFacts
      <4> QED BY <1>3, <2>1, <2>2, <4>2, <4>3, <4>4
    <3>2. CASE k = Ard(s)
      <4>1. Apd(r) \in Slots /\ Apd(r) # k /\ k # Apd(s)
        BY <3>2, SlotFacts, SlotsDiffer
      <4> QED BY <1>1, <1>3, <2>1, <4>1
    <3> QED BY <3>1, <3>2
  <2>5. ref'[Ard(r)] \in {ref[Ard(r)], NULL} /\ ref'[Apd(r)] \in {ref[Apd(r)], NULL}
    BY <1>3, SlotFacts
  <2> QED BY <2>1, <2>2, <2>3, <2>4, <2>5
<1>11. StmtInv'
  <2>1. \A r \in Stmts : life'[r] = life[r] /\ ref'[Up(r)] = ref[Up(r)]
    BY <1>1, <1>4, <1>9, KindFacts
  <2> QED BY <1>0, <1>2, <1>6, <2>1, StmtKept
<1>12. ReleaserInv'
  <2>1. \A o \in Objs : releaser'[o] \in {releaser[o], NULL} \/ (o \notin Stmts /\ releaser'[o] = t)
    BY <1>1, <1>4, KindFacts
  <2>2. \A r \in Stmts : releaser'[r] # NULL => ref'[Up(r)] = ref[Up(r)]
    BY <1>9, KindFacts
  <2> QED BY <1>0, <1>6, <2>1, <2>2, ReleaserKept
<1>13. ConnectedInv'
  BY <1>0, <1>2, <1>6, ConnectedKept
<1>14. CountersExact'
  <2>1. RefcExact' /\ ConnsExact /\ DescsExact /\ StmtsExact
    BY <1>0, <1>3, CountParts DEF ObjInv
  <2>2. \A o \in Objs : life'[o] \in {"live", "dying"} <=> life[o] \in {"live", "dying"}
    BY <1>4
  <2>3. ConnsExact'
    BY <1>2, <1>9, <2>1, <2>2, KindFacts, ConnsKept
  <2>4. DescsExact'
    BY <1>2, <1>9, <2>1, <2>2, KindFacts, DescsKept
  <2>5. StmtsExact'
    BY <1>2, <2>1, StmtsCountKept
  <2> QED BY <2>1, <2>3, <2>4, <2>5, CountPartsPrime
<1> QED BY <1>3, <1>7, <1>8, <1>10, <1>11, <1>12, <1>13, <1>14 DEF IInv

LEMMA SetARDSteps ==
  ASSUME IInv, NEW t \in Threads, SetARD(t)
  PROVE  IInv'
<1> DEFINE s == Handle(t)
           p == IF arg[t] = NULL THEN "leave" ELSE "associate_ard"
<1>0. /\ TypeOK /\ NoDanglingRef /\ ConnectedInv /\ KindInv /\ PlaceInv
  BY DEF IInv, ObjInv, ThreadInv
<1>1. pc[t] = "set_ard" /\ fn[t] = "set_ard" /\ s \in Stmts
  BY <1>0 DEF SetARD, At, PlaceInv, KindInv, Sets
<1>2. Turn(t, p)
  BY <1>1 DEF Turn, Creating
<1>3. pc' = [pc EXCEPT ![t] = p] /\ UNCHANGED <<conns, descs, stmts, nr_stmts, connVars, callVars>>
  BY DEF SetARD, GoTo
<1>4. p = "associate_ard" => /\ arg[t] # NULL /\ Parent(arg[t]) = Parent(Handle(t))
                             /\ ref[Apd(Handle(t))] # arg[t]
  BY DEF SetARD, SetDescAllowed
<1>5. p \in {"leave", "associate_ard"}
  OBVIOUS
<1> HIDE DEF p
<1>6. CASE ref[Ard(s)] = NULL
  <2>1. UNCHANGED <<objVars, asARD, asAPD>>
    BY <1>6 DEF SetARD
  <2>2. Moves(t, p)
    BY <1>2, <1>3, <2>1 DEF Moves, objVars, callVars
  <2>3. nr_stmts' = nr_stmts /\ connected' = connected /\ outstandings' = outstandings
    BY <1>3 DEF connVars
  <2>4. nr_stmts' \in [Conns -> Int] /\ connected' \in [Conns -> BOOLEAN] /\ outstandings' \in [Conns -> Int]
    BY <1>0, <2>3 DEF TypeOK
  <2>5. StmtsExact'
    BY <1>3, <2>3, StmtsCountKept, CountParts DEF IInv
  <2>6. ConnectedInv'
    BY <1>0, <1>5, <2>2, <2>3, MovesQuiet, ConnectedKept
  <2> QED BY <1>4, <1>5, <1>6, <2>2, <2>4, <2>5, <2>6, MoveSteps
<1>7. CASE ref[Ard(s)] # NULL
  <2>1. stmt_dissociate_ARD(t, s)
    BY <1>7 DEF SetARD
  <2>2. Dissociates(t, s, p)
    BY <1>3, <1>7, <2>1 DEF Dissociates
  <2>3. ref'[Ard(s)] = NULL
    BY <1>0, <1>1, <2>1, SlotFacts DEF stmt_dissociate_ARD, Drop, DropFrom, TypeOK
  <2> QED BY <1>1, <1>2, <1>4, <1>5, <2>2, <2>3, DissociateSteps
<1> QED BY <1>6, <1>7

LEMMA SetAPDSteps ==
  ASSUME IInv, NEW t \in Threads, SetAPD(t)
  PROVE  IInv'
<1> DEFINE s == Handle(t)
           p == IF arg[t] = NULL THEN "leave" ELSE "associate_apd"
<1>0. /\ TypeOK /\ NoDanglingRef /\ ConnectedInv /\ KindInv /\ PlaceInv
  BY DEF IInv, ObjInv, ThreadInv
<1>1. pc[t] = "set_apd" /\ fn[t] = "set_apd" /\ s \in Stmts
  BY <1>0 DEF SetAPD, At, PlaceInv, KindInv, Sets
<1>2. Turn(t, p)
  BY <1>1 DEF Turn, Creating
<1>3. pc' = [pc EXCEPT ![t] = p] /\ UNCHANGED <<conns, descs, stmts, nr_stmts, connVars, callVars>>
  BY DEF SetAPD, GoTo
<1>4. p = "associate_apd" => /\ arg[t] # NULL /\ Parent(arg[t]) = Parent(Handle(t))
                             /\ ref[Ard(Handle(t))] # arg[t]
  BY DEF SetAPD, SetDescAllowed
<1>5. p \in {"leave", "associate_apd"}
  OBVIOUS
<1> HIDE DEF p
<1>6. CASE ref[Apd(s)] = NULL
  <2>1. UNCHANGED <<objVars, asARD, asAPD>>
    BY <1>6 DEF SetAPD
  <2>2. Moves(t, p)
    BY <1>2, <1>3, <2>1 DEF Moves, objVars, callVars
  <2>3. nr_stmts' = nr_stmts /\ connected' = connected /\ outstandings' = outstandings
    BY <1>3 DEF connVars
  <2>4. nr_stmts' \in [Conns -> Int] /\ connected' \in [Conns -> BOOLEAN] /\ outstandings' \in [Conns -> Int]
    BY <1>0, <2>3 DEF TypeOK
  <2>5. StmtsExact'
    BY <1>3, <2>3, StmtsCountKept, CountParts DEF IInv
  <2>6. ConnectedInv'
    BY <1>0, <1>5, <2>2, <2>3, MovesQuiet, ConnectedKept
  <2> QED BY <1>4, <1>5, <1>6, <2>2, <2>4, <2>5, <2>6, MoveSteps
<1>7. CASE ref[Apd(s)] # NULL
  <2>1. stmt_dissociate_APD(t, s)
    BY <1>7 DEF SetAPD
  <2>2. Dissociates(t, s, p)
    BY <1>3, <1>7, <2>1 DEF Dissociates
  <2>3. ref'[Apd(s)] = NULL
    BY <1>0, <1>1, <2>1, SlotFacts DEF stmt_dissociate_APD, Drop, DropFrom, TypeOK
  <2> QED BY <1>1, <1>2, <1>4, <1>5, <2>2, <2>3, DissociateSteps
<1> QED BY <1>6, <1>7

LEMMA DescFreeSteps ==
  ASSUME IInv, NEW t \in Threads, desc_free(t)
  PROVE  IInv'
<1>0. TypeOK /\ KindInv /\ PlaceInv /\ AssociationsAgree /\ pc' \in {pc', pc} /\ DOMAIN pc = Threads
  BY DEF IInv, ThreadInv, TypeOK
<1>1. pc[t] = "free_desc" /\ fn[t] = "free_desc" /\ Handle(t) \in Descs
  BY <1>0 DEF desc_free, At, PlaceInv, KindInv, Frees
<1>2. UNCHANGED <<conns, descs, stmts, nr_stmts, connVars, callVars>>
  BY DEF desc_free
<1>3. \A s \in Stmts : /\ s \in asARD[Handle(t)] => ref[Ard(s)] # NULL
                       /\ s \in asAPD[Handle(t)] => ref[Apd(s)] # NULL
  BY <1>0, <1>1, KindFacts DEF AssociationsAgree
<1>4. asARD[Handle(t)] \subseteq Stmts /\ asAPD[Handle(t)] \subseteq Stmts
  BY <1>0, <1>1 DEF TypeOK
<1>5. CASE \/ \E s \in asARD[Handle(t)] : stmt_dissociate_ARD(t, s) /\ UNCHANGED pc
           \/ \E s \in asAPD[Handle(t)] : stmt_dissociate_APD(t, s) /\ UNCHANGED pc
  <2>1. PICK s \in Stmts : \/ s \in asARD[Handle(t)] /\ stmt_dissociate_ARD(t, s) /\ UNCHANGED pc
                           \/ s \in asAPD[Handle(t)] /\ stmt_dissociate_APD(t, s) /\ UNCHANGED pc
    BY <1>4, <1>5
  <2>2. Dissociates(t, s, "free_desc")
    BY <1>0, <1>1, <1>2, <1>3, <2>1 DEF Dissociates, TypeOK
  <2> QED BY <1>1, <2>2, DissociateSteps
<1>6. CASE GoTo(t, "drop_own") /\ UNCHANGED <<objVars, asARD, asAPD>>
  <2>1. Moves(t, "drop_own")
    BY <1>1, <1>2, <1>6 DEF Moves, GoTo, Turn, Creating, Frees, objVars, callVars
  <2>2. UNCHANGED <<nr_stmts, connected>> /\ outstandings' \in [Conns -> Int]
    BY <1>0, <1>2 DEF connVars, TypeOK
  <2> QED BY <1>1, <2>1, <2>2, PlainMoves
<1> QED BY <1>5, <1>6 DEF desc_free

LEMMA DropDescsSteps ==
  ASSUME IInv, NEW t \in Threads, NEW s \in Stmts, stmt_drop_descs(t, s)
  PROVE  IInv'
<1>1. Dissociates(t, s, pc[t])
  BY DEF stmt_drop_descs, Dissociates, IInv, TypeOK
<1>2. fn[t] # "none" /\ PlaceInv /\ AssociateInv
  <2>1. s \in Objs /\ releaser[s] = t /\ t # NULL
    BY KindFacts, ConstAssumption DEF stmt_drop_descs
  <2> QED BY <2>1 DEF IInv, ReleaserInv, ThreadInv
<1>3. ref'[Ard(Handle(t))] \in {ref[Ard(Handle(t))], NULL} /\ ref'[Apd(Handle(t))] \in {ref[Apd(Handle(t))], NULL}
  <2>1. PICK k \in Slots : ref' = [ref EXCEPT ![k] = NULL]
    BY <1>1, DissociateFacts DEF DropPlain, Drop, DropFrom
  <2> QED BY <2>1
<1>4. pc[t] = "associate_ard" => /\ arg[t] # NULL /\ Parent(arg[t]) = Parent(Handle(t))
                                 /\ ref'[Ard(Handle(t))] = NULL /\ ref[Apd(Handle(t))] # arg[t]
  BY <1>2, <1>3 DEF AssociateInv
<1>5. pc[t] = "associate_apd" => /\ arg[t] # NULL /\ Parent(arg[t]) = Parent(Handle(t))
                                 /\ ref'[Apd(Handle(t))] = NULL /\ ref[Ard(Handle(t))] # arg[t]
  BY <1>2, <1>3 DEF AssociateInv
<1> QED BY <1>1, <1>2, <1>4, <1>5, DissociateSteps

-----------------------------------------------------------------------------
(* Releases.                                                               *)

\* The first step of a release: a parent no longer counts the object, or an environment is gone.
Unmakes(t, o, l) ==
  /\ releaser[o] = t /\ life[o] = "dying"
  /\ life' = [life EXCEPT ![o] = l]
  /\ UNCHANGED <<refc, ref, asARD, asAPD, connVars, callVars, pc>>
  /\ \/ l = "leaving" /\ o \notin Envs /\ releaser' = releaser
     \/ l = "none" /\ o \in Envs /\ releaser' = [releaser EXCEPT ![o] = NULL]
  /\ \A c \in Conns : stmts'[c] \subseteq stmts[c]

\* A release that has begun goes on.
LEMMA UnmakeFacts ==
  ASSUME IInv, NEW t \in Threads, NEW o \in Objs, NEW l, Unmakes(t, o, l)
  PROVE  /\ ObjInv' /\ ThreadInv' /\ CallerInv' /\ AssociationsAgree' /\ ReleaserInv' /\ ConnectedInv'
         /\ life' \in [Objs -> {"none", "new", "live", "dying", "leaving"}]
         /\ releaser' \in [Objs -> Threads \cup {NULL}]
         /\ Quiet(t, pc[t]) /\ life'[o] = l /\ \A x \in Objs : x # o => life'[x] = life[x]
<1>0. /\ TypeOK /\ ObjInv /\ ThreadInv /\ CallerInv /\ AssociationsAgree /\ ReleaserInv /\ ConnectedInv
      /\ ShapeInv /\ RefcExact /\ NoDanglingRef /\ LifeInv /\ KindInv /\ AssociateInv
      /\ life \in [Objs -> {"none", "new", "live", "dying", "leaving"}]
      /\ releaser \in [Objs -> Threads \cup {NULL}] /\ pc = [pc EXCEPT ![t] = pc[t]]
      /\ t # NULL
  BY ConstAssumption DEF IInv, ObjInv, ThreadInv, TypeOK
<1>1. /\ life' = [life EXCEPT ![o] = l] /\ l \in {"leaving", "none"}
      /\ ref' = ref /\ refc' = refc /\ asARD' = asARD /\ asAPD' = asAPD /\ pc' = pc
      /\ fn' = fn /\ home' = home /\ arg' = arg /\ connected' = connected
      /\ releaser[o] = t /\ life[o] = "dying"
      /\ \A c \in Conns : stmts'[c] \subseteq stmts[c]
  BY DEF Unmakes, connVars, callVars
<1>2. life'[o] = l /\ \A x \in Objs : x # o => life'[x] = life[x]
  BY <1>0, <1>1
<1>3. life' \in [Objs -> {"none", "new", "live", "dying", "leaving"}]
  BY <1>0, <1>1
<1>4. /\ releaser' \in [Objs -> Threads \cup {NULL}]
      /\ \A x \in Objs : x # o => releaser'[x] = releaser[x]
      /\ releaser'[o] # NULL <=> l = "leaving"
      /\ releaser'[o] \in {releaser[o], NULL}
  BY <1>0, <1>1 DEF Unmakes
<1>5. Quiet(t, pc[t])
  BY <1>0, <1>1, <1>2 DEF Quiet
<1>6. ObjInv'
  <2>1. ShapeInv'
    BY <1>0, <1>1 DEF ShapeInv, Parent
  <2>2. RefcExact'
    <3>1. RefcExact /\ ref' = ref /\ refc' = refc
      BY <1>0, <1>1
    <3> QED BY <3>1 DEF RefcExact, Refs
  <2>3. NoDanglingRef'
    <3>1. \A k \in Slots : ref[k] # NULL => ref[k] \in Objs /\ ref[k] # o
      BY <1>0, <1>1 DEF NoDanglingRef, TypeOK
    <3> QED BY <1>0, <1>1, <1>2, <3>1 DEF NoDanglingRef
  <2>4. LifeInv'
    <3>1. \A x \in Objs : releaser'[x] # NULL <=> life'[x] \in {"dying", "leaving"}
      BY <1>0, <1>1, <1>2, <1>4 DEF LifeInv
    <3>2. \A x \in Objs : life'[x] = "live" => refc'[x] # 0
      BY <1>0, <1>1, <1>2 DEF LifeInv
    <3>3. \A e \in Envs : life'[e] \notin {"new", "leaving"}
      BY <1>0, <1>1, <1>2, KindFacts DEF LifeInv, Unmakes
    <3>4. \A x \in Objs \ Envs : life'[x] = "none" => ref'[Up(x)] = NULL
      BY <1>0, <1>1, <1>2 DEF LifeInv, Parent, Unmakes
    <3>5. \A x \in Objs \ Envs : life'[x] \in {"live", "dying", "leaving"} => ref'[Up(x)] # NULL
      BY <1>0, <1>1, <1>2 DEF LifeInv, Parent
    <3>6. \A s \in Stmts : life'[s] \in {"none", "new"} => ref'[Ard(s)] = NULL /\ ref'[Apd(s)] = NULL
      BY <1>0, <1>1, <1>2, KindFacts DEF LifeInv, Unmakes
    <3> QED BY <3>1, <3>2, <3>3, <3>4, <3>5, <3>6 DEF LifeInv, Parent
  <2> QED BY <2>1, <2>2, <2>3, <2>4 DEF ObjInv
<1>7. ThreadInv' /\ CallerInv'
  <2>1. pc[t] = "associate_ard" => /\ arg[t] # NULL /\ Parent(arg[t]) = Parent(Handle(t))
                                   /\ ref'[Ard(Handle(t))] = NULL /\ ref[Apd(Handle(t))] # arg[t]
    BY <1>0, <1>1 DEF AssociateInv
  <2>2. pc[t] = "associate_apd" => /\ arg[t] # NULL /\ Parent(arg[t]) = Parent(Handle(t))
                                   /\ ref'[Apd(Handle(t))] = NULL /\ ref[Ard(Handle(t))] # arg[t]
    BY <1>0, <1>1 DEF AssociateInv
  <2> QED BY <1>0, <1>5, <2>1, <2>2, QuietSteps
<1>8. AssociationsAgree'
  BY <1>0, <1>1, AssocFrame
<1>9. ReleaserInv'
  <2>1. fn[t] # "none"
    BY <1>0, <1>1 DEF ReleaserInv
  <2>2. \A x \in Objs : releaser'[x] \in {releaser[x], NULL}
    BY <1>4
  <2>3. \A s \in Stmts : releaser'[s] # NULL => ref'[Up(s)] = ref[Up(s)]
    BY <1>1
  <2> QED BY <1>0, <1>5, <2>1, <2>2, <2>3, ReleaserKept
<1>10. ConnectedInv'
  BY <1>0, <1>1, <1>5, ConnectedKept
<1> QED BY <1>2, <1>3, <1>4, <1>5, <1>6, <1>7, <1>8, <1>9, <1>10

LEMMA EnvReleaseSteps ==
  ASSUME IInv, NEW t \in Threads, NEW e \in Envs, _env_release(t, e)
  PROVE  IInv'
<1>0. /\ TypeOK /\ StmtInv /\ LifeInv /\ CountersExact /\ e \in Objs /\ t # NULL
  BY KindFacts, ConstAssumption DEF IInv, ObjInv
<1>1. life[e] = "dying"
  <2>1. life[e] \in {"dying", "leaving"}
    BY <1>0 DEF LifeInv, _env_release
  <2> QED BY <1>0, <2>1 DEF LifeInv
<1>2. Unmakes(t, e, "none")
  BY <1>1 DEF _env_release, Unmakes, listVars
<1>3. /\ ObjInv' /\ ThreadInv' /\ CallerInv' /\ AssociationsAgree' /\ ReleaserInv' /\ ConnectedInv'
      /\ life' \in [Objs -> {"none", "new", "live", "dying", "leaving"}]
      /\ releaser' \in [Objs -> Threads \cup {NULL}]
      /\ Quiet(t, pc[t]) /\ \A x \in Objs : x # e => life'[x] = life[x]
  BY <1>0, <1>2, UnmakeFacts
<1>4. UNCHANGED <<refc, ref, conns, descs, stmts, nr_stmts, asARD, asAPD, connected, outstandings, fn, home, arg, pc>>
  BY DEF _env_release, listVars, connVars, callVars
<1>5. TypeOK'
  BY <1>0, <1>3, <1>4 DEF TypeOK
<1>6. StmtInv'
  <2>1. \A s \in Stmts : life'[s] = life[s] /\ ref'[Up(s)] = ref[Up(s)]
    BY <1>3, <1>4, KindFacts
  <2> QED BY <1>0, <1>3, <1>4, <2>1, StmtKept
<1>7. CountersExact'
  <2>1. RefcExact' /\ ConnsExact /\ DescsExact /\ StmtsExact
    BY <1>0, <1>3, CountParts DEF ObjInv
  <2>2. (\A c \in Conns : life'[c] = life[c]) /\ (\A d \in Descs : life'[d] = life[d])
    BY <1>3, KindFacts
  <2>3. ConnsExact' /\ DescsExact' /\ StmtsExact'
    BY <1>4, <2>1, <2>2, ConnsKept, DescsKept, StmtsCountKept
  <2> QED BY <2>1, <2>3, CountPartsPrime
<1> QED BY <1>3, <1>5, <1>6, <1>7 DEF IInv

LEMMA ConnUncountSteps ==
  ASSUME IInv, NEW t \in Threads, NEW c \in Conns, conn_uncount(t, c)
  PROVE  IInv'
<1>0. /\ TypeOK /\ StmtInv /\ LifeInv /\ ShapeInv /\ CountersExact /\ c \in Objs /\ c \notin Envs
  BY KindFacts DEF IInv, ObjInv
<1>1. Unmakes(t, c, "leaving")
  BY <1>0 DEF conn_uncount, Unmakes, listVars
<1>2. /\ ObjInv' /\ ThreadInv' /\ CallerInv' /\ AssociationsAgree' /\ ReleaserInv' /\ ConnectedInv'
      /\ life' \in [Objs -> {"none", "new", "live", "dying", "leaving"}]
      /\ releaser' \in [Objs -> Threads \cup {NULL}]
      /\ Quiet(t, pc[t]) /\ life'[c] = "leaving" /\ \A x \in Objs : x # c => life'[x] = life[x]
  BY <1>0, <1>1, UnmakeFacts
<1>3. /\ UNCHANGED <<refc, ref, descs, stmts, nr_stmts, asARD, asAPD, connected, outstandings, fn, home, arg, pc>>
      /\ conns' = [conns EXCEPT ![Parent(c)] = @ - 1] /\ life[c] = "dying"
  BY DEF conn_uncount, listVars, connVars, callVars
<1>4. Parent(c) \in Envs
  BY <1>0, <1>3 DEF LifeInv, ShapeInv
<1>5. conns \in [Envs -> Int] /\ conns' \in [Envs -> Int]
  <2>1. conns \in [Envs -> Int]
    BY <1>0 DEF TypeOK
  <2>2. conns' = [conns EXCEPT ![Parent(c)] = @ - 1]
    BY <1>3
  <2> QED BY <1>4, <2>1, <2>2
<1>6. TypeOK'
  BY <1>0, <1>2, <1>3, <1>5 DEF TypeOK
<1>7. StmtInv'
  <2>1. \A s \in Stmts : life'[s] = life[s] /\ ref'[Up(s)] = ref[Up(s)]
    BY <1>2, <1>3, KindFacts
  <2> QED BY <1>0, <1>2, <1>3, <2>1, StmtKept
<1>8. CountersExact'
  <2>1. RefcExact' /\ ConnsExact /\ DescsExact /\ StmtsExact
    BY <1>0, <1>2, CountParts DEF ObjInv
  <2>2. \A d \in Descs : life'[d] = life[d]
    BY <1>2, KindFacts
  <2>3. DescsExact' /\ StmtsExact'
    BY <1>3, <2>1, <2>2, DescsKept, StmtsCountKept
  <2>4. ASSUME NEW e \in Envs PROVE conns'[e] = Cardinality(CountedIn(ref', life', e, Conns))
    <3>1. conns[e] = Cardinality(CountedIn(ref, life, e, Conns))
      BY <2>1, CountedFacts
    <3>2. CASE e = Parent(c)
      <4>1. c \in CountedIn(ref, life, e, Conns)
        BY <1>3, <3>2 DEF CountedIn, Parent
      <4>2. CountedIn(ref', life', e, Conns) = CountedIn(ref, life, e, Conns) \ {c}
        BY <1>2, <1>3, KindFacts DEF CountedIn
      <4>3. conns'[e] = conns[e] - 1
        BY <1>3, <1>5, <3>2
      <4> QED BY <3>1, <4>1, <4>2, <4>3, KidsFinite, CountOut
    <3>3. CASE e # Parent(c)
      <4>1. CountedIn(ref', life', e, Conns) = CountedIn(ref, life, e, Conns)
        BY <1>2, <1>3, <3>3, KindFacts DEF CountedIn, Parent
      <4>2. conns'[e] = conns[e]
        BY <1>3, <1>5, <3>3
      <4> QED BY <3>1, <4>1, <4>2
    <3> QED BY <3>2, <3>3
  <2>5. ConnsExact'
    BY <2>4, CountedFacts
  <2> QED BY <2>1, <2>3, <2>5, CountPartsPrime
<1> QED BY <1>2, <1>6, <1>7, <1>8 DEF IInv

LEMMA DescUncountSteps ==
  ASSUME IInv, NEW t \in Threads, NEW d \in Descs, desc_uncount(t, d)
  PROVE  IInv'
<1>0. /\ TypeOK /\ StmtInv /\ LifeInv /\ ShapeInv /\ CountersExact /\ d \in Objs /\ d \notin Envs
  BY KindFacts DEF IInv, ObjInv
<1>1. Unmakes(t, d, "leaving")
  BY <1>0 DEF desc_uncount, Unmakes, listVars
<1>2. /\ ObjInv' /\ ThreadInv' /\ CallerInv' /\ AssociationsAgree' /\ ReleaserInv' /\ ConnectedInv'
      /\ life' \in [Objs -> {"none", "new", "live", "dying", "leaving"}]
      /\ releaser' \in [Objs -> Threads \cup {NULL}]
      /\ Quiet(t, pc[t]) /\ life'[d] = "leaving" /\ \A x \in Objs : x # d => life'[x] = life[x]
  BY <1>0, <1>1, UnmakeFacts
<1>3. /\ UNCHANGED <<refc, ref, conns, stmts, nr_stmts, asARD, asAPD, connected, outstandings, fn, home, arg, pc>>
      /\ descs' = [descs EXCEPT ![Parent(d)] = @ - 1] /\ life[d] = "dying"
  BY DEF desc_uncount, listVars, connVars, callVars
<1>4. Parent(d) \in Conns
  BY <1>0, <1>3 DEF LifeInv, ShapeInv
<1>5. descs \in [Conns -> Int] /\ descs' \in [Conns -> Int]
  <2>1. descs \in [Conns -> Int]
    BY <1>0 DEF TypeOK
  <2>2. descs' = [descs EXCEPT ![Parent(d)] = @ - 1]
    BY <1>3
  <2> QED BY <1>4, <2>1, <2>2
<1>6. TypeOK'
  BY <1>0, <1>2, <1>3, <1>5 DEF TypeOK
<1>7. StmtInv'
  <2>1. \A s \in Stmts : life'[s] = life[s] /\ ref'[Up(s)] = ref[Up(s)]
    BY <1>2, <1>3, KindFacts
  <2> QED BY <1>0, <1>2, <1>3, <2>1, StmtKept
<1>8. CountersExact'
  <2>1. RefcExact' /\ ConnsExact /\ DescsExact /\ StmtsExact
    BY <1>0, <1>2, CountParts DEF ObjInv
  <2>2. \A c \in Conns : life'[c] = life[c]
    BY <1>2, KindFacts
  <2>3. ConnsExact' /\ StmtsExact'
    BY <1>3, <2>1, <2>2, ConnsKept, StmtsCountKept
  <2>4. ASSUME NEW c \in Conns PROVE descs'[c] = Cardinality(CountedIn(ref', life', c, Descs))
    <3>1. descs[c] = Cardinality(CountedIn(ref, life, c, Descs))
      BY <2>1, CountedFacts
    <3>2. CASE c = Parent(d)
      <4>1. d \in CountedIn(ref, life, c, Descs)
        BY <1>3, <3>2 DEF CountedIn, Parent
      <4>2. CountedIn(ref', life', c, Descs) = CountedIn(ref, life, c, Descs) \ {d}
        BY <1>2, <1>3, KindFacts DEF CountedIn
      <4>3. descs'[c] = descs[c] - 1
        BY <1>3, <1>5, <3>2
      <4> QED BY <3>1, <4>1, <4>2, <4>3, KidsFinite, CountOut
    <3>3. CASE c # Parent(d)
      <4>1. CountedIn(ref', life', c, Descs) = CountedIn(ref, life, c, Descs)
        BY <1>2, <1>3, <3>3, KindFacts DEF CountedIn, Parent
      <4>2. descs'[c] = descs[c]
        BY <1>3, <1>5, <3>3
      <4> QED BY <3>1, <4>1, <4>2
    <3> QED BY <3>2, <3>3
  <2>5. DescsExact'
    BY <2>4, CountedFacts
  <2> QED BY <2>1, <2>3, <2>5, CountPartsPrime
<1> QED BY <1>2, <1>6, <1>7, <1>8 DEF IInv

LEMMA StmtUnlinkSteps ==
  ASSUME IInv, NEW t \in Threads, NEW s \in Stmts, stmt_unlink(t, s)
  PROVE  IInv'
<1>0. /\ TypeOK /\ StmtInv /\ LifeInv /\ ShapeInv /\ ArgInv /\ CountersExact /\ s \in Objs /\ s \notin Envs
  BY KindFacts DEF IInv, ObjInv, ThreadInv
<1>1. /\ UNCHANGED <<refc, ref, conns, descs, asARD, asAPD, connected, outstandings, fn, home, arg, pc>>
      /\ stmts' = [stmts EXCEPT ![Parent(s)] = @ \ {s}] /\ nr_stmts' = [nr_stmts EXCEPT ![Parent(s)] = @ - 1]
      /\ life[s] = "dying"
  BY DEF stmt_unlink, connVars, callVars
<1>2. Parent(s) \in Conns
  BY <1>0, <1>1 DEF LifeInv, ShapeInv
<1>3. /\ stmts \in [Conns -> SUBSET Stmts] /\ nr_stmts \in [Conns -> Int]
  BY <1>0 DEF TypeOK
<1>4. /\ stmts' \in [Conns -> SUBSET Stmts]
      /\ stmts'[Parent(s)] = stmts[Parent(s)] \ {s}
      /\ \A c \in Conns : c # Parent(s) => stmts'[c] = stmts[c]
  BY <1>1, <1>2, <1>3
<1>5. /\ nr_stmts' \in [Conns -> Int]
      /\ nr_stmts'[Parent(s)] = nr_stmts[Parent(s)] - 1
      /\ \A c \in Conns : c # Parent(s) => nr_stmts'[c] = nr_stmts[c]
  <2>1. nr_stmts' = [nr_stmts EXCEPT ![Parent(s)] = @ - 1]
    BY <1>1
  <2> QED BY <1>2, <1>3, <2>1
<1>6. \A c \in Conns : stmts'[c] \subseteq stmts[c]
  BY <1>4
<1>7. Unmakes(t, s, "leaving")
  BY <1>0, <1>6 DEF stmt_unlink, Unmakes
<1>8. /\ ObjInv' /\ ThreadInv' /\ CallerInv' /\ AssociationsAgree' /\ ReleaserInv' /\ ConnectedInv'
      /\ life' \in [Objs -> {"none", "new", "live", "dying", "leaving"}]
      /\ releaser' \in [Objs -> Threads \cup {NULL}]
      /\ Quiet(t, pc[t]) /\ life'[s] = "leaving" /\ \A x \in Objs : x # s => life'[x] = life[x]
  BY <1>0, <1>7, UnmakeFacts
<1>9. TypeOK'
  BY <1>0, <1>1, <1>4, <1>5, <1>8 DEF TypeOK
<1>10. \A u \in Threads : pc[u] = "stmt_ref_conn" => arg[u] # s
  BY <1>0, <1>1, KindFacts DEF ArgInv, Creating
<1>11. StmtInv'
  <2>1. /\ ref' = ref /\ pc' = pc /\ fn' = fn /\ arg' = arg
        /\ \A u \in Threads : Handle(u)' = Handle(u)
    BY <1>1 DEF Handle
  <2>2. \A r \in Stmts : life'[r] = "live" => life[r] = "live"
    BY <1>8, KindFacts
  <2>3. ASSUME NEW c \in Conns, NEW r \in Stmts
        PROVE  r \in stmts'[c] <=> \/ ref[Up(r)] = c /\ life'[r] \in {"new", "live", "dying"}
                                   \/ \E u \in Threads : pc[u] = "stmt_ref_conn" /\ arg[u] = r /\ Handle(u) = c
    <3>1. r \in stmts[c] <=> \/ ref[Up(r)] = c /\ life[r] \in {"new", "live", "dying"}
                             \/ \E u \in Threads : pc[u] = "stmt_ref_conn" /\ arg[u] = r /\ Handle(u) = c
      BY <1>0 DEF StmtInv, Parent
    <3>2. CASE r = s
      BY <1>4, <1>8, <1>10, <3>1, <3>2 DEF Parent
    <3>3. CASE r # s
      BY <1>4, <1>8, <3>1, <3>3, KindFacts
    <3> QED BY <3>2, <3>3
  <2> QED BY <1>0, <2>1, <2>2, <2>3 DEF StmtInv, Parent
<1>12. CountersExact'
  <2>1. RefcExact' /\ ConnsExact /\ DescsExact /\ StmtsExact
    BY <1>0, <1>8, CountParts DEF ObjInv
  <2>2. (\A c \in Conns : life'[c] = life[c]) /\ (\A d \in Descs : life'[d] = life[d])
    BY <1>8, KindFacts
  <2>3. ConnsExact' /\ DescsExact'
    BY <1>1, <2>1, <2>2, ConnsKept, DescsKept
  <2>4. s \in stmts[Parent(s)]
    BY <1>0, <1>1, <1>2 DEF StmtInv
  <2>5. IsFiniteSet(stmts[Parent(s)])
    BY <1>2, <1>3, KidsFinite
  <2>6. Cardinality(stmts'[Parent(s)]) = Cardinality(stmts[Parent(s)]) - 1
    BY <1>4, <2>4, <2>5, CountOut
  <2>7. StmtsExact'
    BY <1>2, <1>4, <1>5, <2>1, <2>6 DEF StmtsExact
  <2> QED BY <2>1, <2>3, <2>7, CountPartsPrime
<1> QED BY <1>8, <1>9, <1>11, <1>12 DEF IInv

\* The last step: what is left behind is the parent, one reference poorer.
LEMMA ReleaseParentSteps ==
  ASSUME IInv, NEW t \in Threads, NEW o \in Objs \ Envs, ReleaseParent(t, o)
  PROVE  IInv'
<1> DEFINE k == Up(o)
           lf == [life EXCEPT ![o] = "none"]
           rl == [releaser EXCEPT ![o] = NULL]
<1>0. /\ TypeOK /\ ObjInv /\ ThreadInv /\ CallerInv /\ AssociationsAgree
      /\ StmtInv /\ ReleaserInv /\ ConnectedInv /\ CountersExact /\ NoDanglingRef /\ LifeInv
      /\ ShapeInv /\ RefcExact /\ KindInv /\ AssociateInv /\ ArgInv
      /\ life \in [Objs -> {"none", "new", "live", "dying", "leaving"}]
      /\ releaser \in [Objs -> Threads \cup {NULL}] /\ pc = [pc EXCEPT ![t] = pc[t]]
      /\ ref \in [Slots -> Objs \cup {NULL}] /\ t # NULL
  BY ConstAssumption DEF IInv, ObjInv, ThreadInv, TypeOK
<1>1. /\ releaser[o] = t /\ life[o] = "leaving"
      /\ o \in Stmts => ref[Apd(o)] = NULL /\ ref[Ard(o)] = NULL
      /\ DropFrom(t, k, lf, rl)
      /\ UNCHANGED <<conns, descs, stmts, nr_stmts, asARD, asAPD, fn, home, arg, pc>>
      /\ connected' = connected /\ outstandings' = outstandings
  BY DEF ReleaseParent, listVars, connVars, callVars
<1>2. k \in Slots /\ ref[k] \in Objs /\ ref[k] # NULL /\ ref[k] \notin Stmts /\ ref[k] \notin Descs
  <2>1. Parent(o) # NULL
    BY <1>0, <1>1 DEF LifeInv
  <2>2. o \in Conns \/ o \in Stmts \cup Descs
    BY KindFacts
  <2> QED BY <1>0, <2>1, <2>2, SlotFacts, KindFacts DEF ShapeInv, Parent
<1>3. lf[o] = "none" /\ rl[o] = NULL /\ \A x \in Objs : x # o => lf[x] = life[x] /\ rl[x] = releaser[x]
  BY <1>0
<1>4. /\ lf \in [Objs -> {"none", "new", "live", "dying", "leaving"}]
      /\ rl \in [Objs -> Threads \cup {NULL}]
  BY <1>0
<1> HIDE DEF lf, rl
<1>5. /\ Dropped(t, k, lf, rl)
      /\ ref' \in [Slots -> Objs \cup {NULL}] /\ refc' \in [Objs -> Int]
      /\ life' \in [Objs -> {"none", "new", "live", "dying", "leaving"}]
      /\ releaser' \in [Objs -> Threads \cup {NULL}]
  BY <1>0, <1>1, <1>2, <1>4, DropCount
<1>6. ref'[k] = NULL /\ \A j \in Slots : j # k => ref'[j] = ref[j]
  BY <1>0, <1>2, <1>5 DEF Dropped
<1>7. ref[k] # o /\ life[ref[k]] = "live"
  BY <1>0, <1>1, <1>2 DEF NoDanglingRef
<1>8. \A x \in Objs : \/ life'[x] = lf[x] /\ releaser'[x] = rl[x]
                      \/ x = ref[k] /\ x # o /\ life[x] = "live" /\ life'[x] = "dying" /\ releaser'[x] = t
  BY <1>5, <1>7 DEF Dropped
<1>9. \A x : x # o => k # Up(x)
  BY SlotsDiffer
<1>10. \A x \in Objs : x \notin Envs /\ x # o => ref'[Up(x)] = ref[Up(x)]
  BY <1>6, <1>9, SlotFacts
<1>11. ObjInv'
  <2>1. \A x \in Objs : rl[x] # NULL <=> lf[x] \in {"dying", "leaving"}
    BY <1>0, <1>3 DEF LifeInv
  <2>2. \A x \in Objs : lf[x] = "live" <=> life[x] = "live"
    BY <1>1, <1>3
  <2>3. \A e \in Envs : lf[e] \notin {"new", "leaving"}
    BY <1>0, <1>3, KindFacts DEF LifeInv
  <2>4. \A x \in Objs \ Envs : lf[x] = "none" => Parent(x) = NULL \/ k = Up(x)
    BY <1>0, <1>3 DEF LifeInv
  <2>5. \A x \in Objs \ Envs : lf[x] \in {"live", "dying", "leaving"} => Parent(x) # NULL /\ k # Up(x)
    BY <1>0, <1>3, <1>9 DEF LifeInv
  <2>6. \A s \in Stmts : lf[s] \in {"none", "new"} => ref[Ard(s)] = NULL /\ ref[Apd(s)] = NULL
    BY <1>0, <1>1, <1>3, KindFacts DEF LifeInv
  <2> HIDE DEF k
  <2> QED BY <1>0, <1>1, <1>2, <1>4, <2>1, <2>2, <2>3, <2>4, <2>5, <2>6, DropObj
<1>12. Quiet(t, pc[t])
  <2>1. \A x : k # App(x) /\ k # Api(x) /\ k # Ard(x) /\ k # Apd(x)
    BY SlotsDiffer
  <2>2. \A u \in Threads : ref'[Api(u)] = ref[Api(u)]
    BY <1>6, <2>1, SlotFacts
  <2>3. \A x \in Objs : ref'[App(x)] = ref[App(x)]
    BY <1>6, <2>1, SlotFacts
  <2>4. \A x \in Objs : x \notin Envs /\ life[x] \in {"new", "live"} => ref'[Up(x)] = ref[Up(x)]
    BY <1>1, <1>10
  <2>5. \A x \in Objs : life'[x] = "new" <=> life[x] = "new"
    BY <1>1, <1>3, <1>8
  <2>6. \A s \in Stmts : ref'[Ard(s)] \in {ref[Ard(s)], NULL} /\ ref'[Apd(s)] \in {ref[Apd(s)], NULL}
    BY <1>6, <2>1, SlotFacts
  <2> QED BY <1>0, <1>1, <2>2, <2>3, <2>4, <2>5, <2>6 DEF Quiet
<1>13. TypeOK'
  BY <1>0, <1>1, <1>5 DEF TypeOK
<1>14. \A s \in Stmts : ref'[Ard(s)] = ref[Ard(s)] /\ ref'[Apd(s)] = ref[Apd(s)]
  BY <1>6, SlotFacts, SlotsDiffer
<1>15. ThreadInv' /\ CallerInv'
  <2>1. \A x : ref'[Ard(x)] \in {ref[Ard(x)], NULL} /\ ref'[Apd(x)] \in {ref[Apd(x)], NULL}
    BY <1>0, <1>2, <1>5 DEF Dropped
  <2>2. pc[t] = "associate_ard" => /\ arg[t] # NULL /\ Parent(arg[t]) = Parent(Handle(t))
                                   /\ ref'[Ard(Handle(t))] = NULL /\ ref[Apd(Handle(t))] # arg[t]
    BY <1>0, <2>1 DEF AssociateInv
  <2>3. pc[t] = "associate_apd" => /\ arg[t] # NULL /\ Parent(arg[t]) = Parent(Handle(t))
                                   /\ ref'[Apd(Handle(t))] = NULL /\ ref[Ard(Handle(t))] # arg[t]
    BY <1>0, <2>1 DEF AssociateInv
  <2> QED BY <1>0, <1>12, <2>2, <2>3, QuietSteps
<1>16. AssociationsAgree'
  <2>1. \A s \in Stmts, d \in Descs : d \in {ref[Ard(s)], ref[Apd(s)]} => s # o /\ d # o
    BY <1>0, <1>1, SlotFacts, KindFacts DEF NoDanglingRef
  <2>2. \A x \in Stmts \cup Descs : (\E s \in Stmts, d \in Descs : x \in {s, d} /\ d \in {ref[Ard(s)], ref[Apd(s)]})
                                      => ref'[Up(x)] = ref[Up(x)]
    BY <1>10, <2>1, KindFacts
  <2> QED BY <1>0, <1>1, <1>14, <2>2, AssocKept
<1>17. StmtInv'
  <2>1. /\ fn' = fn /\ arg' = arg /\ pc' = pc /\ stmts' = stmts /\ \A u \in Threads : Handle(u)' = Handle(u)
    BY <1>1, <1>12 DEF Quiet, Handle
  <2>2. \A s \in Stmts : life'[s] = lf[s] /\ ref'[App(s)] = ref[App(s)]
    BY <1>2, <1>8, <1>12, KindFacts DEF Quiet
  <2>3. \A s \in Stmts : life'[s] = "live" =>
          ref'[App(s)] = s \/ \E u \in Threads : Handle(u)' = s /\ fn'[u] = "free_stmt"
    BY <1>0, <1>3, <2>1, <2>2, KindFacts DEF StmtInv
  <2>4. ASSUME NEW c \in Conns, NEW s \in Stmts
        PROVE  s \in stmts[c] <=> \/ ref'[Up(s)] = c /\ life'[s] \in {"new", "live", "dying"}
                                  \/ \E u \in Threads : pc[u] = "stmt_ref_conn" /\ arg[u] = s /\ Handle(u) = c
    <3>1. s \in stmts[c] <=> \/ ref[Up(s)] = c /\ life[s] \in {"new", "live", "dying"}
                             \/ \E u \in Threads : pc[u] = "stmt_ref_conn" /\ arg[u] = s /\ Handle(u) = c
      BY <1>0 DEF StmtInv, Parent
    <3>2. CASE s = o
      BY <1>1, <1>3, <2>2, <3>1, <3>2
    <3>3. CASE s # o
      BY <1>3, <1>10, <2>2, <3>1, <3>3, KindFacts
    <3> QED BY <3>2, <3>3
  <2> QED BY <2>1, <2>3, <2>4 DEF StmtInv, Parent
<1>18. ReleaserInv'
  <2>1. fn[t] # "none"
    BY <1>0, <1>1 DEF ReleaserInv
  <2>2. \A x \in Objs : releaser'[x] \in {releaser[x], NULL} \/ (x \notin Stmts /\ releaser'[x] = t)
    BY <1>2, <1>3, <1>8
  <2>3. \A s \in Stmts : releaser'[s] # NULL => ref'[Up(s)] = ref[Up(s)]
    BY <1>2, <1>3, <1>8, <1>10, KindFacts
  <2> QED BY <1>0, <1>12, <2>1, <2>2, <2>3, ReleaserKept
<1>19. ConnectedInv'
  BY <1>0, <1>1, <1>12, ConnectedKept
<1>20. CountersExact'
  <2>1. RefcExact' /\ ConnsExact /\ DescsExact /\ StmtsExact
    BY <1>0, <1>11, CountParts DEF ObjInv
  <2>2. \A x \in Objs : life'[x] \in {"live", "dying"} <=> life[x] \in {"live", "dying"}
    BY <1>1, <1>3, <1>8
  <2>3. \A x \in Objs : x \notin Envs /\ life[x] \in {"live", "dying"} => ref'[Up(x)] = ref[Up(x)]
    BY <1>1, <1>10
  <2>4. ConnsExact' /\ DescsExact' /\ StmtsExact'
    BY <1>1, <2>1, <2>2, <2>3, KindFacts, ConnsKept, DescsKept, StmtsCountKept
  <2> QED BY <2>1, <2>4, CountPartsPrime
<1> QED BY <1>11, <1>13, <1>15, <1>16, <1>17, <1>18, <1>19, <1>20 DEF IInv

-----------------------------------------------------------------------------
(* The application or a call gives up a reference.                         *)

GivesUp(t, k, p) ==
  /\ k \in Slots /\ ref[k] # NULL
  /\ (\E o \in Objs : k = App(o)) \/ k = Api(t)
  /\ Drop(t, k)
  /\ pc' = [pc EXCEPT ![t] = p] /\ p \in {pc[t], "leave", "return"}
  /\ p = "stmt_ref_conn" <=> pc[t] = "stmt_ref_conn"
  /\ UNCHANGED <<conns, descs, listVars, connVars, callVars>>

\* Parents, associations, lists and counts are what they were.
LEMMA GiveUpFacts ==
  ASSUME IInv, NEW t \in Threads, NEW k, NEW p, GivesUp(t, k, p)
  PROVE  /\ TypeOK' /\ ObjInv' /\ AssociationsAgree' /\ CountersExact'
         /\ fn' = fn /\ home' = home /\ arg' = arg /\ stmts' = stmts /\ connected' = connected
         /\ pc'[t] = p /\ \A u \in Threads : u # t => pc'[u] = pc[u]
         /\ ref'[k] = NULL /\ \A j \in Slots : j # k => ref'[j] = ref[j]
         /\ \A o \in Objs : o \notin Envs => ref'[Up(o)] = ref[Up(o)]
         /\ \A s \in Stmts : ref'[Ard(s)] = ref[Ard(s)] /\ ref'[Apd(s)] = ref[Apd(s)]
         /\ \A o \in Objs : \/ life'[o] = life[o] /\ releaser'[o] = releaser[o]
                            \/ /\ o = ref[k] /\ life[o] = "live" /\ life'[o] = "dying" /\ releaser'[o] = t
                               /\ \A j \in Slots : ref[j] = o => j = k
         /\ life'[ref[k]] = "live" => \E j \in Slots : j # k /\ ref[j] = ref[k]
         /\ \A c \in Conns, s \in Stmts :
              s \in stmts[c] <=> \/ ref'[Up(s)] = c /\ life'[s] \in {"new", "live", "dying"}
                                 \/ \E u \in Threads : pc'[u] = "stmt_ref_conn" /\ arg[u] = s /\ Handle(u) = c
<1>0. /\ TypeOK /\ ObjInv /\ AssociationsAgree /\ CountersExact /\ StmtInv
      /\ \A x : k # Up(x) /\ k # Ard(x) /\ k # Apd(x)
  BY SlotsDiffer DEF IInv, GivesUp
<1>1. DropPlain(t, k)
  BY <1>0 DEF GivesUp, DropPlain
<1>2. /\ fn' = fn /\ home' = home /\ arg' = arg /\ stmts' = stmts /\ nr_stmts' = nr_stmts /\ connected' = connected
      /\ conns' = conns /\ descs' = descs /\ asARD' = asARD /\ asAPD' = asAPD /\ outstandings' = outstandings
      /\ pc' = [pc EXCEPT ![t] = p] /\ p \in {pc[t], "leave", "return"}
  BY DEF GivesUp, listVars, connVars, callVars
<1>3. /\ ObjInv'
      /\ ref' \in [Slots -> Objs \cup {NULL}] /\ refc' \in [Objs -> Int]
      /\ life' \in [Objs -> {"none", "new", "live", "dying", "leaving"}]
      /\ releaser' \in [Objs -> Threads \cup {NULL}]
  BY <1>0, <1>1, DropPlainObj
<1>4. /\ ref'[k] = NULL /\ \A j \in Slots : j # k => ref'[j] = ref[j]
  BY <1>0, <1>1, DropPlainObj
<1>5. \A o \in Objs : \/ life'[o] = life[o] /\ releaser'[o] = releaser[o]
                      \/ /\ o = ref[k] /\ life[o] = "live" /\ life'[o] = "dying" /\ releaser'[o] = t
                         /\ \A j \in Slots : ref[j] = o => j = k
  BY <1>0, <1>1, DropPlainObj
<1>6. life'[ref[k]] = "live" => \E j \in Slots : j # k /\ ref[j] = ref[k]
  BY <1>0, <1>1, DropPlainObj
<1>7. \A o \in Objs : o \notin Envs => ref'[Up(o)] = ref[Up(o)]
  BY <1>0, <1>4, SlotFacts
<1>8. \A s \in Stmts : ref'[Ard(s)] = ref[Ard(s)] /\ ref'[Apd(s)] = ref[Apd(s)]
  BY <1>0, <1>4, SlotFacts
<1>9. (\A u \in Threads : u # t => pc'[u] = pc[u]) /\ pc'[t] = p
  BY <1>0, <1>2 DEF TypeOK
<1>10. TypeOK'
  <2>1. pc' \in [Threads -> Calls \cup
               {"idle", "conn_count", "desc_count", "stmt_ref_conn", "stmt_ready",
                "post_connect", "executing", "associate_ard", "associate_apd",
                "drop_own", "leave", "return"}]
    BY <1>0, <1>2 DEF TypeOK
  <2> QED BY <1>0, <1>2, <1>3, <2>1 DEF TypeOK
<1>11. AssociationsAgree'
  <2>1. \A o \in Stmts \cup Descs : ref'[Up(o)] = ref[Up(o)]
    BY <1>7, KindFacts
  <2> QED BY <1>0, <1>2, <1>8, <2>1, AssocKept
<1>12. CountersExact'
  <2>1. RefcExact' /\ ConnsExact /\ DescsExact /\ StmtsExact
    BY <1>0, <1>3, CountParts DEF ObjInv
  <2>2. \A o \in Objs : life'[o] \in {"live", "dying"} <=> life[o] \in {"live", "dying"}
    BY <1>5
  <2>3. ConnsExact' /\ DescsExact' /\ StmtsExact'
    BY <1>2, <1>7, <2>1, <2>2, KindFacts, ConnsKept, DescsKept, StmtsCountKept
  <2> QED BY <2>1, <2>3, CountPartsPrime
<1>13. ASSUME NEW c \in Conns, NEW s \in Stmts
       PROVE  s \in stmts[c] <=> \/ ref'[Up(s)] = c /\ life'[s] \in {"new", "live", "dying"}
                                 \/ \E u \in Threads : pc'[u] = "stmt_ref_conn" /\ arg[u] = s /\ Handle(u) = c
  <2>1. s \in stmts[c] <=> \/ ref[Up(s)] = c /\ life[s] \in {"new", "live", "dying"}
                           \/ \E u \in Threads : pc[u] = "stmt_ref_conn" /\ arg[u] = s /\ Handle(u) = c
    BY <1>0 DEF StmtInv, Parent
  <2>2. life'[s] \in {"new", "live", "dying"} <=> life[s] \in {"new", "live", "dying"}
    BY <1>5, KindFacts
  <2>3. ref'[Up(s)] = ref[Up(s)]
    BY <1>7, KindFacts
  <2>4. \A u \in Threads : pc'[u] = "stmt_ref_conn" <=> pc[u] = "stmt_ref_conn"
    BY <1>9 DEF GivesUp
  <2> QED BY <2>1, <2>2, <2>3, <2>4
<1> QED BY <1>2, <1>3, <1>4, <1>5, <1>6, <1>7, <1>8, <1>9, <1>10, <1>11, <1>12, <1>13

\* Who points to a statement, besides the application and the calls with it.
LEMMA StmtRefs ==
  ASSUME ShapeInv, NEW s \in Stmts, NEW j \in Slots, ref[j] = s
  PROVE  j = App(s) \/ \E t \in Threads : j = Api(t)
<1>1. CASE \E o \in Objs : j = App(o)
  BY <1>1, KindFacts DEF ShapeInv
<1>2. CASE \E o \in Objs : o \notin Envs /\ j = Up(o)
  BY <1>2, KindFacts DEF ShapeInv, Parent
<1>3. CASE \E r \in Stmts : j = Ard(r) \/ j = Apd(r)
  BY <1>3, KindFacts DEF ShapeInv
<1> QED BY <1>1, <1>2, <1>3, SlotKinds

LEMMA LeaveSteps ==
  ASSUME IInv, NEW t \in Threads, Leave(t)
  PROVE  IInv'
<1> DEFINE h == ref[Api(t)]
<1>0. /\ TypeOK /\ ObjInv /\ StmtInv /\ ReleaserInv /\ ConnectedInv /\ NoDanglingRef /\ ShapeInv
      /\ PlaceInv /\ KindInv /\ HomeInv /\ ArgInv /\ NewInv /\ AssociateInv
      /\ ExclInv /\ DisconnectInv /\ ListInv /\ OwnInv
  BY DEF IInv, ObjInv, ThreadInv, CallerInv
<1>1. pc[t] = "leave" /\ Handle(t) # NULL /\ h \in Objs /\ life[h] = "live" /\ h # NULL
  BY <1>0, HandleLives DEF Leave, At, PlaceInv, Handle
<1>2. GivesUp(t, Api(t), "return")
  BY <1>1, SlotFacts DEF Leave, At, GoTo, GivesUp
<1>3. /\ TypeOK' /\ ObjInv' /\ AssociationsAgree' /\ CountersExact'
      /\ fn' = fn /\ home' = home /\ arg' = arg /\ stmts' = stmts /\ connected' = connected
      /\ pc'[t] = "return" /\ \A u \in Threads : u # t => pc'[u] = pc[u]
  BY <1>2, GiveUpFacts
<1>4. ref'[Api(t)] = NULL /\ \A j \in Slots : j # Api(t) => ref'[j] = ref[j]
  BY <1>2, GiveUpFacts
<1>5. /\ \A o \in Objs : o \notin Envs => ref'[Up(o)] = ref[Up(o)]
      /\ \A s \in Stmts : ref'[Ard(s)] = ref[Ard(s)] /\ ref'[Apd(s)] = ref[Apd(s)]
  BY <1>2, GiveUpFacts
<1>6. \A o \in Objs : \/ life'[o] = life[o] /\ releaser'[o] = releaser[o]
                      \/ /\ o = h /\ life[o] = "live" /\ life'[o] = "dying" /\ releaser'[o] = t
                         /\ \A j \in Slots : ref[j] = o => j = Api(t)
  BY <1>2, GiveUpFacts
<1>7. life'[h] = "live" => \E j \in Slots : j # Api(t) /\ ref[j] = h
  BY <1>2, GiveUpFacts
<1>8. \A c \in Conns, s \in Stmts :
        s \in stmts[c] <=> \/ ref'[Up(s)] = c /\ life'[s] \in {"new", "live", "dying"}
                           \/ \E u \in Threads : pc'[u] = "stmt_ref_conn" /\ arg[u] = s /\ Handle(u) = c
  BY <1>2, GiveUpFacts
<1>9. ref'[Api(t)] = NULL /\ \A u \in Threads : u # t => ref'[Api(u)] = ref[Api(u)]
  BY <1>4, SlotFacts, SlotsDiffer
<1>10. Handle(t)' = NULL /\ \A u \in Threads : u # t => Handle(u)' = Handle(u)
  BY <1>9 DEF Handle
<1>11. \A o \in Objs : ref'[App(o)] = ref[App(o)]
  BY <1>4, SlotFacts, SlotsDiffer
<1>12. \A o \in Objs : life'[o] = "new" <=> life[o] = "new"
  BY <1>6
<1>13. \A u \in Threads : arg[u] # NULL => arg[u] \in Objs /\ arg[u] \notin Envs
  BY <1>0, KindFacts DEF TypeOK
<1>14. PlaceInv'
  BY <1>0, <1>1, <1>3, <1>10 DEF PlaceInv, Frees
<1>15. KindInv'
  BY <1>0, <1>3, <1>10 DEF KindInv
<1>16. HomeInv'
  <2>1. \A u \in Threads : Handle(u) # NULL => ConnOf(Handle(u))' = IF u = t THEN ConnOf(NULL)' ELSE ConnOf(Handle(u))
    BY <1>0, <1>5, <1>10, HandleLives, KindFacts DEF ConnOf, Parent
  <2> QED BY <1>0, <1>3, <1>10, <2>1 DEF HomeInv
<1>17. ArgInv'
  <2> SUFFICES ASSUME NEW u \in Threads
               PROVE  /\ arg[u] # NULL =>
                           /\ fn[u] \in {"alloc_conn", "alloc_stmt", "alloc_desc"} \cup Sets
                           /\ fn[u] = "alloc_conn" => arg[u] \in Conns
                           /\ fn[u] = "alloc_stmt" => arg[u] \in Stmts
                           /\ fn[u] \in {"alloc_desc"} \cup Sets => arg[u] \in Descs
                           /\ pc'[u] \in Creating => life'[arg[u]] = "new"
                           /\ pc'[u] \notin Creating => ref'[App(arg[u])] = arg[u]
                      /\ pc'[u] \in Creating =>
                           /\ arg[u] # NULL
                           /\ ref'[Up(arg[u])] = IF pc'[u] = "stmt_ref_conn" THEN NULL ELSE ref'[Api(u)]
    BY <1>3 DEF ArgInv, Parent, Handle
  <2>1. arg[u] # NULL => ref'[App(arg[u])] = ref[App(arg[u])] /\ (life'[arg[u]] = "new" <=> life[arg[u]] = "new")
                         /\ ref'[Up(arg[u])] = ref[Up(arg[u])]
    BY <1>5, <1>11, <1>12, <1>13
  <2>2. CASE u = t
    BY <1>0, <1>1, <1>3, <2>1, <2>2 DEF ArgInv, Creating
  <2>3. CASE u # t
    BY <1>0, <1>3, <1>9, <2>1, <2>3 DEF ArgInv, Parent, Handle
  <2> QED BY <2>2, <2>3
<1>18. NewInv'
  BY <1>0, <1>1, <1>3, <1>12 DEF NewInv, Creating
<1>19. AssociateInv'
  <2> SUFFICES ASSUME NEW u \in Threads, u # t, pc[u] \in {"associate_ard", "associate_apd"}
               PROVE  /\ arg[u] # NULL /\ ref'[Up(arg[u])] = ref'[Up(Handle(u))]
                      /\ pc[u] = "associate_ard" => ref'[Ard(Handle(u))] = NULL /\ ref'[Apd(Handle(u))] # arg[u]
                      /\ pc[u] = "associate_apd" => ref'[Apd(Handle(u))] = NULL /\ ref'[Ard(Handle(u))] # arg[u]
    BY <1>3, <1>10 DEF AssociateInv, Parent
  <2>1. Handle(u) \in Stmts
    BY <1>0 DEF PlaceInv, KindInv, Sets
  <2>2. /\ arg[u] # NULL /\ ref[Up(arg[u])] = ref[Up(Handle(u))]
        /\ pc[u] = "associate_ard" => ref[Ard(Handle(u))] = NULL /\ ref[Apd(Handle(u))] # arg[u]
        /\ pc[u] = "associate_apd" => ref[Apd(Handle(u))] = NULL /\ ref[Ard(Handle(u))] # arg[u]
    BY <1>0 DEF AssociateInv, Parent
  <2>3. Handle(u) \in Objs /\ Handle(u) \notin Envs /\ arg[u] \in Objs /\ arg[u] \notin Envs
    BY <1>13, <2>1, <2>2, KindFacts
  <2> QED BY <1>5, <2>1, <2>2, <2>3
<1>20. CallerInv'
  <2>1. \A u \in Threads : \A o : o # NULL /\ Uses(u, o)' => Uses(u, o)
    BY <1>3, <1>10 DEF Uses
  <2>2. ExclInv'
    BY <1>0, <1>3, <1>10, <2>1 DEF ExclInv
  <2>3. DisconnectInv'
    <3>1. \A c \in Conns : \A s \in stmts[c] : s # NULL
      BY <1>0, KindFacts DEF TypeOK
    <3>2. \A u \in Threads : fn[u] = "disconnect" /\ Handle(u) # NULL => Handle(u) \in Conns
      BY <1>0 DEF KindInv
    <3> QED BY <1>0, <1>3, <1>10, <2>1, <3>1, <3>2 DEF DisconnectInv
  <2>4. ListInv'
    BY <1>0, <1>3 DEF ListInv
  <2>5. OwnInv'
    BY <1>0, <1>3, <1>10, <1>11, HandleLives DEF OwnInv
  <2> QED BY <2>2, <2>3, <2>4, <2>5 DEF CallerInv
<1>21. h \in Stmts => ConnOf(h) = ref[Up(h)] /\ home[t] = ref[Up(h)]
  BY <1>0, <1>1 DEF HomeInv, ConnOf, Parent, Handle
<1>22. StmtInv'
  <2>1. ASSUME NEW s \in Stmts, life'[s] = "live"
        PROVE  ref'[App(s)] = s \/ \E u \in Threads : Handle(u)' = s /\ fn'[u] = "free_stmt"
    <3>1. s \in Objs /\ s # NULL /\ life[s] = "live"
      BY <1>6, <2>1, KindFacts
    <3>2. CASE ref[App(s)] = s
      BY <1>11, <3>1, <3>2
    <3>3. CASE ref[App(s)] # s
      <4>1. PICK u \in Threads : Handle(u) = s /\ fn[u] = "free_stmt"
        BY <1>0, <3>1, <3>3 DEF StmtInv
      <4>2. CASE u # t
        BY <1>3, <1>10, <4>1, <4>2
      <4>3. CASE u = t
        <5>1. PICK j \in Slots : j # Api(t) /\ ref[j] = s
          BY <1>7, <2>1, <4>1, <4>3 DEF Handle
        <5>2. PICK v \in Threads : j = Api(v)
          BY <1>0, <3>3, <5>1, StmtRefs
        <5>3. v # t /\ Handle(v) = s
          BY <5>1, <5>2 DEF Handle
        <5>4. fn[v] # "none"
          BY <1>0, <3>1, <5>3 DEF PlaceInv
        <5> QED BY <1>0, <3>1, <4>1, <4>3, <5>3, <5>4 DEF ExclInv, EndingCalls, Uses
      <4> QED BY <4>2, <4>3
    <3> QED BY <3>2, <3>3
  <2>2. \A u \in Threads : pc'[u] = "stmt_ref_conn" => u # t /\ Handle(u)' = Handle(u)
    BY <1>3, <1>10
  <2>3. \A c \in Conns, s \in Stmts :
          s \in stmts[c] <=> \/ ref'[Up(s)] = c /\ life'[s] \in {"new", "live", "dying"}
                             \/ \E u \in Threads : pc'[u] = "stmt_ref_conn" /\ arg[u] = s /\ Handle(u)' = c
    BY <1>8, <2>2
  <2> QED BY <1>3, <2>1, <2>3 DEF StmtInv, Parent
<1>23. ReleaserInv'
  <2>1. ASSUME NEW o \in Objs, releaser'[o] # NULL
        PROVE  /\ fn[releaser'[o]] # "none"
               /\ o \in Stmts => fn[releaser'[o]] \in {"free_stmt", "disconnect"} /\ home[releaser'[o]] = ref'[Up(o)]
    <3>1. CASE releaser'[o] = releaser[o]
      BY <1>0, <1>5, <2>1, <3>1, KindFacts DEF ReleaserInv, Parent
    <3>2. CASE o = h /\ releaser'[o] = t /\ \A j \in Slots : ref[j] = o => j = Api(t)
      <4>1. fn[t] # "none"
        BY <1>0, <1>1 DEF PlaceInv
      <4>2. ref[App(o)] # o
        BY <3>2, SlotFacts, SlotsDiffer
      <4>3. fn[t] \in Frees
        BY <1>0, <1>1, <3>2, <4>2 DEF OwnInv, Handle
      <4>4. o \in Stmts => fn[t] = "free_stmt"
        BY <1>0, <1>1, <3>2, <4>3, KindFacts DEF KindInv, Frees, Handle
      <4>5. o \in Stmts => home[t] = ref'[Up(o)]
        BY <1>5, <1>21, <3>2, KindFacts
      <4> QED BY <3>2, <4>1, <4>4, <4>5
    <3> QED BY <1>6, <3>1, <3>2
  <2> QED BY <1>3, <2>1 DEF ReleaserInv, Parent
<1>24. ConnectedInv'
  <2>1. \A c \in Conns : connected'[c] => ref'[App(c)] = c
    BY <1>0, <1>3, <1>11, KindFacts DEF ConnectedInv
  <2>2. \A c \in Conns : stmts'[c] # {} => connected'[c]
    BY <1>0, <1>3 DEF ConnectedInv
  <2>3. ASSUME NEW u \in Threads, u # t, Handle(u) # NULL
        PROVE  /\ fn[u] = "alloc_stmt" => connected[Handle(u)]
               /\ pc[u] = "drop_own" /\ fn[u] = "free_conn" => ~connected[Handle(u)]
               /\ fn[u] = "connect" =>
                    /\ stmts[Handle(u)] = {}
                    /\ pc[u] = "connect" => ~connected[Handle(u)]
                    /\ \A v \in Threads : Handle(v)' = Handle(u) /\ v # u =>
                         fn[v] \notin {"alloc_stmt", "connect", "disconnect"}
    BY <1>0, <1>10, <2>3 DEF ConnectedInv
  <2> QED BY <1>3, <1>10, <2>1, <2>2, <2>3 DEF ConnectedInv
<1> QED BY <1>3, <1>14, <1>15, <1>16, <1>17, <1>18, <1>19, <1>20, <1>22, <1>23, <1>24 DEF IInv, ThreadInv

\* The creation reference goes, by a call that frees the handle or by a disconnect.
LEMMA OwnDropSteps ==
  ASSUME IInv, NEW t \in Threads, NEW o \in Objs, NEW p, GivesUp(t, App(o), p),
         p = pc[t] \/ (p = "leave" /\ Turn(t, p)), fn[t] # "none",
         \A u \in Threads : arg[u] # o /\ (Handle(u) = o => u = t /\ fn[t] \in Frees /\ p = "leave"),
         o \in Conns => ~connected[o],
         o \in Stmts => /\ fn[t] \in {"free_stmt", "disconnect"} /\ home[t] = Parent(o)
                        /\ (Handle(t) = o /\ fn[t] = "free_stmt") \/ \A u \in Threads : Handle(u) # o
  PROVE  IInv'
<1> DEFINE k == App(o)
<1>0. /\ TypeOK /\ ObjInv /\ StmtInv /\ ReleaserInv /\ ConnectedInv /\ NoDanglingRef /\ ShapeInv
      /\ PlaceInv /\ KindInv /\ HomeInv /\ ArgInv /\ NewInv /\ AssociateInv
      /\ ExclInv /\ DisconnectInv /\ ListInv /\ OwnInv
  BY DEF IInv, ObjInv, ThreadInv, CallerInv
<1>1. ref[k] = o /\ o # NULL
  BY <1>0, KindFacts DEF GivesUp, ShapeInv
<1>2. /\ TypeOK' /\ ObjInv' /\ AssociationsAgree' /\ CountersExact'
      /\ fn' = fn /\ home' = home /\ arg' = arg /\ stmts' = stmts /\ connected' = connected
      /\ pc'[t] = p /\ \A u \in Threads : u # t => pc'[u] = pc[u]
  BY GiveUpFacts
<1>3. ref'[k] = NULL /\ \A j \in Slots : j # k => ref'[j] = ref[j]
  BY GiveUpFacts
<1>4. /\ \A x \in Objs : x \notin Envs => ref'[Up(x)] = ref[Up(x)]
      /\ \A s \in Stmts : ref'[Ard(s)] = ref[Ard(s)] /\ ref'[Apd(s)] = ref[Apd(s)]
  BY GiveUpFacts
<1>5. \A x \in Objs : \/ life'[x] = life[x] /\ releaser'[x] = releaser[x]
                      \/ x = o /\ life[x] = "live" /\ life'[x] = "dying" /\ releaser'[x] = t
  BY <1>1, GiveUpFacts
<1>6. life'[o] = "live" => \E j \in Slots : j # k /\ ref[j] = o
  BY <1>1, GiveUpFacts
<1>7. \A c \in Conns, s \in Stmts :
        s \in stmts[c] <=> \/ ref'[Up(s)] = c /\ life'[s] \in {"new", "live", "dying"}
                           \/ \E u \in Threads : pc'[u] = "stmt_ref_conn" /\ arg[u] = s /\ Handle(u) = c
  BY GiveUpFacts
<1>8. \A u \in Threads : Handle(u)' = Handle(u)
  BY <1>3, SlotFacts, SlotsDiffer DEF Handle
<1>9. \A x \in Objs : x # o => ref'[App(x)] = ref[App(x)]
  BY <1>3, SlotFacts, SlotsDiffer
<1>10. \A x \in Objs : life'[x] = "new" <=> life[x] = "new"
  BY <1>5
<1>11. \A u \in Threads : arg[u] # NULL => arg[u] \in Objs /\ arg[u] \notin Envs /\ arg[u] # o
  BY <1>0, KindFacts DEF TypeOK
<1>12. \A u \in Threads : /\ pc'[u] \in Creating <=> pc[u] \in Creating
                          /\ pc'[u] = "stmt_ref_conn" <=> pc[u] = "stmt_ref_conn"
                          /\ pc[u] = "leave" => pc'[u] = "leave"
                          /\ pc'[u] # "leave" => pc'[u] = pc[u]
  BY <1>2 DEF Turn, Creating
<1>13. PlaceInv'
  BY <1>0, <1>2, <1>8 DEF PlaceInv, Turn, Creating, Frees
<1>14. KindInv'
  BY <1>0, <1>2, <1>8 DEF KindInv
<1>15. HomeInv'
  <2>1. \A u \in Threads : Handle(u) # NULL => ConnOf(Handle(u))' = ConnOf(Handle(u))
    BY <1>0, <1>4, <1>8, HandleLives, KindFacts DEF ConnOf, Parent
  <2> QED BY <1>0, <1>2, <1>8, <2>1 DEF HomeInv
<1>16. ArgInv'
  <2> SUFFICES ASSUME NEW u \in Threads
               PROVE  /\ arg[u] # NULL =>
                           /\ fn[u] \in {"alloc_conn", "alloc_stmt", "alloc_desc"} \cup Sets
                           /\ fn[u] = "alloc_conn" => arg[u] \in Conns
                           /\ fn[u] = "alloc_stmt" => arg[u] \in Stmts
                           /\ fn[u] \in {"alloc_desc"} \cup Sets => arg[u] \in Descs
                           /\ pc'[u] \in Creating => life'[arg[u]] = "new"
                           /\ pc'[u] \notin Creating => ref'[App(arg[u])] = arg[u]
                      /\ pc'[u] \in Creating =>
                           /\ arg[u] # NULL
                           /\ ref'[Up(arg[u])] = IF pc'[u] = "stmt_ref_conn" THEN NULL ELSE Handle(u)
    BY <1>2, <1>8 DEF ArgInv, Parent
  <2>1. arg[u] # NULL => ref'[App(arg[u])] = ref[App(arg[u])] /\ (life'[arg[u]] = "new" <=> life[arg[u]] = "new")
                         /\ ref'[Up(arg[u])] = ref[Up(arg[u])]
    BY <1>4, <1>9, <1>10, <1>11
  <2> QED BY <1>0, <1>12, <2>1 DEF ArgInv, Parent
<1>17. NewInv'
  BY <1>0, <1>2, <1>10, <1>12 DEF NewInv
<1>18. AssociateInv'
  <2> SUFFICES ASSUME NEW u \in Threads, pc[u] \in {"associate_ard", "associate_apd"}
               PROVE  /\ arg[u] # NULL /\ ref'[Up(arg[u])] = ref'[Up(Handle(u))]
                      /\ pc[u] = "associate_ard" => ref'[Ard(Handle(u))] = NULL /\ ref'[Apd(Handle(u))] # arg[u]
                      /\ pc[u] = "associate_apd" => ref'[Apd(Handle(u))] = NULL /\ ref'[Ard(Handle(u))] # arg[u]
    BY <1>2, <1>8, <1>12 DEF AssociateInv, Parent
  <2>1. Handle(u) \in Stmts
    BY <1>0 DEF PlaceInv, KindInv, Sets
  <2>2. /\ arg[u] # NULL /\ ref[Up(arg[u])] = ref[Up(Handle(u))]
        /\ pc[u] = "associate_ard" => ref[Ard(Handle(u))] = NULL /\ ref[Apd(Handle(u))] # arg[u]
        /\ pc[u] = "associate_apd" => ref[Apd(Handle(u))] = NULL /\ ref[Ard(Handle(u))] # arg[u]
    BY <1>0 DEF AssociateInv, Parent
  <2>3. Handle(u) \in Objs /\ Handle(u) \notin Envs /\ arg[u] \in Objs /\ arg[u] \notin Envs
    BY <1>11, <2>1, <2>2, KindFacts
  <2> QED BY <1>4, <2>1, <2>2, <2>3
<1>19. CallerInv'
  <2>1. \A u \in Threads : \A x : Uses(u, x)' <=> Uses(u, x)
    BY <1>2, <1>8 DEF Uses
  <2>2. ExclInv'
    BY <1>0, <1>2, <1>8, <2>1 DEF ExclInv
  <2>3. DisconnectInv'
    BY <1>0, <1>2, <1>8, <2>1 DEF DisconnectInv
  <2>4. ListInv'
    BY <1>0, <1>2 DEF ListInv
  <2>5. OwnInv'
    BY <1>0, <1>2, <1>8, <1>9, <1>12, HandleLives DEF OwnInv
  <2> QED BY <2>2, <2>3, <2>4, <2>5 DEF CallerInv
<1>20. StmtInv'
  <2>1. ASSUME NEW s \in Stmts, life'[s] = "live"
        PROVE  ref'[App(s)] = s \/ \E u \in Threads : Handle(u) = s /\ fn[u] = "free_stmt"
    <3>1. s \in Objs /\ life[s] = "live"
      BY <1>5, <2>1, KindFacts
    <3>2. CASE s # o
      BY <1>0, <1>9, <3>1, <3>2 DEF StmtInv
    <3>3. CASE s = o
      <4> SUFFICES ASSUME \A u \in Threads : Handle(u) # o PROVE FALSE
        BY <3>3
      <4>1. PICK j \in Slots : j # k /\ ref[j] = o
        BY <1>6, <2>1, <3>3
      <4>2. PICK u \in Threads : j = Api(u)
        BY <1>0, <3>3, <4>1, StmtRefs
      <4> QED BY <4>1, <4>2 DEF Handle
    <3> QED BY <3>2, <3>3
  <2> QED BY <1>2, <1>7, <1>8, <2>1 DEF StmtInv, Parent
<1>21. ReleaserInv'
  <2>1. ASSUME NEW x \in Objs, releaser'[x] # NULL
        PROVE  /\ fn[releaser'[x]] # "none"
               /\ x \in Stmts => fn[releaser'[x]] \in {"free_stmt", "disconnect"} /\ home[releaser'[x]] = ref'[Up(x)]
    <3>1. CASE releaser'[x] = releaser[x]
      BY <1>0, <1>4, <2>1, <3>1, KindFacts DEF ReleaserInv, Parent
    <3>2. CASE x = o /\ releaser'[x] = t
      BY <1>4, <3>2, KindFacts DEF Parent
    <3> QED BY <1>5, <3>1, <3>2
  <2> QED BY <1>2, <2>1 DEF ReleaserInv, Parent
<1>22. ConnectedInv'
  <2>1. \A c \in Conns : connected'[c] => ref'[App(c)] = c
    BY <1>0, <1>2, <1>9, KindFacts DEF ConnectedInv
  <2>2. \A c \in Conns : stmts'[c] # {} => connected'[c]
    BY <1>0, <1>2 DEF ConnectedInv
  <2>3. ASSUME NEW u \in Threads, Handle(u) # NULL
        PROVE  /\ fn[u] = "alloc_stmt" => connected[Handle(u)]
               /\ pc'[u] = "drop_own" /\ fn[u] = "free_conn" => ~connected[Handle(u)]
               /\ fn[u] = "connect" =>
                    /\ stmts[Handle(u)] = {}
                    /\ pc'[u] = "connect" => ~connected[Handle(u)]
                    /\ \A v \in Threads : Handle(v) = Handle(u) /\ v # u =>
                         fn[v] \notin {"alloc_stmt", "connect", "disconnect"}
    BY <1>0, <1>12, <2>3 DEF ConnectedInv
  <2> QED BY <1>2, <1>8, <2>1, <2>2, <2>3 DEF ConnectedInv
<1> QED BY <1>2, <1>13, <1>14, <1>15, <1>16, <1>17, <1>18, <1>19, <1>20, <1>21, <1>22 DEF IInv, ThreadInv

LEMMA DropOwnSteps ==
  ASSUME IInv, NEW t \in Threads, DropOwn(t)
  PROVE  IInv'
<1> DEFINE o == Handle(t)
<1>0. /\ TypeOK /\ NoDanglingRef /\ PlaceInv /\ KindInv /\ HomeInv /\ ArgInv /\ ExclInv /\ OwnInv /\ ConnectedInv
  BY DEF IInv, ObjInv, ThreadInv, CallerInv
<1>1. pc[t] \in {"drop_own", "free_stmt"} /\ fn[t] \in Frees /\ o # NULL /\ o \in Objs
  BY <1>0, HandleLives DEF DropOwn, At, PlaceInv, Frees
<1>2. pc[t] = "free_stmt" => fn[t] = "free_stmt"
  BY <1>0 DEF PlaceInv, Frees
<1>3. pc[t] = "drop_own" => fn[t] # "free_stmt"
  BY <1>0 DEF PlaceInv
<1>4. ref[App(o)] = o
  BY <1>0, <1>1 DEF OwnInv
<1>5. GivesUp(t, App(o), "leave")
  BY <1>1, <1>4, SlotFacts DEF DropOwn, GoTo, GivesUp
<1>6. Turn(t, "leave")
  BY <1>1 DEF Turn, Creating
<1>7. fn[t] # "none" /\ fn[t] \in EndingCalls
  BY <1>1 DEF Frees, EndingCalls
<1>8. \A u \in Threads : arg[u] # o /\ (Handle(u) = o => u = t)
  <2>1. arg[t] # o
    BY <1>0, <1>1 DEF ArgInv, Frees, Sets
  <2>2. \A u \in Threads : u # t => ~Uses(u, o)
    BY <1>0, <1>1, <1>7 DEF ExclInv
  <2>3. \A u \in Threads : arg[u] # NULL => fn[u] # "none"
    BY <1>0 DEF ArgInv, Sets
  <2>4. \A u \in Threads : Handle(u) # NULL => fn[u] # "none"
    BY <1>0 DEF PlaceInv
  <2> QED BY <1>1, <2>1, <2>2, <2>3, <2>4 DEF Uses
<1>9. o \in Conns => ~connected[o]
  <2> SUFFICES ASSUME o \in Conns PROVE ~connected[o]
    OBVIOUS
  <2>1. fn[t] = "free_conn"
    BY <1>0, <1>1, KindFacts DEF KindInv, Frees
  <2>2. pc[t] = "drop_own"
    BY <1>1, <1>2, <2>1
  <2> QED BY <1>0, <1>1, <2>1, <2>2 DEF ConnectedInv
<1>10. o \in Stmts => fn[t] = "free_stmt" /\ home[t] = Parent(o)
  <2>1. o \in Stmts => fn[t] = "free_stmt"
    BY <1>0, <1>1, KindFacts DEF KindInv, Frees
  <2>2. o \in Stmts => ConnOf(o) = Parent(o)
    BY DEF ConnOf
  <2> QED BY <1>0, <1>1, <2>1, <2>2 DEF HomeInv
<1> HIDE DEF o
<1>11. o \in Stmts => Handle(t) = o
  BY DEF o
<1> QED BY <1>1, <1>5, <1>6, <1>7, <1>8, <1>9, <1>10, <1>11, OwnDropSteps

\* What conn_disconnect finds in the list: statements that only the application refers to.
LEMMA ListedStmts ==
  ASSUME IInv, NEW t \in Threads, At(t, "disconnect"), NEW s \in stmts[Handle(t)]
  PROVE  /\ s \in Stmts /\ life[s] = "live" /\ ref[App(s)] = s /\ Parent(s) = Handle(t)
         /\ fn[t] = "disconnect" /\ home[t] = Handle(t)
         /\ \A u \in Threads : arg[u] # s /\ Handle(u) # s
<1> DEFINE c == Handle(t)
<1>0. /\ TypeOK /\ NoDanglingRef /\ LifeInv /\ PlaceInv /\ KindInv /\ HomeInv /\ ArgInv /\ NewInv
      /\ DisconnectInv /\ ListInv /\ StmtInv /\ ReleaserInv /\ ConnectedInv
  BY DEF IInv, ObjInv, ThreadInv, CallerInv
<1>1. pc[t] = "disconnect" /\ c # NULL /\ c \in Conns /\ ~Releasing(t)
  BY <1>0 DEF At, PlaceInv, KindInv
<1>2. s \in Stmts /\ s \in Objs /\ s # NULL /\ s # c
  BY <1>0, <1>1, KindFacts DEF TypeOK
<1>3. fn[t] = "disconnect"
  BY <1>0, <1>1 DEF PlaceInv, ConnectedInv
<1>4. home[t] = c
  BY <1>0, <1>1, KindFacts DEF HomeInv, ConnOf
<1>5. \A u \in Threads : u # t /\ fn[u] \in ListCalls => home[u] # c
  BY <1>0, <1>3, <1>4 DEF ListInv, ListCalls
<1>6. \A u \in Threads : Handle(u) = c => fn[u] # "alloc_stmt"
  BY <1>0, <1>1, <1>3, <1>5, KindFacts DEF HomeInv, ConnOf, ListCalls
<1>7. Parent(s) = c /\ life[s] \in {"new", "live", "dying"}
  BY <1>0, <1>1, <1>2, <1>6 DEF StmtInv, PlaceInv
<1>8. life[s] # "new"
  <2> SUFFICES ASSUME life[s] = "new" PROVE FALSE
    OBVIOUS
  <2>1. PICK u \in Threads : pc[u] \in Creating /\ arg[u] = s
    BY <1>0, <1>2 DEF NewInv
  <2>2. fn[u] = "alloc_stmt"
    BY <1>0, <1>2, <2>1, KindFacts DEF ArgInv, PlaceInv, Creating, Sets
  <2>3. Handle(u) = c
    BY <1>0, <1>1, <1>7, <2>1 DEF ArgInv
  <2> QED BY <1>6, <2>2, <2>3
<1>9. life[s] # "dying"
  <2> SUFFICES ASSUME life[s] = "dying" PROVE FALSE
    OBVIOUS
  <2>1. releaser[s] # NULL /\ releaser[s] \in Threads
    BY <1>0, <1>2 DEF LifeInv, TypeOK
  <2>2. fn[releaser[s]] \in ListCalls /\ home[releaser[s]] = c
    BY <1>0, <1>2, <1>7, <2>1 DEF ReleaserInv, ListCalls
  <2>3. releaser[s] = t
    BY <1>5, <2>1, <2>2
  <2> QED BY <1>1, <1>2, <2>3 DEF Releasing
<1>10. life[s] = "live"
  BY <1>7, <1>8, <1>9
<1>11. \A u \in Threads : u # t => ~Uses(u, s)
  BY <1>0, <1>1, <1>3 DEF DisconnectInv
<1>12. \A u \in Threads : arg[u] # s /\ Handle(u) # s
  <2>1. arg[t] = NULL
    BY <1>0, <1>3 DEF ArgInv, Sets
  <2>2. \A u \in Threads : arg[u] # NULL => fn[u] # "none"
    BY <1>0 DEF ArgInv, Sets
  <2>3. \A u \in Threads : Handle(u) # NULL => fn[u] # "none"
    BY <1>0 DEF PlaceInv
  <2> QED BY <1>2, <1>11, <2>1, <2>2, <2>3 DEF Uses
<1>13. ref[App(s)] = s
  BY <1>0, <1>2, <1>10, <1>12 DEF StmtInv
<1> QED BY <1>2, <1>3, <1>4, <1>7, <1>10, <1>12, <1>13

LEMMA DisconnectStmtSteps ==
  ASSUME IInv, NEW t \in Threads, DisconnectStmt(t)
  PROVE  IInv'
<1>1. At(t, "disconnect")
  BY DEF DisconnectStmt
<1>2. PICK s \in stmts[Handle(t)] : Drop(t, App(s))
  BY DEF DisconnectStmt
<1>3. /\ s \in Stmts /\ life[s] = "live" /\ ref[App(s)] = s /\ Parent(s) = Handle(t)
      /\ fn[t] = "disconnect" /\ home[t] = Handle(t)
      /\ \A u \in Threads : arg[u] # s /\ Handle(u) # s
  BY <1>1, ListedStmts
<1>4. s \in Objs /\ s # NULL /\ s \notin Conns
  BY <1>3, KindFacts
<1>5. pc' = [pc EXCEPT ![t] = pc[t]]
  BY DEF DisconnectStmt, IInv, TypeOK
<1>6. GivesUp(t, App(s), pc[t])
  BY <1>2, <1>3, <1>4, <1>5, SlotFacts DEF GivesUp, DisconnectStmt
<1> QED BY <1>3, <1>4, <1>6, OwnDropSteps

-----------------------------------------------------------------------------
(* A call returns, and a call begins.                                      *)

LEMMA ReturnSteps ==
  ASSUME IInv, NEW t \in Threads, Return(t)
  PROVE  IInv'
<1>0. /\ TypeOK /\ ObjInv /\ StmtInv /\ ReleaserInv /\ ConnectedInv /\ CountersExact /\ AssociationsAgree
      /\ PlaceInv /\ KindInv /\ HomeInv /\ ArgInv /\ NewInv /\ AssociateInv
      /\ ExclInv /\ DisconnectInv /\ ListInv /\ OwnInv
  BY DEF IInv, ThreadInv, CallerInv
<1>1. /\ pc[t] = "return" /\ \A o \in Objs : releaser[o] # t
      /\ fn' = [fn EXCEPT ![t] = "none"] /\ home' = [home EXCEPT ![t] = NULL]
      /\ arg' = [arg EXCEPT ![t] = NULL] /\ pc' = [pc EXCEPT ![t] = "idle"]
      /\ UNCHANGED <<life, refc, ref, releaser, conns, descs, stmts, nr_stmts, asARD, asAPD, connected, outstandings>>
  BY DEF Return, At, Releasing, GoTo, objVars, listVars, connVars
<1>2. /\ fn'[t] = "none" /\ home'[t] = NULL /\ arg'[t] = NULL /\ pc'[t] = "idle"
      /\ \A u \in Threads : u # t => fn'[u] = fn[u] /\ home'[u] = home[u] /\ arg'[u] = arg[u] /\ pc'[u] = pc[u]
  BY <1>0, <1>1 DEF TypeOK
<1>3. \A u \in Threads : Handle(u)' = Handle(u)
  BY <1>1 DEF Handle
<1>4. Handle(t) = NULL
  BY <1>0, <1>1 DEF PlaceInv
<1>5. TypeOK'
  BY <1>0, <1>1 DEF TypeOK
<1>6. ObjInv'
  BY <1>0, <1>1, ObjFrame DEF objVars
<1>7. PlaceInv'
  BY <1>0, <1>2, <1>3, <1>4 DEF PlaceInv, Frees
<1>8. KindInv'
  BY <1>0, <1>2, <1>3, <1>4 DEF KindInv
<1>9. HomeInv'
  <2>1. \A x : ConnOf(x)' = ConnOf(x)
    BY <1>1 DEF ConnOf, Parent
  <2> QED BY <1>0, <1>2, <1>3, <1>4, <2>1 DEF HomeInv
<1>10. ArgInv'
  <2> SUFFICES ASSUME NEW u \in Threads
               PROVE  /\ arg'[u] # NULL =>
                           /\ fn'[u] \in {"alloc_conn", "alloc_stmt", "alloc_desc"} \cup Sets
                           /\ fn'[u] = "alloc_conn" => arg'[u] \in Conns
                           /\ fn'[u] = "alloc_stmt" => arg'[u] \in Stmts
                           /\ fn'[u] \in {"alloc_desc"} \cup Sets => arg'[u] \in Descs
                           /\ pc'[u] \in Creating => life[arg'[u]] = "new"
                           /\ pc'[u] \notin Creating => ref[App(arg'[u])] = arg'[u]
                      /\ pc'[u] \in Creating =>
                           /\ arg'[u] # NULL
                           /\ ref[Up(arg'[u])] = IF pc'[u] = "stmt_ref_conn" THEN NULL ELSE Handle(u)
    BY <1>1, <1>3 DEF ArgInv, Parent
  <2>1. CASE u = t
    BY <1>2, <2>1 DEF Creating
  <2>2. CASE u # t
    BY <1>0, <1>2, <2>2 DEF ArgInv, Parent
  <2> QED BY <2>1, <2>2
<1>11. NewInv'
  <2>1. \A u \in Threads : pc[u] \in Creating => u # t
    BY <1>1 DEF Creating
  <2>2. \A o \in Objs : life'[o] = "new" => \E u \in Threads : pc'[u] \in Creating /\ arg'[u] = o
    BY <1>0, <1>1, <1>2, <2>1 DEF NewInv
  <2>3. \A u, v \in Threads : u # v /\ arg'[u] = arg'[v] /\ arg'[u] # NULL => fn'[u] \in Sets /\ fn'[v] \in Sets
    BY <1>0, <1>2 DEF NewInv
  <2> QED BY <2>2, <2>3 DEF NewInv
<1>12. AssociateInv'
  <2> SUFFICES ASSUME NEW u \in Threads, pc'[u] \in {"associate_ard", "associate_apd"}
               PROVE  /\ arg'[u] # NULL /\ ref[Up(arg'[u])] = ref[Up(Handle(u))]
                      /\ pc'[u] = "associate_ard" => ref[Ard(Handle(u))] = NULL /\ ref[Apd(Handle(u))] # arg'[u]
                      /\ pc'[u] = "associate_apd" => ref[Apd(Handle(u))] = NULL /\ ref[Ard(Handle(u))] # arg'[u]
    BY <1>1, <1>3 DEF AssociateInv, Parent
  <2>1. u # t
    BY <1>2
  <2> QED BY <1>0, <1>2, <2>1 DEF AssociateInv, Parent
<1>13. CallerInv'
  <2>1. \A u \in Threads : \A o : Uses(u, o)' => Uses(u, o)
    BY <1>2, <1>3 DEF Uses
  <2>2. \A u \in Threads : fn'[u] # "none" => fn'[u] = fn[u] /\ home'[u] = home[u]
    BY <1>2
  <2>3. ExclInv'
    BY <1>0, <1>3, <2>1, <2>2 DEF ExclInv, EndingCalls
  <2>4. DisconnectInv'
    BY <1>0, <1>1, <1>3, <2>1, <2>2 DEF DisconnectInv
  <2>5. ListInv'
    BY <1>0, <2>2 DEF ListInv, ListCalls
  <2>6. OwnInv'
    BY <1>0, <1>1, <1>2, <1>3, <1>4 DEF OwnInv
  <2> QED BY <2>3, <2>4, <2>5, <2>6 DEF CallerInv
<1>14. AssociationsAgree'
  BY <1>0, <1>1, AssocFrame
<1>15. StmtInv'
  <2>1. \A s \in Stmts : life'[s] = "live" =>
          ref'[App(s)] = s \/ \E u \in Threads : Handle(u)' = s /\ fn'[u] = "free_stmt"
    <3> SUFFICES ASSUME NEW s \in Stmts, life[s] = "live", ref[App(s)] # s
                 PROVE  \E u \in Threads : Handle(u) = s /\ fn'[u] = "free_stmt"
      BY <1>1, <1>3
    <3>1. PICK u \in Threads : Handle(u) = s /\ fn[u] = "free_stmt"
      BY <1>0 DEF StmtInv
    <3>2. u # t
      BY <1>4, <3>1, KindFacts
    <3> QED BY <1>2, <3>1, <3>2
  <2>2. ASSUME NEW c \in Conns, NEW s \in Stmts
        PROVE  (\E u \in Threads : pc'[u] = "stmt_ref_conn" /\ arg'[u] = s /\ Handle(u) = c)
                 <=> (\E u \in Threads : pc[u] = "stmt_ref_conn" /\ arg[u] = s /\ Handle(u) = c)
    <3>1. \A u \in Threads : pc[u] = "stmt_ref_conn" => u # t
      BY <1>1
    <3> QED BY <1>2, <3>1
  <2> QED BY <1>0, <1>1, <1>3, <2>1, <2>2 DEF StmtInv, Parent
<1>16. ReleaserInv'
  <2>1. \A o \in Objs : releaser[o] # NULL => releaser[o] \in Threads /\ releaser[o] # t
    BY <1>0, <1>1 DEF TypeOK
  <2> QED BY <1>0, <1>1, <1>2, <2>1 DEF ReleaserInv, Parent
<1>17. ConnectedInv'
  <2>1. ASSUME NEW u \in Threads, Handle(u) # NULL
        PROVE  /\ fn'[u] = "alloc_stmt" => connected[Handle(u)]
               /\ pc'[u] = "drop_own" /\ fn'[u] = "free_conn" => ~connected[Handle(u)]
               /\ fn'[u] = "connect" =>
                    /\ stmts[Handle(u)] = {}
                    /\ pc'[u] = "connect" => ~connected[Handle(u)]
                    /\ \A v \in Threads : Handle(v) = Handle(u) /\ v # u =>
                         fn'[v] \notin {"alloc_stmt", "connect", "disconnect"}
    BY <1>0, <1>2, <1>4, <2>1 DEF ConnectedInv
  <2> QED BY <1>0, <1>1, <1>3, <2>1 DEF ConnectedInv
<1>18. CountersExact'
  BY <1>0, <1>1 DEF CountersExact, Refs, Counted, Parent
<1> QED BY <1>5, <1>6, <1>7, <1>8, <1>9, <1>10, <1>11, <1>12, <1>13, <1>14, <1>15, <1>16, <1>17, <1>18
        DEF IInv, ThreadInv

\* Slot k may point to o.
Fits(k, o) ==
  \/ k = App(o)
  \/ \E t \in Threads : k = Api(t)
  \/ \E c \in Conns : k = Up(c) /\ o \in Envs
  \/ \E x \in Stmts \cup Descs : k = Up(x) /\ o \in Conns
  \/ \E s \in Stmts : k \in {Ard(s), Apd(s)} /\ o \in Descs

\* What an X_ref has to find for the objects to stay as they should be.
LEMMA AcquireObj ==
  ASSUME TypeOK, ObjInv, NEW k \in Slots, NEW o \in Objs, ref[k] = NULL, Acquire(k, o), Fits(k, o),
         releaser' = releaser, life'[o] = "live",
         \A x \in Objs : life'[x] # life[x] => life[x] \in {"none", "new"} /\ life'[x] \in {"new", "live"},
         \A x \in Objs : life'[x] = "live" => life[x] = "live" \/ x = o,
         \A e \in Envs : life'[e] # "new",
         \A x \in Objs \ Envs : life'[x] = "none" => k # Up(x),
         \A x \in Objs \ Envs : life'[x] = "live" => life[x] = "live" \/ Parent(x) # NULL,
         \A s \in Stmts : life'[s] \in {"none", "new"} => k # Ard(s) /\ k # Apd(s)
  PROVE  ObjInv'
<1>0. ShapeInv /\ RefcExact /\ NoDanglingRef /\ LifeInv
  BY DEF ObjInv
<1>1. /\ RefcExact' /\ ref'[k] = o /\ \A j \in Slots : j # k => ref'[j] = ref[j]
  BY <1>0, AcquireCount
<1>2. refc'[o] # 0 /\ \A p \in Objs : p # o => refc'[p] = refc[p]
  BY <1>0, AcquireCount
<1>3. o # NULL
  BY KindFacts
<1>4. ShapeInv'
  <2>1. \A x \in Objs : ref'[App(x)] \in {x, NULL}
    <3> TAKE x \in Objs
    <3>1. App(x) \in Slots
      BY SlotFacts
    <3>2. App(x) = k => o = x
      BY SlotsDiffer DEF Fits
    <3> QED BY <1>0, <1>1, <3>1, <3>2 DEF ShapeInv
  <2>2. \A c \in Conns : ref'[Up(c)] \in Envs \cup {NULL}
    <3> TAKE c \in Conns
    <3>1. Up(c) \in Slots /\ c \notin Stmts \cup Descs
      BY SlotFacts, KindFacts
    <3>2. Up(c) = k => o \in Envs
      BY <3>1, SlotsDiffer DEF Fits
    <3> QED BY <1>0, <1>1, <3>1, <3>2 DEF ShapeInv, Parent
  <2>3. \A x \in Stmts \cup Descs : ref'[Up(x)] \in Conns \cup {NULL}
    <3> TAKE x \in Stmts \cup Descs
    <3>1. Up(x) \in Slots /\ x \notin Conns
      BY SlotFacts, KindFacts
    <3>2. Up(x) = k => o \in Conns
      BY <3>1, SlotsDiffer DEF Fits
    <3> QED BY <1>0, <1>1, <3>1, <3>2 DEF ShapeInv, Parent
  <2>4. \A s \in Stmts : ref'[Ard(s)] \in Descs \cup {NULL} /\ ref'[Apd(s)] \in Descs \cup {NULL}
    <3> TAKE s \in Stmts
    <3>1. Ard(s) \in Slots /\ Apd(s) \in Slots
      BY SlotFacts
    <3>2. k \in {Ard(s), Apd(s)} => o \in Descs
      BY SlotsDiffer DEF Fits
    <3> QED BY <1>0, <1>1, <3>1, <3>2 DEF ShapeInv
  <2> QED BY <2>1, <2>2, <2>3, <2>4 DEF ShapeInv, Parent
<1>5. NoDanglingRef'
  <2>1. \A p \in Objs : life[p] = "live" => life'[p] = "live"
    OBVIOUS
  <2> QED BY <1>0, <2>1, AcquireSafe
<1>6. LifeInv'
  <2>1. \A x \in Objs : releaser'[x] # NULL <=> life'[x] \in {"dying", "leaving"}
    <3> TAKE x \in Objs
    <3>1. releaser[x] # NULL <=> life[x] \in {"dying", "leaving"}
      BY <1>0 DEF LifeInv
    <3>2. life'[x] \in {"dying", "leaving"} <=> life[x] \in {"dying", "leaving"}
      OBVIOUS
    <3> QED BY <3>1, <3>2
  <2>2. \A x \in Objs : life'[x] = "live" => refc'[x] # 0
    BY <1>0, <1>2 DEF LifeInv
  <2>3. \A e \in Envs : life'[e] \notin {"new", "leaving"}
    BY <1>0, KindFacts DEF LifeInv
  <2>4. \A x \in Objs \ Envs : life'[x] = "none" => ref'[Up(x)] = NULL
    <3> SUFFICES ASSUME NEW x \in Objs \ Envs, life'[x] = "none" PROVE ref'[Up(x)] = NULL
      OBVIOUS
    <3>1. life[x] = "none" /\ k # Up(x) /\ Up(x) \in Slots
      BY SlotFacts
    <3> QED BY <1>0, <1>1, <3>1 DEF LifeInv, Parent
  <2>5. \A x \in Objs \ Envs : life'[x] \in {"live", "dying", "leaving"} => ref'[Up(x)] # NULL
    <3> SUFFICES ASSUME NEW x \in Objs \ Envs, life'[x] \in {"live", "dying", "leaving"} PROVE ref'[Up(x)] # NULL
      OBVIOUS
    <3>1. Parent(x) # NULL /\ Up(x) \in Slots
      BY <1>0, SlotFacts DEF LifeInv
    <3> QED BY <1>1, <1>3, <3>1 DEF Parent
  <2>6. \A s \in Stmts : life'[s] \in {"none", "new"} => ref'[Ard(s)] = NULL /\ ref'[Apd(s)] = NULL
    <3> SUFFICES ASSUME NEW s \in Stmts, life'[s] \in {"none", "new"} PROVE ref'[Ard(s)] = NULL /\ ref'[Apd(s)] = NULL
      OBVIOUS
    <3>1. life[s] \in {"none", "new"} /\ k # Ard(s) /\ k # Apd(s)
      BY KindFacts
    <3> QED BY <1>0, <1>1, <3>1, SlotFacts DEF LifeInv
  <2> QED BY <2>1, <2>2, <2>3, <2>4, <2>5, <2>6 DEF LifeInv, Parent
<1> QED BY <1>1, <1>4, <1>5, <1>6 DEF ObjInv

\* The kind of handle a function is called with.
Takes(f, o) ==
  /\ f \in {"alloc_conn", "free_env"} => o \in Envs
  /\ f \in {"alloc_stmt", "alloc_desc", "connect", "disconnect", "free_conn"} => o \in Conns
  /\ f \in {"exec_direct", "free_stmt"} \cup Sets => o \in Stmts
  /\ f = "free_desc" => o \in Descs

\* The entry of any function, under what its callers see to.
LEMMA EnterSteps ==
  ASSUME IInv, NEW t \in Threads, NEW f \in Calls, NEW o \in Objs, NEW d,
         Enter(t, f, o), arg' = [arg EXCEPT ![t] = d], Takes(f, o),
         d # NULL => f \in Sets /\ d \in Descs /\ Usable(d),
         f \in {"alloc_stmt", "connect", "disconnect"} => ~Connecting(o),
         f = "alloc_stmt" => connected[o], f = "connect" => ~connected[o]
  PROVE  IInv'
<1>0. /\ TypeOK /\ ObjInv /\ StmtInv /\ ReleaserInv /\ ConnectedInv /\ CountersExact /\ AssociationsAgree
      /\ PlaceInv /\ KindInv /\ HomeInv /\ ArgInv /\ NewInv /\ AssociateInv
      /\ ExclInv /\ DisconnectInv /\ ListInv /\ OwnInv /\ NoDanglingRef
      /\ o # NULL /\ t # NULL
  BY KindFacts, ConstAssumption DEF IInv, ObjInv, ThreadInv, CallerInv
<1>1. /\ fn[t] = "none" /\ Usable(o)
      /\ f \in EndingCalls => \A p \in Ended(f, o), u \in Threads : ~Uses(u, p)
      /\ f \in ListCalls => \A u \in Threads : ~(fn[u] \in ListCalls /\ home[u] = ConnOf(o))
      /\ fn' = [fn EXCEPT ![t] = f] /\ home' = [home EXCEPT ![t] = ConnOf(o)]
      /\ arg' = [arg EXCEPT ![t] = d] /\ pc' = [pc EXCEPT ![t] = f]
      /\ Acquire(Api(t), o)
      /\ UNCHANGED <<life, releaser, conns, descs, stmts, nr_stmts, asARD, asAPD, connected, outstandings>>
  BY DEF Enter, listVars, connVars
<1>2. /\ fn'[t] = f /\ home'[t] = ConnOf(o) /\ arg'[t] = d /\ pc'[t] = f
      /\ \A u \in Threads : u # t => fn'[u] = fn[u] /\ home'[u] = home[u] /\ arg'[u] = arg[u] /\ pc'[u] = pc[u]
  BY <1>0, <1>1 DEF TypeOK
<1>3. ref[Api(t)] = NULL
  BY <1>0, <1>1 DEF PlaceInv, Handle
<1>4. /\ RefcExact' /\ ref' \in [Slots -> Objs \cup {NULL}] /\ refc' \in [Objs -> Int]
      /\ ref'[Api(t)] = o /\ \A j \in Slots : j # Api(t) => ref'[j] = ref[j]
  BY <1>0, <1>1, <1>3, SlotFacts, AcquireCount DEF ObjInv
<1>5. ref[App(o)] = o /\ life[o] = "live"
  BY <1>0, <1>1, SlotFacts DEF Usable, NoDanglingRef
<1>6. \A u \in Threads : arg[u] = o => fn[u] \in Sets
  BY <1>1 DEF Usable, Sets
<1>7. \A u \in Threads : fn[u] \in EndingCalls =>
        Handle(u) # o /\ ~(o \in Stmts /\ fn[u] = "disconnect" /\ home[u] = Parent(o))
  BY <1>1 DEF Usable
<1>8. d # NULL => /\ d \in Descs /\ d \in Objs /\ ref[App(d)] = d /\ f \in Sets
                  /\ \A u \in Threads : arg[u] = d => fn[u] \in Sets
                  /\ \A u \in Threads : fn[u] \in EndingCalls => Handle(u) # d
  BY KindFacts DEF Usable, Sets
<1>9. \A x : /\ x \in Objs => ref'[App(x)] = ref[App(x)]
             /\ x \in Objs /\ x \notin Envs => ref'[Up(x)] = ref[Up(x)]
             /\ x \in Stmts => ref'[Ard(x)] = ref[Ard(x)] /\ ref'[Apd(x)] = ref[Apd(x)]
             /\ x \in Threads /\ x # t => ref'[Api(x)] = ref[Api(x)]
  BY <1>4, SlotFacts, SlotsDiffer
<1>10. Handle(t)' = o /\ Handle(t) = NULL /\ \A u \in Threads : u # t => Handle(u)' = Handle(u)
  BY <1>3, <1>4, <1>9 DEF Handle
<1>11. \A u \in Threads : arg[u] # NULL => arg[u] \in Objs /\ arg[u] \notin Envs
  BY <1>0, KindFacts DEF TypeOK
<1>12. \A u \in Threads : Handle(u) # NULL => Handle(u) \in Objs
  BY <1>0, HandleLives
<1>13. ConnOf(o)' = ConnOf(o) /\ ConnOf(o) \in Conns \cup {NULL}
  BY <1>0, <1>9, KindFacts DEF ConnOf, Parent, ObjInv, ShapeInv
<1>14. TypeOK'
  <2>1. fn' \in [Threads -> Calls \cup {"none"}]
    BY <1>0, <1>1 DEF TypeOK
  <2>2. home' \in [Threads -> Conns \cup {NULL}]
    BY <1>0, <1>1, <1>13 DEF TypeOK
  <2>3. arg' \in [Threads -> Conns \cup Stmts \cup Descs \cup {NULL}]
    BY <1>0, <1>1, <1>8 DEF TypeOK
  <2>4. pc' \in [Threads -> Calls \cup
               {"idle", "conn_count", "desc_count", "stmt_ref_conn", "stmt_ready",
                "post_connect", "executing", "associate_ard", "associate_apd",
                "drop_own", "leave", "return"}]
    BY <1>0, <1>1 DEF TypeOK
  <2> QED BY <1>0, <1>1, <1>4, <2>1, <2>2, <2>3, <2>4 DEF TypeOK
<1>15. ObjInv'
  <2>1. Fits(Api(t), o)
    BY DEF Fits
  <2>2. \A x : Api(t) # Up(x) /\ Api(t) # Ard(x) /\ Api(t) # Apd(x)
    BY SlotsDiffer
  <2>3. \A e \in Envs : life[e] # "new"
    BY <1>0 DEF ObjInv, LifeInv
  <2> QED BY <1>0, <1>1, <1>3, <1>5, <2>1, <2>2, <2>3, SlotFacts, AcquireObj
<1>16. f \notin {"idle", "return", "none", "conn_count", "desc_count", "stmt_ref_conn", "stmt_ready",
                 "post_connect", "executing", "associate_ard", "associate_apd", "drop_own", "leave"}
  BY DEF Calls, EndingCalls
<1>17. PlaceInv'
  <2> SUFFICES ASSUME NEW u \in Threads
               PROVE  /\ pc'[u] = "idle" <=> fn'[u] = "none"
                      /\ Handle(u)' = NULL <=> pc'[u] \in {"idle", "return"}
                      /\ pc'[u] \in {"alloc_conn", "conn_count"} => fn'[u] = "alloc_conn"
                      /\ pc'[u] \in {"alloc_desc", "desc_count"} => fn'[u] = "alloc_desc"
                      /\ pc'[u] \in {"alloc_stmt", "stmt_ref_conn", "stmt_ready"} => fn'[u] = "alloc_stmt"
                      /\ pc'[u] \in {"connect", "post_connect"} => fn'[u] = "connect"
                      /\ pc'[u] = "disconnect" => fn'[u] \in {"connect", "disconnect"}
                      /\ pc'[u] \in {"exec_direct", "executing"} => fn'[u] = "exec_direct"
                      /\ pc'[u] \in {"set_ard", "associate_ard"} => fn'[u] = "set_ard"
                      /\ pc'[u] \in {"set_apd", "associate_apd"} => fn'[u] = "set_apd"
                      /\ pc'[u] \in Frees => fn'[u] = pc'[u]
                      /\ pc'[u] = "drop_own" => fn'[u] \in Frees \ {"free_stmt"}
    BY DEF PlaceInv
  <2>1. CASE u = t
    BY <1>0, <1>2, <1>10, <1>16, <2>1
  <2>2. CASE u # t
    BY <1>0, <1>2, <1>10, <2>2 DEF PlaceInv
  <2> QED BY <2>1, <2>2
<1>18. KindInv'
  <2> SUFFICES ASSUME NEW u \in Threads, Handle(u)' # NULL
               PROVE  Takes(fn'[u], Handle(u)')
    BY DEF KindInv, Takes
  <2> QED BY <1>0, <1>2, <1>10 DEF KindInv, Takes
<1>19. HomeInv'
  <2>1. \A u \in Threads : Handle(u) # NULL => ConnOf(Handle(u))' = IF u = t THEN ConnOf(o)' ELSE ConnOf(Handle(u))
    BY <1>9, <1>10, <1>12, KindFacts DEF ConnOf, Parent
  <2>2. \A u \in Threads : u # t /\ Handle(u)' # NULL => home'[u] = ConnOf(Handle(u))'
    BY <1>0, <1>2, <1>10, <2>1 DEF HomeInv
  <2>3. home'[t] = ConnOf(Handle(t))'
    BY <1>2, <1>10, <1>13 DEF ConnOf, Parent
  <2> QED BY <2>2, <2>3 DEF HomeInv
<1>20. ArgInv'
  <2> SUFFICES ASSUME NEW u \in Threads
               PROVE  /\ arg'[u] # NULL =>
                           /\ fn'[u] \in {"alloc_conn", "alloc_stmt", "alloc_desc"} \cup Sets
                           /\ fn'[u] = "alloc_conn" => arg'[u] \in Conns
                           /\ fn'[u] = "alloc_stmt" => arg'[u] \in Stmts
                           /\ fn'[u] \in {"alloc_desc"} \cup Sets => arg'[u] \in Descs
                           /\ pc'[u] \in Creating => life'[arg'[u]] = "new"
                           /\ pc'[u] \notin Creating => ref'[App(arg'[u])] = arg'[u]
                      /\ pc'[u] \in Creating =>
                           /\ arg'[u] # NULL
                           /\ ref'[Up(arg'[u])] = IF pc'[u] = "stmt_ref_conn" THEN NULL ELSE Handle(u)'
    BY DEF ArgInv, Parent
  <2>1. CASE u = t
    <3>1. pc'[t] \notin Creating
      BY <1>2, <1>16 DEF Creating
    <3>2. d # NULL => ref'[App(d)] = d
      BY <1>8, <1>9
    <3> QED BY <1>2, <1>8, <2>1, <3>1, <3>2 DEF Sets
  <2>2. CASE u # t
    <3>1. arg'[u] = arg[u] /\ fn'[u] = fn[u] /\ pc'[u] = pc[u] /\ Handle(u)' = Handle(u) /\ life' = life
      BY <1>1, <1>2, <1>10, <2>2
    <3>2. arg[u] # NULL => ref'[App(arg[u])] = ref[App(arg[u])] /\ ref'[Up(arg[u])] = ref[Up(arg[u])]
      BY <1>9, <1>11
    <3> QED BY <1>0, <3>1, <3>2 DEF ArgInv, Parent
  <2> QED BY <2>1, <2>2
<1>21. NewInv'
  <2>1. \A u \in Threads : pc[u] \in Creating => u # t
    BY <1>0, <1>1 DEF PlaceInv, Creating
  <2>2. \A x \in Objs : life'[x] = "new" => \E u \in Threads : pc'[u] \in Creating /\ arg'[u] = x
    BY <1>0, <1>1, <1>2, <2>1 DEF NewInv
  <2>3. \A u, v \in Threads : u # v /\ arg'[u] = arg'[v] /\ arg'[u] # NULL => fn'[u] \in Sets /\ fn'[v] \in Sets
    BY <1>0, <1>2, <1>8 DEF NewInv
  <2> QED BY <2>2, <2>3 DEF NewInv
<1>22. AssociateInv'
  <2> SUFFICES ASSUME NEW u \in Threads, pc'[u] \in {"associate_ard", "associate_apd"}
               PROVE  /\ arg'[u] # NULL /\ ref'[Up(arg'[u])] = ref'[Up(Handle(u)')]
                      /\ pc'[u] = "associate_ard" => ref'[Ard(Handle(u)')] = NULL /\ ref'[Apd(Handle(u)')] # arg'[u]
                      /\ pc'[u] = "associate_apd" => ref'[Apd(Handle(u)')] = NULL /\ ref'[Ard(Handle(u)')] # arg'[u]
    BY DEF AssociateInv, Parent
  <2>1. u # t
    BY <1>2, <1>16
  <2>2. arg'[u] = arg[u] /\ pc'[u] = pc[u] /\ Handle(u)' = Handle(u)
    BY <1>2, <1>10, <2>1
  <2>3. Handle(u) \in Stmts /\ Handle(u) \in Objs /\ Handle(u) \notin Envs
    BY <1>0, <2>2, KindFacts DEF PlaceInv, KindInv, Sets
  <2>4. arg[u] # NULL /\ arg[u] \in Objs /\ arg[u] \notin Envs
    BY <1>0, <1>11, <2>2 DEF AssociateInv
  <2> QED BY <1>0, <1>9, <2>2, <2>3, <2>4 DEF AssociateInv, Parent
<1>23. ExclInv'
  <2>1. \A u \in Threads, x \in Objs : u # t => (Uses(u, x)' <=> Uses(u, x))
    BY <1>2, <1>10 DEF Uses
  <2>2. \A x : Uses(t, x)' => x = o \/ x = d
    BY <1>2, <1>10 DEF Uses
  <2> SUFFICES ASSUME NEW u \in Threads, NEW v \in Threads, u # v, fn'[u] \in EndingCalls,
                      NEW x, x = Handle(u)', x # NULL
               PROVE  ~Uses(v, x)'
    BY DEF ExclInv, Uses
  <2>3. CASE u = t
    <3>1. x = o /\ x \in Objs /\ x \in Ended(f, o) /\ f \in EndingCalls
      BY <1>2, <1>10, <2>3 DEF Ended
    <3> QED BY <1>1, <2>1, <2>3, <3>1
  <2>4. CASE v = t
    <3>1. x = Handle(u) /\ fn[u] \in EndingCalls
      BY <1>2, <1>10, <2>4
    <3> QED BY <1>7, <1>8, <2>2, <2>4, <3>1
  <2>5. CASE u # t /\ v # t
    <3>1. x = Handle(u) /\ fn[u] \in EndingCalls /\ x \in Objs
      BY <1>2, <1>10, <1>12, <2>5
    <3> QED BY <1>0, <2>1, <2>5, <3>1 DEF ExclInv
  <2> QED BY <2>3, <2>4, <2>5
<1>24. DisconnectInv'
  <2>1. \A u \in Threads, x \in Objs : u # t => (Uses(u, x)' <=> Uses(u, x))
    BY <1>2, <1>10 DEF Uses
  <2>2. \A x : Uses(t, x)' => x = o \/ x = d
    BY <1>2, <1>10 DEF Uses
  <2> SUFFICES ASSUME NEW u \in Threads, NEW v \in Threads, u # v, fn'[u] = "disconnect", Handle(u)' # NULL,
                      NEW s \in stmts[Handle(u)']
               PROVE  ~Uses(v, s)'
    BY <1>1 DEF DisconnectInv
  <2>3. Handle(u)' \in Conns /\ s \in Stmts /\ s \in Objs
    <3>1. Handle(u)' \in Conns
      BY <1>18 DEF KindInv
    <3> QED BY <1>0, <3>1, KindFacts DEF TypeOK
  <2>4. CASE u = t
    <3>1. Handle(u)' = o /\ s \in Ended(f, o) /\ f \in EndingCalls
      BY <1>2, <1>10, <2>4 DEF Ended, EndingCalls
    <3> QED BY <1>1, <2>1, <2>3, <2>4, <3>1
  <2>5. CASE v = t
    <3>1. Handle(u)' = Handle(u) /\ fn[u] = "disconnect" /\ home[u] = Handle(u)
      BY <1>0, <1>2, <1>10, <2>3, <2>5, KindFacts DEF HomeInv, ConnOf
    <3>2. s # d
      BY <1>0, <1>8, <2>3, KindFacts
    <3>3. ASSUME s = o PROVE FALSE
      <4>1. Parent(s) # Handle(u)
        BY <1>7, <2>3, <3>1, <3>3 DEF EndingCalls
      <4>2. PICK w \in Threads : pc[w] = "stmt_ref_conn" /\ arg[w] = s
        BY <1>0, <2>3, <3>1, <4>1 DEF StmtInv
      <4>3. life[s] = "new"
        BY <1>0, <2>3, <4>2 DEF ArgInv, Creating
      <4> QED BY <1>5, <3>3, <4>3
    <3> QED BY <2>2, <2>5, <3>2, <3>3
  <2>6. CASE u # t /\ v # t
    <3>1. Handle(u)' = Handle(u) /\ fn[u] = "disconnect"
      BY <1>2, <1>10, <2>6
    <3> QED BY <1>0, <2>1, <2>3, <2>6, <3>1 DEF DisconnectInv
  <2> QED BY <2>4, <2>5, <2>6
<1>25. ListInv'
  <2> SUFFICES ASSUME NEW u \in Threads, NEW v \in Threads, u # v, fn'[u] \in ListCalls, fn'[v] \in ListCalls
               PROVE  home'[u] # home'[v]
    BY DEF ListInv
  <2>1. CASE u = t
    BY <1>1, <1>2, <2>1
  <2>2. CASE v = t
    BY <1>1, <1>2, <2>2
  <2>3. CASE u # t /\ v # t
    <3>1. {fn[u], fn[v]} \subseteq ListCalls
      BY <1>2, <2>3
    <3> QED BY <1>0, <1>2, <2>3, <3>1 DEF ListInv
  <2> QED BY <2>1, <2>2, <2>3
<1>26. OwnInv'
  <2>1. ref'[App(o)] = o
    BY <1>5, <1>9
  <2>2. ASSUME NEW u \in Threads, u # t, Handle(u) # NULL
        PROVE  ref'[App(Handle(u))] = Handle(u) \/ (fn'[u] \in Frees /\ pc'[u] = "leave")
    BY <1>0, <1>2, <1>9, <1>12, <2>2 DEF OwnInv
  <2> QED BY <1>10, <2>1, <2>2 DEF OwnInv
<1>27. AssociationsAgree'
  <2>1. \A x \in Stmts \cup Descs : ref'[Up(x)] = ref[Up(x)]
    BY <1>9, KindFacts
  <2>2. \A s \in Stmts : ref'[Ard(s)] = ref[Ard(s)] /\ ref'[Apd(s)] = ref[Apd(s)]
    BY <1>9
  <2> QED BY <1>0, <1>1, <2>1, <2>2, AssocKept
<1>28. StmtInv'
  <2>1. ASSUME NEW s \in Stmts, life[s] = "live"
        PROVE  ref'[App(s)] = s \/ \E u \in Threads : Handle(u)' = s /\ fn'[u] = "free_stmt"
    <3>1. CASE ref[App(s)] = s
      BY <1>9, <3>1, KindFacts
    <3>2. CASE ref[App(s)] # s
      <4>1. PICK u \in Threads : Handle(u) = s /\ fn[u] = "free_stmt"
        BY <1>0, <2>1, <3>2 DEF StmtInv
      <4>2. u # t
        BY <1>10, <4>1, KindFacts
      <4> QED BY <1>2, <1>10, <4>1, <4>2
    <3> QED BY <3>1, <3>2
  <2>2. ASSUME NEW c \in Conns, NEW s \in Stmts
        PROVE  (\E u \in Threads : pc'[u] = "stmt_ref_conn" /\ arg'[u] = s /\ Handle(u)' = c)
                 <=> (\E u \in Threads : pc[u] = "stmt_ref_conn" /\ arg[u] = s /\ Handle(u) = c)
    <3>1. \A u \in Threads : pc[u] = "stmt_ref_conn" \/ pc'[u] = "stmt_ref_conn" => u # t
      BY <1>0, <1>1, <1>2, <1>16 DEF PlaceInv
    <3> QED BY <1>2, <1>10, <3>1
  <2>3. \A s \in Stmts : ref'[Up(s)] = ref[Up(s)]
    BY <1>9, KindFacts
  <2> QED BY <1>0, <1>1, <2>1, <2>2, <2>3 DEF StmtInv, Parent
<1>29. ReleaserInv'
  <2>1. \A x \in Objs : releaser[x] # NULL => releaser[x] \in Threads /\ releaser[x] # t
    BY <1>0, <1>1 DEF TypeOK, ReleaserInv
  <2>2. \A s \in Stmts : ref'[Up(s)] = ref[Up(s)]
    BY <1>9, KindFacts
  <2> QED BY <1>0, <1>1, <1>2, <2>1, <2>2 DEF ReleaserInv, Parent
<1>30. ConnectedInv'
  <2>1. \A c \in Conns : connected[c] => ref'[App(c)] = c
    BY <1>0, <1>9, KindFacts DEF ConnectedInv
  <2>2. f \in {"alloc_stmt", "connect", "disconnect"} => o \in Conns
    BY DEF Takes
  <2>3. \A u \in Threads : u # t /\ Handle(u) = o /\ fn[u] = "connect" => f \notin {"alloc_stmt", "connect", "disconnect"}
    <3> SUFFICES ASSUME NEW u \in Threads, u # t, Handle(u) = o, fn[u] = "connect",
                        f \in {"alloc_stmt", "connect", "disconnect"}
                 PROVE  FALSE
      OBVIOUS
    <3>1. home[u] = o
      BY <1>0, <2>2, KindFacts DEF HomeInv, ConnOf
    <3> QED BY <3>1 DEF Connecting
  <2>4. f = "connect" => \A u \in Threads : u # t /\ Handle(u) = o => fn[u] \notin {"alloc_stmt", "connect", "disconnect"}
    <3> SUFFICES ASSUME f = "connect", NEW u \in Threads, u # t, Handle(u) = o
                 PROVE  fn[u] \notin {"alloc_stmt", "connect", "disconnect"}
      OBVIOUS
    <3>1. fn[u] # "alloc_stmt"
      BY <1>0 DEF ConnectedInv
    <3>2. fn[u] # "disconnect"
      BY <1>7 DEF EndingCalls
    <3> QED BY <2>3, <3>1, <3>2
  <2>5. ASSUME NEW u \in Threads, u # t, Handle(u) # NULL
        PROVE  /\ fn'[u] = "alloc_stmt" => connected[Handle(u)]
               /\ pc'[u] = "drop_own" /\ fn'[u] = "free_conn" => ~connected[Handle(u)]
               /\ fn'[u] = "connect" =>
                    /\ stmts[Handle(u)] = {}
                    /\ pc'[u] = "connect" => ~connected[Handle(u)]
                    /\ \A v \in Threads : Handle(v)' = Handle(u) /\ v # u =>
                         fn'[v] \notin {"alloc_stmt", "connect", "disconnect"}
    <3>1. fn'[u] = fn[u] /\ pc'[u] = pc[u]
      BY <1>2, <2>5
    <3>2. ASSUME fn[u] = "connect", NEW v \in Threads, Handle(v)' = Handle(u), v # u
          PROVE  fn'[v] \notin {"alloc_stmt", "connect", "disconnect"}
      <4>1. CASE v = t
        BY <1>2, <1>10, <2>3, <2>5, <3>2, <4>1
      <4>2. CASE v # t
        BY <1>0, <1>2, <1>10, <2>5, <3>2, <4>2 DEF ConnectedInv
      <4> QED BY <4>1, <4>2
    <3> QED BY <1>0, <2>5, <3>1, <3>2 DEF ConnectedInv
  <2>6. /\ f = "alloc_stmt" => connected[o]
        /\ f # "drop_own"
        /\ f = "connect" =>
             /\ stmts[o] = {} /\ ~connected[o]
             /\ \A v \in Threads : Handle(v)' = o /\ v # t => fn'[v] \notin {"alloc_stmt", "connect", "disconnect"}
    <3>1. f = "connect" => stmts[o] = {}
      BY <1>0, <2>2 DEF ConnectedInv
    <3> QED BY <1>2, <1>10, <1>16, <2>4, <3>1
  <2>7. \A c \in Conns : stmts[c] # {} => connected[c]
    BY <1>0 DEF ConnectedInv
  <2> QED BY <1>1, <1>2, <1>10, <2>1, <2>5, <2>6, <2>7 DEF ConnectedInv
<1>31. CountersExact'
  <2>1. ConnsExact /\ DescsExact /\ StmtsExact
    BY <1>0, CountParts
  <2>2. \A x \in Objs : x \notin Envs => ref'[Up(x)] = ref[Up(x)]
    BY <1>9
  <2>3. ConnsExact' /\ DescsExact' /\ StmtsExact'
    BY <1>1, <2>1, <2>2, KindFacts, ConnsKept, DescsKept, StmtsCountKept
  <2> QED BY <1>4, <2>3, CountPartsPrime
<1> QED BY <1>14, <1>15, <1>17, <1>18, <1>19, <1>20, <1>21, <1>22, <1>23, <1>24, <1>25, <1>26, <1>27, <1>28,
           <1>29, <1>30, <1>31
        DEF IInv, ThreadInv, CallerInv

LEMMA EnterPlainSteps ==
  ASSUME IInv, NEW t \in Threads, NEW f \in Calls, NEW o \in Objs,
         EnterPlain(t, f, o), Takes(f, o),
         f \in {"alloc_stmt", "connect", "disconnect"} => ~Connecting(o),
         f = "alloc_stmt" => connected[o], f = "connect" => ~connected[o]
  PROVE  IInv'
<1>1. Enter(t, f, o) /\ arg' = arg /\ fn[t] = "none"
  BY DEF EnterPlain, Enter
<1>2. arg[t] = NULL
  BY <1>1 DEF IInv, ThreadInv, ArgInv, Sets
<1>3. arg' = [arg EXCEPT ![t] = NULL]
  BY <1>1, <1>2 DEF IInv, TypeOK
<1> QED BY <1>1, <1>3, EnterSteps

LEMMA CallSteps ==
  ASSUME IInv, NEW t \in Threads, Call(t)
  PROVE  IInv'
<1> USE DEF Takes, Calls, EndingCalls, Sets
<1>1. CASE SQLAllocHandle(t)
  <2>1. CASE \E e \in Envs : EnterPlain(t, "alloc_conn", e)
    BY <2>1, EnterPlainSteps, KindFacts
  <2>2. CASE \E c \in Conns : DMConnected(c) /\ EnterPlain(t, "alloc_stmt", c)
    BY <2>2, EnterPlainSteps, KindFacts DEF DMConnected
  <2>3. CASE \E c \in Conns : DMConnected(c) /\ EnterPlain(t, "alloc_desc", c)
    BY <2>3, EnterPlainSteps, KindFacts DEF DMConnected
  <2> QED BY <1>1, <2>1, <2>2, <2>3 DEF SQLAllocHandle
<1>2. CASE SQLFreeHandle(t)
  <2>1. CASE \E e \in Envs : EnterPlain(t, "free_env", e)
    BY <2>1, EnterPlainSteps, KindFacts
  <2>2. CASE \E c \in Conns : EnterPlain(t, "free_conn", c)
    BY <2>2, EnterPlainSteps, KindFacts
  <2>3. CASE \E s \in Stmts : EnterPlain(t, "free_stmt", s)
    BY <2>3, EnterPlainSteps, KindFacts
  <2>4. CASE \E d \in Descs : EnterPlain(t, "free_desc", d)
    BY <2>4, EnterPlainSteps, KindFacts
  <2> QED BY <1>2, <2>1, <2>2, <2>3, <2>4 DEF SQLFreeHandle
<1>3. CASE SQLDriverConnect(t)
  BY <1>3, EnterPlainSteps, KindFacts DEF SQLDriverConnect, DMDisconnected
<1>4. CASE SQLDisconnect(t)
  BY <1>4, EnterPlainSteps, KindFacts DEF SQLDisconnect, DMConnected
<1>5. CASE SQLExecDirect(t)
  BY <1>5, EnterPlainSteps, KindFacts DEF SQLExecDirect
<1>6. CASE SQLSetStmtAttr(t)
  <2>1. PICK s \in Stmts, d \in Descs \cup {NULL}, f \in {"set_ard", "set_apd"} :
          (d # NULL => Usable(d)) /\ Enter(t, f, s) /\ arg' = [arg EXCEPT ![t] = d]
    BY <1>6 DEF SQLSetStmtAttr
  <2> QED BY <2>1, EnterSteps, KindFacts
<1> QED BY <1>1, <1>2, <1>3, <1>4, <1>5, <1>6 DEF Call

-----------------------------------------------------------------------------
(* A new environment.                                                      *)

\* A memory that is free is not pointed to, and is no statement of a list.
LEMMA NoneFacts ==
  ASSUME IInv, NEW o \in Objs, life[o] = "none"
  PROVE  /\ \A k \in Slots : ref[k] # o
         /\ ref[App(o)] = NULL /\ (o \notin Envs => ref[Up(o)] = NULL)
         /\ \A t \in Threads : Handle(t) # o /\ arg[t] # o
         /\ \A c \in Conns : o \notin stmts[c]
<1>0. TypeOK /\ ShapeInv /\ NoDanglingRef /\ LifeInv /\ ArgInv /\ StmtInv /\ o # NULL
  BY KindFacts DEF IInv, ObjInv, ThreadInv
<1>1. \A k \in Slots : ref[k] # o
  BY <1>0 DEF NoDanglingRef
<1>2. ref[App(o)] = NULL
  BY <1>0, <1>1, SlotFacts DEF ShapeInv
<1>3. o \notin Envs => ref[Up(o)] = NULL
  BY <1>0 DEF LifeInv, Parent
<1>4. \A t \in Threads : Handle(t) # o
  BY <1>1, SlotFacts DEF Handle
<1>5. \A t \in Threads : arg[t] # o
  <2> SUFFICES ASSUME NEW t \in Threads, arg[t] = o PROVE FALSE
    OBVIOUS
  <2>1. life[o] = "new" \/ ref[App(o)] = o
    BY <1>0 DEF ArgInv
  <2> QED BY <1>1, <2>1, SlotFacts
<1>6. \A c \in Conns : o \notin stmts[c]
  <2> SUFFICES ASSUME NEW c \in Conns, o \in stmts[c] PROVE FALSE
    OBVIOUS
  <2>1. o \in Stmts
    BY <1>0 DEF TypeOK
  <2>2. Parent(o) = c \/ \E t \in Threads : arg[t] = o
    BY <1>0, <2>1 DEF StmtInv
  <2>3. Parent(o) # c
    BY <1>3, <2>1, KindFacts DEF Parent
  <2> QED BY <1>5, <2>2, <2>3
<1> QED BY <1>1, <1>2, <1>3, <1>4, <1>5, <1>6

LEMMA EnvCreateSteps ==
  ASSUME IInv, NEW e \in Envs, env_create(e)
  PROVE  IInv'
<1>0. /\ TypeOK /\ ObjInv /\ StmtInv /\ ReleaserInv /\ ConnectedInv /\ CountersExact /\ AssociationsAgree
      /\ PlaceInv /\ KindInv /\ HomeInv /\ ArgInv /\ NewInv /\ AssociateInv
      /\ ExclInv /\ DisconnectInv /\ ListInv /\ OwnInv /\ LifeInv
      /\ e \in Objs /\ e \notin Conns /\ e \notin Stmts /\ e \notin Descs
  BY KindFacts DEF IInv, ObjInv, ThreadInv, CallerInv
<1>1. /\ life[e] = "none" /\ life' = [life EXCEPT ![e] = "live"] /\ Acquire(App(e), e)
      /\ UNCHANGED <<releaser, conns, descs, stmts, nr_stmts, asARD, asAPD, connected, outstandings, fn, home, arg, pc>>
  BY DEF env_create, listVars, connVars, callVars
<1>2. ref[App(e)] = NULL
  BY <1>0, <1>1, NoneFacts
<1>3. /\ RefcExact' /\ ref' \in [Slots -> Objs \cup {NULL}] /\ refc' \in [Objs -> Int]
      /\ ref'[App(e)] = e /\ \A j \in Slots : j # App(e) => ref'[j] = ref[j]
  BY <1>0, <1>1, <1>2, SlotFacts, AcquireCount DEF ObjInv
<1>4. life'[e] = "live" /\ \A x \in Objs : x # e => life'[x] = life[x]
  BY <1>0, <1>1 DEF TypeOK
<1>5. \A x : /\ x \in Objs /\ x # e => ref'[App(x)] = ref[App(x)]
             /\ x \in Objs /\ x \notin Envs => ref'[Up(x)] = ref[Up(x)]
             /\ x \in Stmts => ref'[Ard(x)] = ref[Ard(x)] /\ ref'[Apd(x)] = ref[Apd(x)]
             /\ x \in Threads => ref'[Api(x)] = ref[Api(x)]
  BY <1>3, SlotFacts, SlotsDiffer
<1>6. \A u \in Threads : Handle(u)' = Handle(u)
  BY <1>5 DEF Handle
<1>7. TypeOK'
  BY <1>0, <1>1, <1>3 DEF TypeOK
<1>8. ObjInv'
  <2>1. Fits(App(e), e) /\ \A x : App(e) # Up(x) /\ App(e) # Ard(x) /\ App(e) # Apd(x)
    BY SlotsDiffer DEF Fits
  <2>2. \A x \in Envs : life'[x] # "new"
    BY <1>0, <1>4, KindFacts DEF LifeInv
  <2> QED BY <1>0, <1>1, <1>2, <1>4, <2>1, <2>2, SlotFacts, AcquireObj
<1>9. \A x \in Objs : life'[x] = "new" <=> life[x] = "new"
  BY <1>1, <1>4
<1>10. \A u \in Threads : arg[u] # NULL => arg[u] \in Objs /\ arg[u] \notin Envs /\ arg[u] # e
  BY <1>0, KindFacts DEF TypeOK
<1>11. PlaceInv' /\ KindInv'
  BY <1>0, <1>1, <1>6 DEF PlaceInv, KindInv
<1>12. HomeInv'
  <2>1. \A u \in Threads : ConnOf(Handle(u))' = ConnOf(Handle(u))
    BY <1>5, <1>6, KindFacts DEF ConnOf, Parent
  <2> QED BY <1>0, <1>1, <1>6, <2>1 DEF HomeInv
<1>13. ArgInv'
  <2>1. \A u \in Threads : arg[u] # NULL =>
          /\ ref'[App(arg[u])] = ref[App(arg[u])] /\ (life'[arg[u]] = "new" <=> life[arg[u]] = "new")
          /\ ref'[Up(arg[u])] = ref[Up(arg[u])]
    BY <1>5, <1>9, <1>10
  <2> QED BY <1>0, <1>1, <1>6, <2>1 DEF ArgInv, Parent
<1>14. NewInv'
  BY <1>0, <1>1, <1>9 DEF NewInv
<1>15. AssociateInv'
  <2> SUFFICES ASSUME NEW u \in Threads, pc[u] \in {"associate_ard", "associate_apd"}
               PROVE  /\ arg[u] # NULL /\ ref'[Up(arg[u])] = ref'[Up(Handle(u))]
                      /\ pc[u] = "associate_ard" => ref'[Ard(Handle(u))] = NULL /\ ref'[Apd(Handle(u))] # arg[u]
                      /\ pc[u] = "associate_apd" => ref'[Apd(Handle(u))] = NULL /\ ref'[Ard(Handle(u))] # arg[u]
    BY <1>1, <1>6 DEF AssociateInv, Parent
  <2>1. Handle(u) \in Stmts /\ Handle(u) \in Objs /\ Handle(u) \notin Envs /\ arg[u] # NULL
    BY <1>0, KindFacts DEF PlaceInv, KindInv, Sets, AssociateInv
  <2> QED BY <1>0, <1>5, <1>10, <2>1 DEF AssociateInv, Parent
<1>16. CallerInv'
  <2>1. \A u \in Threads : \A x : Uses(u, x)' <=> Uses(u, x)
    BY <1>1, <1>6 DEF Uses
  <2>2. ExclInv' /\ DisconnectInv' /\ ListInv'
    BY <1>0, <1>1, <1>6, <2>1 DEF ExclInv, DisconnectInv, ListInv
  <2>3. \A u \in Threads : Handle(u) # NULL => Handle(u) \in Objs /\ Handle(u) # e
    BY <1>0, <1>1, NoneFacts, HandleLives DEF ObjInv
  <2>4. OwnInv'
    BY <1>0, <1>1, <1>5, <1>6, <2>3 DEF OwnInv
  <2> QED BY <2>2, <2>4 DEF CallerInv
<1>17. AssociationsAgree'
  <2>1. \A x \in Stmts \cup Descs : ref'[Up(x)] = ref[Up(x)]
    BY <1>5, KindFacts
  <2>2. \A s \in Stmts : ref'[Ard(s)] = ref[Ard(s)] /\ ref'[Apd(s)] = ref[Apd(s)]
    BY <1>5
  <2> QED BY <1>0, <1>1, <2>1, <2>2, AssocKept
<1>18. StmtInv' /\ ReleaserInv'
  <2>1. \A s \in Stmts : life'[s] = life[s] /\ ref'[Up(s)] = ref[Up(s)] /\ ref'[App(s)] = ref[App(s)]
    BY <1>0, <1>4, <1>5, KindFacts
  <2> QED BY <1>0, <1>1, <1>6, <2>1 DEF StmtInv, ReleaserInv, Parent
<1>19. ConnectedInv'
  <2>1. \A c \in Conns : ref'[App(c)] = ref[App(c)]
    BY <1>0, <1>5, KindFacts
  <2> QED BY <1>0, <1>1, <1>6, <2>1 DEF ConnectedInv
<1>20. CountersExact'
  <2>1. ConnsExact /\ DescsExact /\ StmtsExact
    BY <1>0, CountParts
  <2>2. /\ \A c \in Conns : life'[c] = life[c] /\ ref'[Up(c)] = ref[Up(c)]
        /\ \A d \in Descs : life'[d] = life[d] /\ ref'[Up(d)] = ref[Up(d)]
    BY <1>0, <1>4, <1>5, KindFacts
  <2>3. ConnsExact' /\ DescsExact' /\ StmtsExact'
    BY <1>1, <2>1, <2>2, ConnsKept, DescsKept, StmtsCountKept
  <2> QED BY <1>3, <2>3, CountPartsPrime
<1> QED BY <1>7, <1>8, <1>11, <1>12, <1>13, <1>14, <1>15, <1>16, <1>17, <1>18, <1>19, <1>20 DEF IInv, ThreadInv

-----------------------------------------------------------------------------
(* A thread creates an object.                                             *)

\* The function, where it goes on, and the kind of what it creates.
Makes(t, x, p) ==
  \/ pc[t] = "alloc_conn" /\ p = "conn_count" /\ x \in Conns
  \/ pc[t] = "alloc_desc" /\ p = "desc_count" /\ x \in Descs
  \/ pc[t] = "alloc_stmt" /\ p = "stmt_ref_conn" /\ x \in Stmts

\* The object is new; of the pointers only the one to its parent has moved.
Creates(t, x, p) ==
  /\ Makes(t, x, p)
  /\ life[x] = "none" /\ life' = [life EXCEPT ![x] = "new"]
  /\ arg' = [arg EXCEPT ![t] = x] /\ pc' = [pc EXCEPT ![t] = p]
  /\ UNCHANGED <<releaser, asARD, asAPD, connVars, fn, home>>
  /\ \A j \in Slots : j # Up(x) => ref'[j] = ref[j]
  /\ ref'[Up(x)] = IF p = "stmt_ref_conn" THEN NULL ELSE Handle(t)
  /\ \A c \in Conns : stmts'[c] = stmts[c] \/ (c = Handle(t) /\ x \in Stmts /\ stmts'[c] = stmts[c] \cup {x})

\* A creation disturbs neither the threads nor the callers' contract.
LEMMA CreateFacts ==
  ASSUME IInv, NEW t \in Threads, NEW x \in Objs, NEW p, Creates(t, x, p)
  PROVE  ThreadInv' /\ CallerInv' /\ ReleaserInv' /\ AssociationsAgree' /\ ConnectedInv'
<1>0. /\ TypeOK /\ ObjInv /\ StmtInv /\ ReleaserInv /\ ConnectedInv /\ AssociationsAgree
      /\ PlaceInv /\ KindInv /\ HomeInv /\ ArgInv /\ NewInv /\ AssociateInv
      /\ ExclInv /\ DisconnectInv /\ ListInv /\ OwnInv /\ LifeInv /\ NoDanglingRef
      /\ x # NULL /\ x \notin Envs
  BY KindFacts DEF IInv, ObjInv, ThreadInv, CallerInv, Creates, Makes
<1>1. /\ life[x] = "none" /\ life' = [life EXCEPT ![x] = "new"] /\ Makes(t, x, p)
      /\ arg' = [arg EXCEPT ![t] = x] /\ pc' = [pc EXCEPT ![t] = p]
      /\ releaser' = releaser /\ asARD' = asARD /\ asAPD' = asAPD /\ connected' = connected /\ fn' = fn /\ home' = home
      /\ \A j \in Slots : j # Up(x) => ref'[j] = ref[j]
      /\ ref'[Up(x)] = IF p = "stmt_ref_conn" THEN NULL ELSE Handle(t)
      /\ \A c \in Conns : stmts'[c] = stmts[c] \/ (c = Handle(t) /\ x \in Stmts /\ stmts'[c] = stmts[c] \cup {x})
  BY DEF Creates, connVars
<1>2. /\ arg'[t] = x /\ pc'[t] = p /\ \A u \in Threads : u # t => arg'[u] = arg[u] /\ pc'[u] = pc[u]
  BY <1>0, <1>1 DEF TypeOK
<1>3. life'[x] = "new" /\ \A y \in Objs : y # x => life'[y] = life[y]
  BY <1>0, <1>1 DEF TypeOK
<1>4. /\ \A k \in Slots : ref[k] # x
      /\ \A u \in Threads : Handle(u) # x /\ arg[u] # x
      /\ \A c \in Conns : x \notin stmts[c]
  BY <1>1, NoneFacts
<1>5. \A y : /\ y \in Objs => ref'[App(y)] = ref[App(y)]
             /\ y \in Objs /\ y \notin Envs /\ y # x => ref'[Up(y)] = ref[Up(y)]
             /\ y \in Stmts => ref'[Ard(y)] = ref[Ard(y)] /\ ref'[Apd(y)] = ref[Apd(y)]
             /\ y \in Threads => ref'[Api(y)] = ref[Api(y)]
  BY <1>1, SlotFacts, SlotsDiffer
<1>6. \A u \in Threads : Handle(u)' = Handle(u)
  BY <1>5 DEF Handle
<1>7. \A u \in Threads : Handle(u) # NULL => Handle(u) \in Objs /\ Handle(u) # x
  BY <1>0, <1>4, HandleLives
<1>8. \A u \in Threads : arg[u] # NULL => arg[u] \in Objs /\ arg[u] \notin Envs /\ arg[u] # x
  BY <1>0, <1>4, KindFacts DEF TypeOK
<1>9. /\ pc[t] \in {"alloc_conn", "alloc_desc", "alloc_stmt"} /\ fn[t] = pc[t] /\ Handle(t) # NULL
      /\ p \in Creating /\ pc[t] \notin Creating
  BY <1>0, <1>1 DEF Makes, PlaceInv, Creating
<1>10. PlaceInv'
  <2>1. \A u \in Threads : u # t => pc'[u] = pc[u]
    BY <1>2
  <2> QED BY <1>0, <1>1, <1>2, <1>6, <1>9, <2>1 DEF PlaceInv, Makes, Frees
<1>11. KindInv'
  BY <1>0, <1>1, <1>6 DEF KindInv
<1>12. HomeInv'
  <2>1. \A u \in Threads : Handle(u) # NULL => ConnOf(Handle(u))' = ConnOf(Handle(u))
    BY <1>5, <1>6, <1>7, KindFacts DEF ConnOf, Parent
  <2> QED BY <1>0, <1>1, <1>6, <2>1 DEF HomeInv
<1>13. ArgInv'
  <2> SUFFICES ASSUME NEW u \in Threads
               PROVE  /\ arg'[u] # NULL =>
                           /\ fn[u] \in {"alloc_conn", "alloc_stmt", "alloc_desc"} \cup Sets
                           /\ fn[u] = "alloc_conn" => arg'[u] \in Conns
                           /\ fn[u] = "alloc_stmt" => arg'[u] \in Stmts
                           /\ fn[u] \in {"alloc_desc"} \cup Sets => arg'[u] \in Descs
                           /\ pc'[u] \in Creating => life'[arg'[u]] = "new"
                           /\ pc'[u] \notin Creating => ref'[App(arg'[u])] = arg'[u]
                      /\ pc'[u] \in Creating =>
                           /\ arg'[u] # NULL
                           /\ ref'[Up(arg'[u])] = IF pc'[u] = "stmt_ref_conn" THEN NULL ELSE Handle(u)
    BY <1>1, <1>6 DEF ArgInv, Parent
  <2>1. CASE u = t
    <3>1. arg'[u] = x /\ pc'[u] = p
      BY <1>2, <2>1
    <3> QED BY <1>0, <1>1, <1>3, <1>9, <2>1, <3>1 DEF Makes, Sets
  <2>2. CASE u # t
    <3>1. arg'[u] = arg[u] /\ pc'[u] = pc[u]
      BY <1>2, <2>2
    <3>2. arg[u] # NULL => life'[arg[u]] = life[arg[u]] /\ ref'[App(arg[u])] = ref[App(arg[u])] /\ ref'[Up(arg[u])] = ref[Up(arg[u])]
      BY <1>3, <1>5, <1>8
    <3> QED BY <1>0, <3>1, <3>2 DEF ArgInv, Parent
  <2> QED BY <2>1, <2>2
<1>14. NewInv'
  <2>1. \A y \in Objs : life'[y] = "new" => \E u \in Threads : pc'[u] \in Creating /\ arg'[u] = y
    BY <1>0, <1>2, <1>3, <1>9 DEF NewInv
  <2>2. \A u, v \in Threads : u # v /\ arg'[u] = arg'[v] /\ arg'[u] # NULL => fn[u] \in Sets /\ fn[v] \in Sets
    BY <1>0, <1>2, <1>4 DEF NewInv
  <2> QED BY <1>1, <2>1, <2>2 DEF NewInv
<1>15. AssociateInv'
  <2> SUFFICES ASSUME NEW u \in Threads, pc'[u] \in {"associate_ard", "associate_apd"}
               PROVE  /\ arg'[u] # NULL /\ ref'[Up(arg'[u])] = ref'[Up(Handle(u))]
                      /\ pc'[u] = "associate_ard" => ref'[Ard(Handle(u))] = NULL /\ ref'[Apd(Handle(u))] # arg'[u]
                      /\ pc'[u] = "associate_apd" => ref'[Apd(Handle(u))] = NULL /\ ref'[Ard(Handle(u))] # arg'[u]
    BY <1>6 DEF AssociateInv, Parent
  <2>1. arg'[u] = arg[u] /\ pc'[u] = pc[u]
    BY <1>2, <1>9 DEF Creating
  <2>2. Handle(u) \in Stmts /\ Handle(u) \in Objs /\ Handle(u) \notin Envs /\ Handle(u) # x
    BY <1>0, <1>7, <2>1, KindFacts DEF PlaceInv, KindInv, Sets
  <2>3. arg[u] # NULL
    BY <1>0, <2>1 DEF AssociateInv
  <2> QED BY <1>0, <1>5, <1>8, <2>1, <2>2, <2>3 DEF AssociateInv, Parent
<1>16. CallerInv'
  <2>1. \A u \in Threads : \A y : y # x /\ Uses(u, y)' => Uses(u, y)
    BY <1>1, <1>2, <1>6 DEF Uses
  <2>2. ExclInv'
    BY <1>0, <1>1, <1>6, <1>7, <2>1 DEF ExclInv
  <2>3. DisconnectInv'
    <3> SUFFICES ASSUME NEW u \in Threads, NEW v \in Threads, u # v, fn[u] = "disconnect", Handle(u) # NULL,
                        NEW s \in stmts'[Handle(u)]
                 PROVE  ~Uses(v, s)'
      BY <1>1, <1>6 DEF DisconnectInv
    <3>1. Handle(u) \in Conns
      BY <1>0 DEF KindInv
    <3>2. s # x
      <4> SUFFICES ASSUME s = x PROVE FALSE
        OBVIOUS
      <4>1. Handle(u) = Handle(t) /\ fn[t] = "alloc_stmt"
        BY <1>1, <1>4, <1>9, <3>1, KindFacts DEF Makes
      <4>2. u # t /\ {fn[u], fn[t]} \subseteq ListCalls
        BY <4>1 DEF ListCalls
      <4>3. home[u] = home[t]
        BY <1>0, <1>9, <4>1 DEF HomeInv
      <4> QED BY <1>0, <4>2, <4>3 DEF ListInv
    <3>3. s \in stmts[Handle(u)]
      BY <1>1, <3>1, <3>2
    <3> QED BY <1>0, <2>1, <3>2, <3>3 DEF DisconnectInv
  <2>4. ListInv'
    BY <1>0, <1>1 DEF ListInv
  <2>5. OwnInv'
    <3>1. \A u \in Threads : pc[u] = "leave" => pc'[u] = "leave"
      BY <1>2, <1>9
    <3> QED BY <1>0, <1>1, <1>5, <1>6, <1>7, <3>1 DEF OwnInv
  <2> QED BY <2>2, <2>3, <2>4, <2>5 DEF CallerInv
<1>17. ReleaserInv'
  <2>1. \A y \in Objs : releaser[y] # NULL => y # x
    BY <1>0, <1>1 DEF LifeInv
  <2>2. \A s \in Stmts : releaser[s] # NULL => ref'[Up(s)] = ref[Up(s)]
    BY <1>5, <2>1, KindFacts
  <2> QED BY <1>0, <1>1, <2>2 DEF ReleaserInv, Parent
<1>18. AssociationsAgree'
  <2>1. \A s \in Stmts : ref'[Ard(s)] = ref[Ard(s)] /\ ref'[Apd(s)] = ref[Apd(s)]
    BY <1>5
  <2>2. \A s \in Stmts, d \in Descs : d \in {ref[Ard(s)], ref[Apd(s)]} => s # x /\ d # x
    BY <1>0, <1>1, <1>4, SlotFacts, KindFacts DEF LifeInv
  <2>3. \A y \in Stmts \cup Descs : (\E s \in Stmts, d \in Descs : y \in {s, d} /\ d \in {ref[Ard(s)], ref[Apd(s)]})
                                      => ref'[Up(y)] = ref[Up(y)]
    BY <1>5, <2>2, KindFacts
  <2> QED BY <1>0, <1>1, <2>1, <2>3, AssocKept
<1>19. ConnectedInv'
  <2>1. \A c \in Conns : connected[c] => ref'[App(c)] = c
    BY <1>0, <1>5, KindFacts DEF ConnectedInv
  <2>2. \A c \in Conns : stmts'[c] # stmts[c] => c = Handle(t) /\ fn[t] = "alloc_stmt"
    BY <1>1, <1>9, KindFacts DEF Makes
  <2>3. \A c \in Conns : stmts'[c] # {} => connected[c]
    BY <1>0, <1>9, <2>2 DEF ConnectedInv
  <2>4. ASSUME NEW u \in Threads, Handle(u) # NULL
        PROVE  /\ fn[u] = "alloc_stmt" => connected[Handle(u)]
               /\ pc'[u] = "drop_own" /\ fn[u] = "free_conn" => ~connected[Handle(u)]
               /\ fn[u] = "connect" =>
                    /\ stmts'[Handle(u)] = {}
                    /\ pc'[u] = "connect" => ~connected[Handle(u)]
                    /\ \A v \in Threads : Handle(v) = Handle(u) /\ v # u =>
                         fn[v] \notin {"alloc_stmt", "connect", "disconnect"}
    <3>1. pc'[u] \in {"drop_own", "connect"} => pc'[u] = pc[u]
      BY <1>2, <1>9 DEF Creating
    <3>2. fn[u] = "connect" => stmts'[Handle(u)] = {}
      <4> SUFFICES ASSUME fn[u] = "connect" PROVE stmts'[Handle(u)] = {}
        OBVIOUS
      <4>1. Handle(u) \in Conns /\ stmts[Handle(u)] = {}
        BY <1>0, <2>4 DEF KindInv, ConnectedInv
      <4>2. ~(Handle(u) = Handle(t) /\ fn[t] = "alloc_stmt")
        BY <1>0, <2>4 DEF ConnectedInv
      <4> QED BY <2>2, <4>1, <4>2
    <3> QED BY <1>0, <2>4, <3>1, <3>2 DEF ConnectedInv
  <2> QED BY <1>1, <1>6, <2>1, <2>3, <2>4 DEF ConnectedInv
<1> QED BY <1>10, <1>11, <1>12, <1>13, <1>14, <1>15, <1>16, <1>17, <1>18, <1>19 DEF ThreadInv

\* A connection or a descriptor refers to its parent at once.
LEMMA CreateChildSteps ==
  ASSUME IInv, NEW t \in Threads, NEW x \in Objs, NEW p, x \notin Stmts,
         Makes(t, x, p), life[x] = "none", life' = [life EXCEPT ![x] = "new"],
         Acquire(Up(x), Handle(t)), arg' = [arg EXCEPT ![t] = x], pc' = [pc EXCEPT ![t] = p],
         UNCHANGED <<releaser, conns, descs, listVars, connVars, fn, home>>
  PROVE  IInv'
<1>0. /\ TypeOK /\ ObjInv /\ StmtInv /\ CountersExact /\ PlaceInv /\ KindInv /\ LifeInv /\ ShapeInv
      /\ RefcExact /\ NoDanglingRef
      /\ x # NULL /\ x \notin Envs /\ p \in {"conn_count", "desc_count"}
  BY KindFacts DEF IInv, ObjInv, ThreadInv, Makes
<1>1. /\ Up(x) \in Slots /\ ref[Up(x)] = NULL /\ fn[t] = pc[t] /\ fn[t] \in {"alloc_conn", "alloc_desc"}
      /\ Handle(t) # NULL
  BY <1>0, NoneFacts, SlotFacts DEF Makes, PlaceInv
<1>2. Handle(t) \in Objs /\ life[Handle(t)] = "live" /\ Handle(t) # x
  BY <1>0, <1>1, HandleLives
<1>3. /\ RefcExact' /\ ref' \in [Slots -> Objs \cup {NULL}] /\ refc' \in [Objs -> Int]
      /\ ref'[Up(x)] = Handle(t) /\ \A j \in Slots : j # Up(x) => ref'[j] = ref[j]
  BY <1>0, <1>1, <1>2, AcquireCount
<1>4. life'[x] = "new" /\ \A y \in Objs : y # x => life'[y] = life[y]
  BY <1>0 DEF TypeOK
<1>5. Creates(t, x, p)
  BY <1>0, <1>3 DEF Creates, listVars
<1>6. ThreadInv' /\ CallerInv' /\ ReleaserInv' /\ AssociationsAgree' /\ ConnectedInv'
  BY <1>5, CreateFacts
<1>7. TypeOK'
  <2>1. arg' \in [Threads -> Conns \cup Stmts \cup Descs \cup {NULL}]
    BY <1>0 DEF TypeOK, Makes
  <2>2. life' \in [Objs -> {"none", "new", "live", "dying", "leaving"}]
    BY <1>0 DEF TypeOK
  <2> QED BY <1>0, <1>3, <2>1, <2>2 DEF TypeOK, listVars, connVars
<1>8. ObjInv'
  <2>1. Fits(Up(x), Handle(t)) /\ \A y : Up(x) # Ard(y) /\ Up(x) # Apd(y)
    BY <1>0, <1>1, SlotsDiffer DEF Fits, Makes, KindInv
  <2>2. \A y \in Envs : life'[y] # "new"
    BY <1>0, <1>4, KindFacts DEF LifeInv
  <2>3. \A y \in Objs \ Envs : life'[y] = "none" => Up(x) # Up(y)
    BY <1>4, SlotsDiffer
  <2>4. life'[Handle(t)] = "live"
    BY <1>2, <1>4
  <2>5. \A y \in Objs : life'[y] # life[y] => life[y] \in {"none", "new"} /\ life'[y] \in {"new", "live"}
    BY <1>4
  <2>6. \A y \in Objs : life'[y] = "live" => life[y] = "live"
    BY <1>4
  <2> QED BY <1>0, <1>1, <1>2, <2>1, <2>2, <2>3, <2>4, <2>5, <2>6, AcquireObj
<1>9. \A s \in Stmts : life'[s] = life[s] /\ ref'[Up(s)] = ref[Up(s)] /\ ref'[App(s)] = ref[App(s)]
  BY <1>0, <1>3, <1>4, SlotFacts, SlotsDiffer, KindFacts
<1>10. \A u \in Threads : Handle(u)' = Handle(u)
  BY <1>3, SlotFacts, SlotsDiffer DEF Handle
<1>11. StmtInv'
  <2>1. \A u \in Threads : u # t => pc'[u] = pc[u] /\ arg'[u] = arg[u]
    BY <1>0 DEF TypeOK
  <2>2. pc'[t] # "stmt_ref_conn" /\ pc[t] # "stmt_ref_conn"
    BY <1>0, <1>1 DEF TypeOK
  <2>3. \A c, s : (\E u \in Threads : pc'[u] = "stmt_ref_conn" /\ arg'[u] = s /\ Handle(u)' = c)
                    <=> (\E u \in Threads : pc[u] = "stmt_ref_conn" /\ arg[u] = s /\ Handle(u) = c)
    BY <1>10, <2>1, <2>2
  <2> QED BY <1>0, <1>9, <1>10, <2>3 DEF StmtInv, Parent, listVars
<1>12. CountersExact'
  <2>1. ConnsExact /\ DescsExact /\ StmtsExact
    BY <1>0, CountParts
  <2>2. \A y \in Objs : y \notin Envs =>
          /\ life'[y] \in {"live", "dying"} <=> life[y] \in {"live", "dying"}
          /\ life[y] \in {"live", "dying"} => ref'[Up(y)] = ref[Up(y)]
    <3> SUFFICES ASSUME NEW y \in Objs, y \notin Envs
                 PROVE  /\ life'[y] \in {"live", "dying"} <=> life[y] \in {"live", "dying"}
                        /\ life[y] \in {"live", "dying"} => ref'[Up(y)] = ref[Up(y)]
      OBVIOUS
    <3>1. CASE y = x
      BY <1>4, <3>1
    <3>2. CASE y # x
      BY <1>3, <1>4, <3>2, SlotFacts, SlotsDiffer
    <3> QED BY <3>1, <3>2
  <2>3. \A c \in Conns : /\ life'[c] \in {"live", "dying"} <=> life[c] \in {"live", "dying"}
                         /\ life[c] \in {"live", "dying"} => ref'[Up(c)] = ref[Up(c)]
    BY <2>2, KindFacts
  <2>4. \A d \in Descs : /\ life'[d] \in {"live", "dying"} <=> life[d] \in {"live", "dying"}
                         /\ life[d] \in {"live", "dying"} => ref'[Up(d)] = ref[Up(d)]
    BY <2>2, KindFacts
  <2>5. ConnsExact'
    BY <2>1, <2>3, ConnsKept
  <2>6. DescsExact'
    BY <2>1, <2>4, DescsKept
  <2>7. StmtsExact'
    BY <2>1, StmtsCountKept DEF listVars
  <2> QED BY <1>3, <2>5, <2>6, <2>7, CountPartsPrime
<1> QED BY <1>6, <1>7, <1>8, <1>11, <1>12 DEF IInv

LEMMA ConnCreateSteps ==
  ASSUME IInv, NEW t \in Threads, conn_create(t)
  PROVE  IInv'
<1>1. PICK x \in Conns : life[x] = "none" /\ life' = [life EXCEPT ![x] = "new"]
                         /\ Acquire(Up(x), Handle(t)) /\ arg' = [arg EXCEPT ![t] = x]
  BY DEF conn_create
<1>2. /\ pc[t] = "alloc_conn" /\ pc' = [pc EXCEPT ![t] = "conn_count"]
      /\ UNCHANGED <<releaser, conns, descs, listVars, connVars, fn, home>>
  BY DEF conn_create, At, GoTo
<1>3. x \in Objs /\ x \notin Stmts /\ Makes(t, x, "conn_count")
  BY <1>2, KindFacts DEF Makes
<1> QED BY <1>1, <1>2, <1>3, CreateChildSteps

LEMMA DescCreateSteps ==
  ASSUME IInv, NEW t \in Threads, desc_create(t)
  PROVE  IInv'
<1>1. PICK x \in Descs : life[x] = "none" /\ life' = [life EXCEPT ![x] = "new"]
                         /\ Acquire(Up(x), Handle(t)) /\ arg' = [arg EXCEPT ![t] = x]
  BY DEF desc_create
<1>2. /\ pc[t] = "alloc_desc" /\ pc' = [pc EXCEPT ![t] = "desc_count"]
      /\ UNCHANGED <<releaser, conns, descs, listVars, connVars, fn, home>>
  BY DEF desc_create, At, GoTo
<1>3. x \in Objs /\ x \notin Stmts /\ Makes(t, x, "desc_count")
  BY <1>2, KindFacts DEF Makes
<1> QED BY <1>1, <1>2, <1>3, CreateChildSteps

\* A statement is listed and counted first, its pointer to the connection comes later.
LEMMA StmtCreateSteps ==
  ASSUME IInv, NEW t \in Threads, stmt_create(t)
  PROVE  IInv'
<1>1. PICK x \in Stmts : /\ life[x] = "none" /\ life' = [life EXCEPT ![x] = "new"]
                         /\ stmts' = [stmts EXCEPT ![Handle(t)] = @ \cup {x}]
                         /\ arg' = [arg EXCEPT ![t] = x]
  BY DEF stmt_create
<1>2. /\ pc[t] = "alloc_stmt" /\ pc' = [pc EXCEPT ![t] = "stmt_ref_conn"]
      /\ nr_stmts' = [nr_stmts EXCEPT ![Handle(t)] = @ + 1]
      /\ UNCHANGED <<refc, ref, releaser, conns, descs, asARD, asAPD, connVars, fn, home>>
  BY DEF stmt_create, At, GoTo
<1>0. /\ TypeOK /\ ObjInv /\ StmtInv /\ CountersExact /\ PlaceInv /\ KindInv /\ LifeInv /\ ShapeInv
      /\ RefcExact /\ NoDanglingRef /\ ArgInv
      /\ x \in Objs /\ x # NULL /\ x \notin Envs /\ x \notin Conns /\ x \notin Descs
  BY KindFacts DEF IInv, ObjInv, ThreadInv
<1>3. Handle(t) \in Conns /\ ref[Up(x)] = NULL /\ x \notin stmts[Handle(t)]
  BY <1>0, <1>1, <1>2, NoneFacts DEF PlaceInv, KindInv
<1>4. /\ stmts'[Handle(t)] = stmts[Handle(t)] \cup {x} /\ \A c \in Conns : c # Handle(t) => stmts'[c] = stmts[c]
      /\ nr_stmts'[Handle(t)] = nr_stmts[Handle(t)] + 1 /\ \A c \in Conns : c # Handle(t) => nr_stmts'[c] = nr_stmts[c]
      /\ life'[x] = "new" /\ \A y \in Objs : y # x => life'[y] = life[y]
  BY <1>0, <1>1, <1>2, <1>3 DEF TypeOK
<1>5. Creates(t, x, "stmt_ref_conn")
  BY <1>1, <1>2, <1>3, <1>4 DEF Creates, Makes
<1>6. ThreadInv' /\ CallerInv' /\ ReleaserInv' /\ AssociationsAgree' /\ ConnectedInv'
  BY <1>0, <1>5, CreateFacts
<1>7. TypeOK'
  <2>1. arg' \in [Threads -> Conns \cup Stmts \cup Descs \cup {NULL}]
    BY <1>0, <1>1 DEF TypeOK
  <2>2. life' \in [Objs -> {"none", "new", "live", "dying", "leaving"}] /\ stmts' \in [Conns -> SUBSET Stmts]
    BY <1>0, <1>1, <1>3 DEF TypeOK
  <2>3. nr_stmts' \in [Conns -> Int]
    BY <1>0, <1>2, <1>3 DEF TypeOK
  <2> QED BY <1>0, <1>2, <2>1, <2>2, <2>3 DEF TypeOK, connVars
<1>8. ObjInv'
  <2>1. ShapeInv' /\ RefcExact'
    BY <1>0, <1>2 DEF ShapeInv, RefcExact, Refs, Parent
  <2>2. NoDanglingRef'
    <3>1. \A k \in Slots : ref[k] # NULL => ref[k] \in Objs /\ ref[k] # x
      BY <1>0, <1>1 DEF TypeOK, NoDanglingRef
    <3> QED BY <1>0, <1>2, <1>4, <3>1 DEF NoDanglingRef
  <2>3. LifeInv'
    <3>1. \A o \in Objs : releaser'[o] # NULL <=> life'[o] \in {"dying", "leaving"}
      BY <1>0, <1>1, <1>2, <1>4 DEF LifeInv
    <3>2. \A o \in Objs : life'[o] = "live" => refc'[o] # 0
      BY <1>0, <1>2, <1>4 DEF LifeInv
    <3>3. \A e \in Envs : life'[e] \notin {"new", "leaving"}
      BY <1>0, <1>4, KindFacts DEF LifeInv
    <3>4. \A o \in Objs \ Envs : /\ life'[o] = "none" => ref'[Up(o)] = NULL
                                 /\ life'[o] \in {"live", "dying", "leaving"} => ref'[Up(o)] # NULL
      BY <1>0, <1>2, <1>4 DEF LifeInv, Parent
    <3>5. \A s \in Stmts : life'[s] \in {"none", "new"} => ref'[Ard(s)] = NULL /\ ref'[Apd(s)] = NULL
      BY <1>0, <1>1, <1>2, <1>4, KindFacts DEF LifeInv
    <3> QED BY <3>1, <3>2, <3>3, <3>4, <3>5 DEF LifeInv, Parent
  <2> QED BY <2>1, <2>2, <2>3 DEF ObjInv
<1>9. /\ arg'[t] = x /\ pc'[t] = "stmt_ref_conn" /\ \A u \in Threads : u # t => arg'[u] = arg[u] /\ pc'[u] = pc[u]
  BY <1>0, <1>1, <1>2 DEF TypeOK
<1>10. \A u \in Threads : Handle(u)' = Handle(u)
  BY <1>2 DEF Handle
<1>11. StmtInv'
  <2>1. \A s \in Stmts : life'[s] = "live" => life[s] = "live"
    BY <1>4, KindFacts
  <2>2. ASSUME NEW c \in Conns, NEW s \in Stmts
        PROVE  s \in stmts'[c] <=> \/ ref[Up(s)] = c /\ life'[s] \in {"new", "live", "dying"}
                                   \/ \E u \in Threads : pc'[u] = "stmt_ref_conn" /\ arg'[u] = s /\ Handle(u) = c
    <3>1. CASE s = x
      <4>1. s \in stmts'[c] <=> c = Handle(t)
        BY <1>0, <1>1, <1>4, <3>1, NoneFacts
      <4>2. ref[Up(s)] # c
        BY <1>3, <3>1, KindFacts
      <4>3. (\E u \in Threads : pc'[u] = "stmt_ref_conn" /\ arg'[u] = s /\ Handle(u) = c) <=> c = Handle(t)
        <5>1. \A u \in Threads : u # t => arg'[u] # x
          BY <1>0, <1>1, <1>9, NoneFacts
        <5> QED BY <1>9, <3>1, <5>1
      <4> QED BY <4>1, <4>2, <4>3
    <3>2. CASE s # x
      <4>1. s \in stmts'[c] <=> s \in stmts[c]
        BY <1>4, <3>2
      <4>2. life'[s] = life[s]
        BY <1>4, <3>2, KindFacts
      <4>3. (\E u \in Threads : pc'[u] = "stmt_ref_conn" /\ arg'[u] = s /\ Handle(u) = c)
              <=> (\E u \in Threads : pc[u] = "stmt_ref_conn" /\ arg[u] = s /\ Handle(u) = c)
        <5>1. pc[t] # "stmt_ref_conn" /\ arg'[t] # s
          BY <1>2, <1>9, <3>2
        <5> QED BY <1>9, <5>1
      <4> QED BY <1>0, <4>1, <4>2, <4>3 DEF StmtInv, Parent
    <3> QED BY <3>1, <3>2
  <2> QED BY <1>0, <1>2, <1>10, <2>1, <2>2 DEF StmtInv, Parent
<1>12. CountersExact'
  <2>1. ConnsExact /\ DescsExact /\ StmtsExact
    BY <1>0, CountParts
  <2>2. ConnsExact' /\ DescsExact'
    BY <1>0, <1>2, <1>4, <2>1, KindFacts, ConnsKept, DescsKept
  <2>3. StmtsExact'
    <3>1. ASSUME NEW c \in Conns PROVE nr_stmts'[c] = Cardinality(stmts'[c])
      <4>1. CASE c = Handle(t)
        <5>1. IsFiniteSet(stmts[c])
          BY <1>0, KidsFinite DEF TypeOK
        <5>2. Cardinality(stmts'[c]) = Cardinality(stmts[c]) + 1
          BY <1>3, <1>4, <4>1, <5>1, CountIn
        <5> QED BY <1>4, <2>1, <4>1, <5>2 DEF StmtsExact
      <4>2. CASE c # Handle(t)
        BY <1>4, <2>1, <4>2 DEF StmtsExact
      <4> QED BY <4>1, <4>2
    <3> QED BY <3>1 DEF StmtsExact
  <2>4. RefcExact'
    BY <1>8 DEF ObjInv
  <2> QED BY <2>2, <2>3, <2>4, CountPartsPrime
<1> QED BY <1>6, <1>7, <1>8, <1>11, <1>12 DEF IInv

-----------------------------------------------------------------------------
(* The new object is counted and returned.                                 *)

Finishes(t, x) ==
  /\ pc[t] \in {"conn_count", "desc_count", "stmt_ready"} /\ x = arg[t]
  /\ life' = [life EXCEPT ![x] = "live"]
  /\ Acquire(App(x), x)
  /\ pc' = [pc EXCEPT ![t] = "leave"]
  /\ UNCHANGED <<releaser, listVars, connVars, callVars>>

\* A new object is known to its creator only.
LEMMA NewFacts ==
  ASSUME IInv, NEW t \in Threads, pc[t] \in Creating, NEW x, x = arg[t]
  PROVE  /\ x \in Objs /\ x # NULL /\ x \notin Envs /\ life[x] = "new"
         /\ fn[t] \in {"alloc_conn", "alloc_desc", "alloc_stmt"} /\ Handle(t) # NULL
         /\ fn[t] = "alloc_conn" => x \in Conns /\ Handle(t) \in Envs
         /\ fn[t] = "alloc_desc" => x \in Descs /\ Handle(t) \in Conns
         /\ fn[t] = "alloc_stmt" => x \in Stmts /\ Handle(t) \in Conns
         /\ pc[t] = "stmt_ref_conn" => ref[Up(x)] = NULL
         /\ pc[t] # "stmt_ref_conn" => ref[Up(x)] = Handle(t)
         /\ \A k \in Slots : ref[k] # x
         /\ \A u \in Threads : u # t => arg[u] # x
         /\ \A u \in Threads : Handle(u) # x
<1>0. TypeOK /\ PlaceInv /\ ArgInv /\ NewInv /\ KindInv /\ NoDanglingRef
  BY DEF IInv, ThreadInv, ObjInv
<1>1. fn[t] \in {"alloc_conn", "alloc_desc", "alloc_stmt"} /\ Handle(t) # NULL
  BY <1>0 DEF PlaceInv, Creating
<1>2. x # NULL /\ life[x] = "new" /\ x \in Objs /\ x \notin Envs
  BY <1>0, KindFacts DEF ArgInv, TypeOK
<1>3. /\ pc[t] = "stmt_ref_conn" => ref[Up(x)] = NULL
      /\ pc[t] # "stmt_ref_conn" => ref[Up(x)] = Handle(t)
  BY <1>0 DEF ArgInv, Parent
<1>4. \A k \in Slots : ref[k] # x
  BY <1>0, <1>2 DEF NoDanglingRef
<1>5. \A u \in Threads : u # t => arg[u] # x
  BY <1>0, <1>1, <1>2 DEF NewInv, Sets
<1>6. \A u \in Threads : Handle(u) # x
  BY <1>4, SlotFacts DEF Handle
<1>7. /\ fn[t] = "alloc_conn" => x \in Conns
      /\ fn[t] = "alloc_desc" => x \in Descs
      /\ fn[t] = "alloc_stmt" => x \in Stmts
  BY <1>0, <1>2 DEF ArgInv
<1>8. /\ fn[t] = "alloc_conn" => Handle(t) \in Envs
      /\ fn[t] \in {"alloc_desc", "alloc_stmt"} => Handle(t) \in Conns
  BY <1>0, <1>1 DEF KindInv
<1> QED BY <1>1, <1>2, <1>3, <1>4, <1>5, <1>6, <1>7, <1>8

\* A new object becomes live and the application gets its handle.
LEMMA FinishFacts ==
  ASSUME IInv, NEW t \in Threads, NEW x, Finishes(t, x)
  PROVE  /\ ObjInv' /\ ThreadInv' /\ CallerInv' /\ AssociationsAgree' /\ StmtInv' /\ ReleaserInv' /\ ConnectedInv'
         /\ ref' \in [Slots -> Objs \cup {NULL}] /\ refc' \in [Objs -> Int]
         /\ life' \in [Objs -> {"none", "new", "live", "dying", "leaving"}]
         /\ pc' \in [Threads -> Calls \cup
               {"idle", "conn_count", "desc_count", "stmt_ref_conn", "stmt_ready",
                "post_connect", "executing", "associate_ard", "associate_apd",
                "drop_own", "leave", "return"}]
         /\ life'[x] = "live" /\ \A y \in Objs : y # x => life'[y] = life[y]
         /\ \A y \in Objs : y \notin Envs => ref'[Up(y)] = ref[Up(y)]
<1>0. /\ TypeOK /\ ObjInv /\ StmtInv /\ ReleaserInv /\ ConnectedInv /\ AssociationsAgree
      /\ PlaceInv /\ KindInv /\ HomeInv /\ ArgInv /\ NewInv /\ AssociateInv
      /\ ExclInv /\ DisconnectInv /\ ListInv /\ OwnInv /\ LifeInv /\ NoDanglingRef /\ RefcExact
  BY DEF IInv, ObjInv, ThreadInv, CallerInv
<1>1. /\ pc[t] \in {"conn_count", "desc_count", "stmt_ready"} /\ pc[t] \in Creating /\ x = arg[t]
      /\ life' = [life EXCEPT ![x] = "live"] /\ Acquire(App(x), x) /\ pc' = [pc EXCEPT ![t] = "leave"]
      /\ releaser' = releaser /\ stmts' = stmts /\ asARD' = asARD /\ asAPD' = asAPD /\ connected' = connected
      /\ fn' = fn /\ home' = home /\ arg' = arg
  BY DEF Finishes, Creating, listVars, connVars, callVars
<1>2. /\ x \in Objs /\ x # NULL /\ x \notin Envs /\ life[x] = "new"
      /\ fn[t] \in {"alloc_conn", "alloc_desc", "alloc_stmt"} /\ Handle(t) # NULL
      /\ ref[Up(x)] = Handle(t)
      /\ \A k \in Slots : ref[k] # x
      /\ \A u \in Threads : u # t => arg[u] # x
      /\ \A u \in Threads : Handle(u) # x
  BY <1>1, NewFacts
<1>3. App(x) \in Slots /\ ref[App(x)] = NULL
  BY <1>0, <1>2, SlotFacts DEF ObjInv, ShapeInv
<1>4. /\ ref' \in [Slots -> Objs \cup {NULL}] /\ refc' \in [Objs -> Int]
      /\ ref'[App(x)] = x /\ \A j \in Slots : j # App(x) => ref'[j] = ref[j]
  BY <1>0, <1>1, <1>2, <1>3, AcquireCount
<1>5. life'[x] = "live" /\ \A y \in Objs : y # x => life'[y] = life[y]
  BY <1>0, <1>1, <1>2 DEF TypeOK
<1>6. pc'[t] = "leave" /\ \A u \in Threads : u # t => pc'[u] = pc[u]
  BY <1>0, <1>1 DEF TypeOK
<1>7. \A y : /\ y \in Objs /\ y # x => ref'[App(y)] = ref[App(y)]
             /\ y \in Objs /\ y \notin Envs => ref'[Up(y)] = ref[Up(y)]
             /\ y \in Stmts => ref'[Ard(y)] = ref[Ard(y)] /\ ref'[Apd(y)] = ref[Apd(y)]
             /\ y \in Threads => ref'[Api(y)] = ref[Api(y)]
  BY <1>4, SlotFacts, SlotsDiffer
<1>8. \A u \in Threads : Handle(u)' = Handle(u)
  BY <1>7 DEF Handle
<1>9. \A u \in Threads : Handle(u) # NULL => Handle(u) \in Objs
  BY <1>0, HandleLives
<1>10. \A u \in Threads : arg[u] # NULL => arg[u] \in Objs /\ arg[u] \notin Envs
  BY <1>0, KindFacts DEF TypeOK
<1>11. ObjInv'
  <2>1. Fits(App(x), x) /\ \A y : App(x) # Up(y) /\ App(x) # Ard(y) /\ App(x) # Apd(y)
    BY SlotsDiffer DEF Fits
  <2>2. \A y \in Envs : life'[y] # "new"
    BY <1>0, <1>2, <1>5, KindFacts DEF LifeInv
  <2>3. \A y \in Objs \ Envs : life'[y] = "live" => life[y] = "live" \/ Parent(y) # NULL
    BY <1>2, <1>5 DEF Parent
  <2>4. \A y \in Objs : /\ life'[y] # life[y] => life[y] \in {"none", "new"} /\ life'[y] \in {"new", "live"}
                        /\ life'[y] = "live" => life[y] = "live" \/ y = x
    BY <1>2, <1>5
  <2> QED BY <1>0, <1>1, <1>2, <1>3, <1>5, <2>1, <2>2, <2>3, <2>4, AcquireObj
<1>12. PlaceInv'
  BY <1>0, <1>1, <1>2, <1>6, <1>8 DEF PlaceInv, Frees, Creating
<1>13. KindInv'
  BY <1>0, <1>1, <1>8 DEF KindInv
<1>14. HomeInv'
  <2>1. \A u \in Threads : Handle(u) # NULL => ConnOf(Handle(u))' = ConnOf(Handle(u))
    BY <1>7, <1>8, <1>9, KindFacts DEF ConnOf, Parent
  <2> QED BY <1>0, <1>1, <1>8, <2>1 DEF HomeInv
<1>15. ArgInv'
  <2> SUFFICES ASSUME NEW u \in Threads
               PROVE  /\ arg[u] # NULL =>
                           /\ fn[u] \in {"alloc_conn", "alloc_stmt", "alloc_desc"} \cup Sets
                           /\ fn[u] = "alloc_conn" => arg[u] \in Conns
                           /\ fn[u] = "alloc_stmt" => arg[u] \in Stmts
                           /\ fn[u] \in {"alloc_desc"} \cup Sets => arg[u] \in Descs
                           /\ pc'[u] \in Creating => life'[arg[u]] = "new"
                           /\ pc'[u] \notin Creating => ref'[App(arg[u])] = arg[u]
                      /\ pc'[u] \in Creating =>
                           /\ arg[u] # NULL
                           /\ ref'[Up(arg[u])] = IF pc'[u] = "stmt_ref_conn" THEN NULL ELSE Handle(u)
    BY <1>1, <1>8 DEF ArgInv, Parent
  <2>1. CASE u = t
    <3>1. arg[u] = x /\ pc'[u] = "leave" /\ pc'[u] \notin Creating
      BY <1>1, <1>6, <2>1 DEF Creating
    <3>2. /\ fn[u] \in {"alloc_conn", "alloc_stmt", "alloc_desc"} \cup Sets
          /\ fn[u] = "alloc_conn" => arg[u] \in Conns
          /\ fn[u] = "alloc_stmt" => arg[u] \in Stmts
          /\ fn[u] \in {"alloc_desc"} \cup Sets => arg[u] \in Descs
      BY <1>0, <1>2, <3>1 DEF ArgInv
    <3> QED BY <1>4, <3>1, <3>2
  <2>2. CASE u # t
    <3>1. pc'[u] = pc[u]
      BY <1>6, <2>2
    <3>2. arg[u] # NULL => life'[arg[u]] = life[arg[u]] /\ ref'[App(arg[u])] = ref[App(arg[u])] /\ ref'[Up(arg[u])] = ref[Up(arg[u])]
      BY <1>2, <1>5, <1>7, <1>10, <2>2
    <3> QED BY <1>0, <3>1, <3>2 DEF ArgInv, Parent
  <2> QED BY <2>1, <2>2
<1>16. NewInv'
  <2>1. ASSUME NEW y \in Objs, life'[y] = "new" PROVE \E u \in Threads : pc'[u] \in Creating /\ arg[u] = y
    <3>1. y # x /\ life[y] = "new"
      BY <1>5, <2>1
    <3>2. PICK u \in Threads : pc[u] \in Creating /\ arg[u] = y
      BY <1>0, <3>1 DEF NewInv
    <3>3. u # t
      BY <1>1, <3>1, <3>2
    <3> QED BY <1>6, <3>2, <3>3
  <2> QED BY <1>0, <1>1, <2>1 DEF NewInv
<1>17. AssociateInv'
  <2> SUFFICES ASSUME NEW u \in Threads, pc'[u] \in {"associate_ard", "associate_apd"}
               PROVE  /\ arg[u] # NULL /\ ref'[Up(arg[u])] = ref'[Up(Handle(u))]
                      /\ pc'[u] = "associate_ard" => ref'[Ard(Handle(u))] = NULL /\ ref'[Apd(Handle(u))] # arg[u]
                      /\ pc'[u] = "associate_apd" => ref'[Apd(Handle(u))] = NULL /\ ref'[Ard(Handle(u))] # arg[u]
    BY <1>1, <1>8 DEF AssociateInv, Parent
  <2>1. pc'[u] = pc[u]
    BY <1>6
  <2>2. Handle(u) \in Stmts /\ Handle(u) \in Objs /\ Handle(u) \notin Envs
    BY <1>0, <1>9, <2>1, KindFacts DEF PlaceInv, KindInv, Sets
  <2>3. arg[u] # NULL
    BY <1>0, <2>1 DEF AssociateInv
  <2> QED BY <1>0, <1>7, <1>10, <2>1, <2>2, <2>3 DEF AssociateInv, Parent
<1>18. CallerInv'
  <2>1. \A u \in Threads : \A y : Uses(u, y)' <=> Uses(u, y)
    BY <1>1, <1>8 DEF Uses
  <2>2. ExclInv' /\ DisconnectInv' /\ ListInv'
    BY <1>0, <1>1, <1>8, <2>1 DEF ExclInv, DisconnectInv, ListInv
  <2>3. \A u \in Threads : pc[u] = "leave" => pc'[u] = "leave"
    BY <1>6
  <2>4. OwnInv'
    BY <1>0, <1>1, <1>2, <1>7, <1>8, <1>9, <2>3 DEF OwnInv
  <2> QED BY <2>2, <2>4 DEF CallerInv
<1>19. AssociationsAgree'
  <2>1. \A s \in Stmts : ref'[Ard(s)] = ref[Ard(s)] /\ ref'[Apd(s)] = ref[Apd(s)]
    BY <1>7
  <2>2. \A y \in Stmts \cup Descs : ref'[Up(y)] = ref[Up(y)]
    BY <1>7, KindFacts
  <2> QED BY <1>0, <1>1, <2>1, <2>2, AssocKept
<1>20. StmtInv'
  <2>1. ASSUME NEW s \in Stmts, life'[s] = "live"
        PROVE  ref'[App(s)] = s \/ \E u \in Threads : Handle(u) = s /\ fn[u] = "free_stmt"
    <3>1. CASE s = x
      BY <1>4, <3>1
    <3>2. CASE s # x
      BY <1>0, <1>5, <1>7, <2>1, <3>2, KindFacts DEF StmtInv
    <3> QED BY <3>1, <3>2
  <2>2. \A s \in Stmts : /\ ref'[Up(s)] = ref[Up(s)]
                         /\ life'[s] \in {"new", "live", "dying"} <=> life[s] \in {"new", "live", "dying"}
    BY <1>2, <1>5, <1>7, KindFacts
  <2>3. \A u \in Threads : pc'[u] = "stmt_ref_conn" <=> pc[u] = "stmt_ref_conn"
    BY <1>1, <1>6
  <2>4. \A c, s : (\E u \in Threads : pc'[u] = "stmt_ref_conn" /\ arg[u] = s /\ Handle(u) = c)
                    <=> (\E u \in Threads : pc[u] = "stmt_ref_conn" /\ arg[u] = s /\ Handle(u) = c)
    BY <2>3
  <2> QED BY <1>0, <1>1, <1>8, <2>1, <2>2, <2>4 DEF StmtInv, Parent
<1>21. ReleaserInv'
  <2>1. \A s \in Stmts : ref'[Up(s)] = ref[Up(s)]
    BY <1>7, KindFacts
  <2> QED BY <1>0, <1>1, <2>1 DEF ReleaserInv, Parent
<1>22. ConnectedInv'
  <2>1. \A c \in Conns : connected[c] => ref'[App(c)] = c
    BY <1>0, <1>4, <1>7, KindFacts DEF ConnectedInv
  <2>2. \A u \in Threads : pc'[u] \in {"drop_own", "connect"} => pc'[u] = pc[u]
    BY <1>6
  <2> QED BY <1>0, <1>1, <1>8, <2>1, <2>2 DEF ConnectedInv
<1>23. life' \in [Objs -> {"none", "new", "live", "dying", "leaving"}]
  BY <1>0, <1>1 DEF TypeOK
<1>24. pc' \in [Threads -> Calls \cup
               {"idle", "conn_count", "desc_count", "stmt_ref_conn", "stmt_ready",
                "post_connect", "executing", "associate_ard", "associate_apd",
                "drop_own", "leave", "return"}]
  BY <1>0, <1>1 DEF TypeOK
<1>25. ThreadInv'
  BY <1>12, <1>13, <1>14, <1>15, <1>16, <1>17 DEF ThreadInv
<1> QED BY <1>4, <1>5, <1>7, <1>11, <1>18, <1>19, <1>20, <1>21, <1>22, <1>23, <1>24, <1>25

LEMMA ConnCountSteps ==
  ASSUME IInv, NEW t \in Threads, conn_count(t)
  PROVE  IInv'
<1>0. /\ TypeOK /\ CountersExact /\ PlaceInv
      /\ pc[t] = "conn_count" /\ pc[t] \in Creating /\ pc[t] # "stmt_ref_conn"
  BY DEF IInv, ThreadInv, conn_count, At, Creating
<1> DEFINE x == arg[t]
<1>1. Finishes(t, x)
  BY <1>0 DEF conn_count, Finishes, GoTo
<1>2. /\ x \in Conns /\ life[x] = "new" /\ ref[Up(x)] = Handle(t) /\ Handle(t) \in Envs
      /\ x \in Objs /\ x \notin Envs
  <2>1. fn[t] = "alloc_conn"
    BY <1>0 DEF PlaceInv
  <2> QED BY <1>0, <2>1, NewFacts
<1> HIDE DEF x
<1>3. /\ ObjInv' /\ ThreadInv' /\ CallerInv' /\ AssociationsAgree' /\ StmtInv' /\ ReleaserInv' /\ ConnectedInv'
      /\ ref' \in [Slots -> Objs \cup {NULL}] /\ refc' \in [Objs -> Int]
      /\ life' \in [Objs -> {"none", "new", "live", "dying", "leaving"}]
      /\ pc' \in [Threads -> Calls \cup
            {"idle", "conn_count", "desc_count", "stmt_ref_conn", "stmt_ready",
             "post_connect", "executing", "associate_ard", "associate_apd",
             "drop_own", "leave", "return"}]
      /\ life'[x] = "live" /\ \A y \in Objs : y # x => life'[y] = life[y]
      /\ \A y \in Objs : y \notin Envs => ref'[Up(y)] = ref[Up(y)]
  BY <1>1, FinishFacts
<1>4. /\ UNCHANGED <<releaser, descs, stmts, nr_stmts, asARD, asAPD, connected, outstandings, fn, home, arg>>
      /\ conns' = [conns EXCEPT ![Handle(t)] = @ + 1]
  BY DEF conn_count, listVars, connVars, callVars
<1>5. conns \in [Envs -> Int] /\ conns' \in [Envs -> Int]
  <2>1. conns \in [Envs -> Int]
    BY <1>0 DEF TypeOK
  <2> QED BY <1>2, <1>4, <2>1
<1>6. TypeOK'
  BY <1>0, <1>3, <1>4, <1>5 DEF TypeOK
<1>7. CountersExact'
  <2>1. RefcExact' /\ ConnsExact /\ DescsExact /\ StmtsExact
    BY <1>0, <1>3, CountParts DEF ObjInv
  <2>2. \A y \in Descs : life'[y] = life[y] /\ ref'[Up(y)] = ref[Up(y)]
    BY <1>2, <1>3, KindFacts
  <2>3. DescsExact' /\ StmtsExact'
    BY <1>4, <2>1, <2>2, DescsKept, StmtsCountKept
  <2>4. ASSUME NEW e \in Envs PROVE conns'[e] = Cardinality(CountedIn(ref', life', e, Conns))
    <3>1. conns[e] = Cardinality(CountedIn(ref, life, e, Conns))
      BY <2>1, CountedFacts
    <3>2. CASE e = Handle(t)
      <4>1. x \notin CountedIn(ref, life, e, Conns)
        BY <1>2 DEF CountedIn
      <4>2. CountedIn(ref', life', e, Conns) = CountedIn(ref, life, e, Conns) \cup {x}
        BY <1>2, <1>3, <3>2, KindFacts DEF CountedIn
      <4>3. conns'[e] = conns[e] + 1
        BY <1>4, <1>5, <3>2
      <4> QED BY <3>1, <4>1, <4>2, <4>3, KidsFinite, CountIn
    <3>3. CASE e # Handle(t)
      <4>1. CountedIn(ref', life', e, Conns) = CountedIn(ref, life, e, Conns)
        BY <1>2, <1>3, <3>3, KindFacts DEF CountedIn
      <4>2. conns'[e] = conns[e]
        BY <1>4, <1>5, <3>3
      <4> QED BY <3>1, <4>1, <4>2
    <3> QED BY <3>2, <3>3
  <2>5. ConnsExact'
    BY <2>4, CountedFacts
  <2> QED BY <2>1, <2>3, <2>5, CountPartsPrime
<1> QED BY <1>3, <1>6, <1>7 DEF IInv

LEMMA DescCountSteps ==
  ASSUME IInv, NEW t \in Threads, desc_count(t)
  PROVE  IInv'
<1>0. /\ TypeOK /\ CountersExact /\ PlaceInv
      /\ pc[t] = "desc_count" /\ pc[t] \in Creating /\ pc[t] # "stmt_ref_conn"
  BY DEF IInv, ThreadInv, desc_count, At, Creating
<1> DEFINE x == arg[t]
<1>1. Finishes(t, x)
  BY <1>0 DEF desc_count, Finishes, GoTo
<1>2. /\ x \in Descs /\ life[x] = "new" /\ ref[Up(x)] = Handle(t) /\ Handle(t) \in Conns
      /\ x \in Objs /\ x \notin Envs
  <2>1. fn[t] = "alloc_desc"
    BY <1>0 DEF PlaceInv
  <2> QED BY <1>0, <2>1, NewFacts
<1> HIDE DEF x
<1>3. /\ ObjInv' /\ ThreadInv' /\ CallerInv' /\ AssociationsAgree' /\ StmtInv' /\ ReleaserInv' /\ ConnectedInv'
      /\ ref' \in [Slots -> Objs \cup {NULL}] /\ refc' \in [Objs -> Int]
      /\ life' \in [Objs -> {"none", "new", "live", "dying", "leaving"}]
      /\ pc' \in [Threads -> Calls \cup
            {"idle", "conn_count", "desc_count", "stmt_ref_conn", "stmt_ready",
             "post_connect", "executing", "associate_ard", "associate_apd",
             "drop_own", "leave", "return"}]
      /\ life'[x] = "live" /\ \A y \in Objs : y # x => life'[y] = life[y]
      /\ \A y \in Objs : y \notin Envs => ref'[Up(y)] = ref[Up(y)]
  BY <1>1, FinishFacts
<1>4. /\ UNCHANGED <<releaser, conns, stmts, nr_stmts, asARD, asAPD, connected, outstandings, fn, home, arg>>
      /\ descs' = [descs EXCEPT ![Handle(t)] = @ + 1]
  BY DEF desc_count, listVars, connVars, callVars
<1>5. descs \in [Conns -> Int] /\ descs' \in [Conns -> Int]
  <2>1. descs \in [Conns -> Int]
    BY <1>0 DEF TypeOK
  <2> QED BY <1>2, <1>4, <2>1
<1>6. TypeOK'
  BY <1>0, <1>3, <1>4, <1>5 DEF TypeOK
<1>7. CountersExact'
  <2>1. RefcExact' /\ ConnsExact /\ DescsExact /\ StmtsExact
    BY <1>0, <1>3, CountParts DEF ObjInv
  <2>2. \A y \in Conns : life'[y] = life[y] /\ ref'[Up(y)] = ref[Up(y)]
    BY <1>2, <1>3, KindFacts
  <2>3. ConnsExact' /\ StmtsExact'
    BY <1>4, <2>1, <2>2, ConnsKept, StmtsCountKept
  <2>4. ASSUME NEW e \in Conns PROVE descs'[e] = Cardinality(CountedIn(ref', life', e, Descs))
    <3>1. descs[e] = Cardinality(CountedIn(ref, life, e, Descs))
      BY <2>1, CountedFacts
    <3>2. CASE e = Handle(t)
      <4>1. x \notin CountedIn(ref, life, e, Descs)
        BY <1>2 DEF CountedIn
      <4>2. CountedIn(ref', life', e, Descs) = CountedIn(ref, life, e, Descs) \cup {x}
        BY <1>2, <1>3, <3>2, KindFacts DEF CountedIn
      <4>3. descs'[e] = descs[e] + 1
        BY <1>4, <1>5, <3>2
      <4> QED BY <3>1, <4>1, <4>2, <4>3, KidsFinite, CountIn
    <3>3. CASE e # Handle(t)
      <4>1. CountedIn(ref', life', e, Descs) = CountedIn(ref, life, e, Descs)
        BY <1>2, <1>3, <3>3, KindFacts DEF CountedIn
      <4>2. descs'[e] = descs[e]
        BY <1>4, <1>5, <3>3
      <4> QED BY <3>1, <4>1, <4>2
    <3> QED BY <3>2, <3>3
  <2>5. DescsExact'
    BY <2>4, CountedFacts
  <2> QED BY <2>1, <2>3, <2>5, CountPartsPrime
<1> QED BY <1>3, <1>6, <1>7 DEF IInv

\* A statement was counted when it was listed.
LEMMA StmtReadySteps ==
  ASSUME IInv, NEW t \in Threads, stmt_ready(t)
  PROVE  IInv'
<1>0. /\ TypeOK /\ CountersExact /\ PlaceInv
      /\ pc[t] = "stmt_ready" /\ pc[t] \in Creating /\ pc[t] # "stmt_ref_conn"
  BY DEF IInv, ThreadInv, stmt_ready, At, Creating
<1> DEFINE x == arg[t]
<1>1. Finishes(t, x)
  BY <1>0 DEF stmt_ready, Finishes, GoTo
<1>2. x \in Stmts
  <2>1. fn[t] = "alloc_stmt"
    BY <1>0 DEF PlaceInv
  <2> QED BY <1>0, <2>1, NewFacts
<1> HIDE DEF x
<1>3. /\ ObjInv' /\ ThreadInv' /\ CallerInv' /\ AssociationsAgree' /\ StmtInv' /\ ReleaserInv' /\ ConnectedInv'
      /\ ref' \in [Slots -> Objs \cup {NULL}] /\ refc' \in [Objs -> Int]
      /\ life' \in [Objs -> {"none", "new", "live", "dying", "leaving"}]
      /\ pc' \in [Threads -> Calls \cup
            {"idle", "conn_count", "desc_count", "stmt_ref_conn", "stmt_ready",
             "post_connect", "executing", "associate_ard", "associate_apd",
             "drop_own", "leave", "return"}]
      /\ life'[x] = "live" /\ \A y \in Objs : y # x => life'[y] = life[y]
      /\ \A y \in Objs : y \notin Envs => ref'[Up(y)] = ref[Up(y)]
  BY <1>1, FinishFacts
<1>4. UNCHANGED <<releaser, conns, descs, stmts, nr_stmts, asARD, asAPD, connected, outstandings, fn, home, arg>>
  BY DEF stmt_ready, listVars, connVars, callVars
<1>5. TypeOK'
  BY <1>0, <1>3, <1>4 DEF TypeOK
<1>6. CountersExact'
  <2>1. RefcExact' /\ ConnsExact /\ DescsExact /\ StmtsExact
    BY <1>0, <1>3, CountParts DEF ObjInv
  <2>2. \A y \in Conns : life'[y] = life[y] /\ ref'[Up(y)] = ref[Up(y)]
    BY <1>2, <1>3, KindFacts
  <2>3. \A y \in Descs : life'[y] = life[y] /\ ref'[Up(y)] = ref[Up(y)]
    BY <1>2, <1>3, KindFacts
  <2>4. ConnsExact' /\ DescsExact' /\ StmtsExact'
    BY <1>4, <2>1, <2>2, <2>3, ConnsKept, DescsKept, StmtsCountKept
  <2> QED BY <2>1, <2>4, CountPartsPrime
<1> QED BY <1>3, <1>5, <1>6 DEF IInv

\* The new statement refers to its connection.
LEMMA StmtRefConnSteps ==
  ASSUME IInv, NEW t \in Threads, stmt_ref_conn(t)
  PROVE  IInv'
<1>0. /\ TypeOK /\ ObjInv /\ StmtInv /\ ReleaserInv /\ ConnectedInv /\ AssociationsAgree /\ CountersExact
      /\ PlaceInv /\ KindInv /\ HomeInv /\ ArgInv /\ NewInv /\ AssociateInv
      /\ ExclInv /\ DisconnectInv /\ ListInv /\ OwnInv /\ LifeInv /\ ShapeInv /\ NoDanglingRef /\ RefcExact
  BY DEF IInv, ObjInv, ThreadInv, CallerInv
<1> DEFINE x == arg[t]
           c == Handle(t)
<1>1. /\ pc[t] = "stmt_ref_conn" /\ pc[t] \in Creating /\ x = arg[t] /\ Acquire(Up(x), c)
      /\ pc' = [pc EXCEPT ![t] = "stmt_ready"]
      /\ UNCHANGED <<life, releaser, conns, descs, stmts, nr_stmts, asARD, asAPD, connected, outstandings, fn, home, arg>>
  BY DEF stmt_ref_conn, At, GoTo, Creating, listVars, connVars, callVars
<1> HIDE DEF x
<1>2. /\ x \in Objs /\ x # NULL /\ x \notin Envs /\ life[x] = "new"
      /\ fn[t] = "alloc_stmt" /\ c # NULL /\ x \in Stmts /\ c \in Conns /\ c \in Objs /\ life[c] = "live"
      /\ Up(x) \in Slots /\ ref[Up(x)] = NULL
      /\ \A k \in Slots : ref[k] # x
      /\ \A u \in Threads : u # t => arg[u] # x
      /\ \A u \in Threads : Handle(u) # x
  <2>1. fn[t] = "alloc_stmt"
    BY <1>0, <1>1 DEF PlaceInv
  <2>2. /\ x \in Objs /\ x # NULL /\ x \notin Envs /\ life[x] = "new"
        /\ c # NULL /\ x \in Stmts /\ c \in Conns
        /\ ref[Up(x)] = NULL
        /\ \A k \in Slots : ref[k] # x
        /\ \A u \in Threads : u # t => arg[u] # x
        /\ \A u \in Threads : Handle(u) # x
    BY <1>1, <2>1, NewFacts
  <2> QED BY <1>0, <2>1, <2>2, HandleLives, SlotFacts
<1>3. /\ ref' \in [Slots -> Objs \cup {NULL}] /\ refc' \in [Objs -> Int] /\ RefcExact'
      /\ ref'[Up(x)] = c /\ \A j \in Slots : j # Up(x) => ref'[j] = ref[j]
  BY <1>0, <1>1, <1>2, AcquireCount
<1>4. pc'[t] = "stmt_ready" /\ \A u \in Threads : u # t => pc'[u] = pc[u]
  BY <1>0, <1>1 DEF TypeOK
<1>5. \A y : /\ y \in Objs => ref'[App(y)] = ref[App(y)]
             /\ y \in Objs /\ y \notin Envs /\ y # x => ref'[Up(y)] = ref[Up(y)]
             /\ y \in Stmts => ref'[Ard(y)] = ref[Ard(y)] /\ ref'[Apd(y)] = ref[Apd(y)]
             /\ y \in Threads => ref'[Api(y)] = ref[Api(y)]
  BY <1>3, SlotFacts, SlotsDiffer
<1>6. \A u \in Threads : Handle(u)' = Handle(u)
  BY <1>5 DEF Handle
<1> HIDE DEF c
<1>7. \A u \in Threads : Handle(u) # NULL => Handle(u) \in Objs
  BY <1>0, HandleLives
<1>8. \A u \in Threads : arg[u] # NULL => arg[u] \in Objs /\ arg[u] \notin Envs
  BY <1>0, KindFacts DEF TypeOK
<1>9. TypeOK'
  BY <1>0, <1>1, <1>3 DEF TypeOK
<1>10. ObjInv'
  <2>1. Fits(Up(x), c) /\ \A y : Up(x) # Ard(y) /\ Up(x) # Apd(y)
    BY <1>2, SlotsDiffer DEF Fits
  <2>2. \A y \in Objs \ Envs : life'[y] = "none" => Up(x) # Up(y)
    BY <1>1, <1>2, SlotsDiffer
  <2>3. \A y \in Envs : life'[y] # "new"
    BY <1>0, <1>1 DEF LifeInv
  <2> QED BY <1>0, <1>1, <1>2, <2>1, <2>2, <2>3, AcquireObj
<1>11. PlaceInv'
  BY <1>0, <1>1, <1>2, <1>4, <1>6, NewFacts DEF PlaceInv, Frees
<1>12. KindInv'
  BY <1>0, <1>1, <1>6 DEF KindInv
<1>13. HomeInv'
  <2>1. \A u \in Threads : Handle(u) # NULL => ConnOf(Handle(u))' = ConnOf(Handle(u))
    BY <1>2, <1>5, <1>6, <1>7, KindFacts DEF ConnOf, Parent
  <2> QED BY <1>0, <1>1, <1>6, <2>1 DEF HomeInv
<1>14. ArgInv'
  <2> SUFFICES ASSUME NEW u \in Threads
               PROVE  /\ arg[u] # NULL =>
                           /\ fn[u] \in {"alloc_conn", "alloc_stmt", "alloc_desc"} \cup Sets
                           /\ fn[u] = "alloc_conn" => arg[u] \in Conns
                           /\ fn[u] = "alloc_stmt" => arg[u] \in Stmts
                           /\ fn[u] \in {"alloc_desc"} \cup Sets => arg[u] \in Descs
                           /\ pc'[u] \in Creating => life[arg[u]] = "new"
                           /\ pc'[u] \notin Creating => ref'[App(arg[u])] = arg[u]
                      /\ pc'[u] \in Creating =>
                           /\ arg[u] # NULL
                           /\ ref'[Up(arg[u])] = IF pc'[u] = "stmt_ref_conn" THEN NULL ELSE Handle(u)
    BY <1>1, <1>6 DEF ArgInv, Parent
  <2>1. CASE u = t
    <3>1. arg[u] = x /\ pc'[u] = "stmt_ready" /\ pc'[u] \in Creating /\ Handle(u) = c
      BY <1>1, <1>4, <2>1 DEF Creating, c
    <3> QED BY <1>2, <1>3, <2>1, <3>1 DEF Sets
  <2>2. CASE u # t
    <3>1. pc'[u] = pc[u]
      BY <1>4, <2>2
    <3>2. arg[u] # NULL => ref'[App(arg[u])] = ref[App(arg[u])] /\ ref'[Up(arg[u])] = ref[Up(arg[u])]
      BY <1>2, <1>5, <1>8, <2>2
    <3> QED BY <1>0, <3>1, <3>2 DEF ArgInv, Parent
  <2> QED BY <2>1, <2>2
<1>15. NewInv'
  <2>1. \A u \in Threads : pc[u] \in Creating => pc'[u] \in Creating
    BY <1>4 DEF Creating
  <2> QED BY <1>0, <1>1, <2>1 DEF NewInv
<1>16. AssociateInv'
  <2> SUFFICES ASSUME NEW u \in Threads, pc'[u] \in {"associate_ard", "associate_apd"}
               PROVE  /\ arg[u] # NULL /\ ref'[Up(arg[u])] = ref'[Up(Handle(u))]
                      /\ pc'[u] = "associate_ard" => ref'[Ard(Handle(u))] = NULL /\ ref'[Apd(Handle(u))] # arg[u]
                      /\ pc'[u] = "associate_apd" => ref'[Apd(Handle(u))] = NULL /\ ref'[Ard(Handle(u))] # arg[u]
    BY <1>1, <1>6 DEF AssociateInv, Parent
  <2>1. pc'[u] = pc[u] /\ u # t
    BY <1>4
  <2>2. Handle(u) \in Stmts /\ Handle(u) \in Objs /\ Handle(u) \notin Envs /\ Handle(u) # x
    BY <1>0, <1>2, <1>7, <2>1, KindFacts DEF PlaceInv, KindInv, Sets
  <2>3. arg[u] # NULL /\ arg[u] # x
    BY <1>0, <1>2, <2>1 DEF AssociateInv
  <2> QED BY <1>0, <1>5, <1>8, <2>1, <2>2, <2>3 DEF AssociateInv, Parent
<1>17. CallerInv'
  <2>1. \A u \in Threads : \A y : Uses(u, y)' <=> Uses(u, y)
    BY <1>1, <1>6 DEF Uses
  <2>2. ExclInv' /\ DisconnectInv' /\ ListInv'
    BY <1>0, <1>1, <1>6, <2>1 DEF ExclInv, DisconnectInv, ListInv
  <2>3. \A u \in Threads : pc[u] = "leave" => pc'[u] = "leave"
    BY <1>1, <1>4
  <2>4. OwnInv'
    BY <1>0, <1>1, <1>5, <1>6, <1>7, <2>3 DEF OwnInv
  <2> QED BY <2>2, <2>4 DEF CallerInv
<1>18. AssociationsAgree'
  <2>1. \A s \in Stmts : ref'[Ard(s)] = ref[Ard(s)] /\ ref'[Apd(s)] = ref[Apd(s)]
    BY <1>5
  <2>2. \A s \in Stmts, d \in Descs : d \in {ref[Ard(s)], ref[Apd(s)]} => s # x /\ d # x
    BY <1>0, <1>2, KindFacts DEF LifeInv
  <2>3. \A y \in Stmts \cup Descs : (\E s \in Stmts, d \in Descs : y \in {s, d} /\ d \in {ref[Ard(s)], ref[Apd(s)]})
                                      => ref'[Up(y)] = ref[Up(y)]
    BY <1>5, <2>2, KindFacts
  <2> QED BY <1>0, <1>1, <2>1, <2>3, AssocKept
<1>19. StmtInv'
  <2>1. ASSUME NEW q \in Conns, NEW s \in Stmts
        PROVE  s \in stmts[q] <=> \/ ref'[Up(s)] = q /\ life[s] \in {"new", "live", "dying"}
                                  \/ \E u \in Threads : pc'[u] = "stmt_ref_conn" /\ arg[u] = s /\ Handle(u) = q
    <3>1. s \in stmts[q] <=> \/ ref[Up(s)] = q /\ life[s] \in {"new", "live", "dying"}
                             \/ \E u \in Threads : pc[u] = "stmt_ref_conn" /\ arg[u] = s /\ Handle(u) = q
      BY <1>0 DEF StmtInv, Parent
    <3>2. CASE s = x
      <4>1. (\E u \in Threads : pc[u] = "stmt_ref_conn" /\ arg[u] = s /\ Handle(u) = q) <=> q = c
        BY <1>1, <1>2, <3>2 DEF c
      <4>2. ~\E u \in Threads : pc'[u] = "stmt_ref_conn" /\ arg[u] = s /\ Handle(u) = q
        BY <1>2, <1>4, <3>2
      <4>3. ref[Up(s)] # q
        BY <1>2, <3>2, KindFacts
      <4> QED BY <1>2, <1>3, <3>1, <3>2, <4>1, <4>2, <4>3
    <3>3. CASE s # x
      <4>1. (\E u \in Threads : pc'[u] = "stmt_ref_conn" /\ arg[u] = s /\ Handle(u) = q)
              <=> (\E u \in Threads : pc[u] = "stmt_ref_conn" /\ arg[u] = s /\ Handle(u) = q)
        BY <1>1, <1>4, <3>3
      <4>2. ref'[Up(s)] = ref[Up(s)]
        BY <1>5, <3>3, KindFacts
      <4> QED BY <3>1, <4>1, <4>2
    <3> QED BY <3>2, <3>3
  <2>2. \A s \in Stmts : life[s] = "live" => ref'[App(s)] = s \/ \E u \in Threads : Handle(u) = s /\ fn[u] = "free_stmt"
    BY <1>0, <1>5, KindFacts DEF StmtInv
  <2> QED BY <1>1, <1>6, <2>1, <2>2 DEF StmtInv, Parent
<1>20. ReleaserInv'
  <2>1. \A s \in Stmts : releaser[s] # NULL => ref'[Up(s)] = ref[Up(s)]
    <3>1. \A s \in Stmts : releaser[s] # NULL => s # x
      BY <1>0, <1>2 DEF LifeInv
    <3> QED BY <1>5, <3>1, KindFacts
  <2> QED BY <1>0, <1>1, <2>1 DEF ReleaserInv, Parent
<1>21. ConnectedInv'
  <2>1. \A q \in Conns : ref'[App(q)] = ref[App(q)]
    BY <1>5, KindFacts
  <2>2. \A u \in Threads : pc'[u] \in {"drop_own", "connect"} => pc'[u] = pc[u]
    BY <1>4
  <2> QED BY <1>0, <1>1, <1>6, <2>1, <2>2 DEF ConnectedInv
<1>22. CountersExact'
  <2>1. ConnsExact /\ DescsExact /\ StmtsExact
    BY <1>0, CountParts
  <2>2. \A y \in Conns : ref'[Up(y)] = ref[Up(y)]
    BY <1>2, <1>5, KindFacts
  <2>3. \A y \in Descs : ref'[Up(y)] = ref[Up(y)]
    BY <1>2, <1>5, KindFacts
  <2>4. ConnsExact' /\ DescsExact' /\ StmtsExact'
    BY <1>1, <2>1, <2>2, <2>3, ConnsKept, DescsKept, StmtsCountKept
  <2> QED BY <1>3, <2>4, CountPartsPrime
<1>23. ThreadInv'
  BY <1>11, <1>12, <1>13, <1>14, <1>15, <1>16 DEF ThreadInv
<1> QED BY <1>9, <1>10, <1>17, <1>18, <1>19, <1>20, <1>21, <1>22, <1>23 DEF IInv

-----------------------------------------------------------------------------
(* A statement and a descriptor are associated.                            *)

LEMMA AssociateARDSteps ==
  ASSUME IInv, NEW t \in Threads, AssociateARD(t)
  PROVE  IInv'
<1>0. /\ TypeOK /\ ObjInv /\ StmtInv /\ ReleaserInv /\ ConnectedInv /\ AssociationsAgree /\ CountersExact
      /\ PlaceInv /\ KindInv /\ HomeInv /\ ArgInv /\ NewInv /\ AssociateInv
      /\ ExclInv /\ DisconnectInv /\ ListInv /\ OwnInv /\ LifeInv /\ ShapeInv /\ NoDanglingRef /\ RefcExact
  BY DEF IInv, ObjInv, ThreadInv, CallerInv
<1> DEFINE s == Handle(t)
           d == arg[t]
<1>1. /\ pc[t] = "associate_ard" /\ fn[t] = "set_ard" /\ Acquire(Ard(s), d) /\ s = Handle(t) /\ d = arg[t]
      /\ asARD' = [asARD EXCEPT ![d] = @ \cup {s}]
      /\ pc' = [pc EXCEPT ![t] = "leave"]
      /\ UNCHANGED <<life, releaser, conns, descs, stmts, nr_stmts, asAPD, connected, outstandings, fn, home, arg>>
  BY <1>0 DEF AssociateARD, At, GoTo, PlaceInv, connVars, callVars
<1>2. /\ s \in Stmts /\ s \in Objs /\ s \notin Envs /\ life[s] = "live" /\ s # NULL
      /\ d \in Descs /\ d \in Objs /\ d \notin Envs /\ d # NULL /\ ref[App(d)] = d /\ life[d] = "live"
      /\ ref[Up(d)] = ref[Up(s)] /\ ref[Ard(s)] = NULL /\ ref[Apd(s)] # d
      /\ Ard(s) \in Slots
  <2>1. s # NULL /\ s \in Stmts /\ life[s] = "live"
    BY <1>0, <1>1, HandleLives DEF PlaceInv, KindInv, Sets
  <2>2. d # NULL /\ ref[Up(d)] = ref[Up(s)] /\ ref[Ard(s)] = NULL /\ ref[Apd(s)] # d
    BY <1>0, <1>1 DEF AssociateInv, Parent
  <2>3. d \in Descs /\ ref[App(d)] = d
    BY <1>0, <1>1, <2>2 DEF ArgInv, Sets, Creating
  <2>4. d \in Objs /\ App(d) \in Slots
    BY <2>3, KindFacts, SlotFacts
  <2>5. life[d] = "live"
    BY <1>0, <2>2, <2>3, <2>4 DEF NoDanglingRef
  <2> QED BY <2>1, <2>2, <2>3, <2>5, KindFacts, SlotFacts
<1> HIDE DEF s, d
<1>3. /\ ref' \in [Slots -> Objs \cup {NULL}] /\ refc' \in [Objs -> Int] /\ RefcExact'
      /\ ref'[Ard(s)] = d /\ \A j \in Slots : j # Ard(s) => ref'[j] = ref[j]
  BY <1>0, <1>1, <1>2, AcquireCount
<1>4. pc'[t] = "leave" /\ \A u \in Threads : u # t => pc'[u] = pc[u]
  BY <1>0, <1>1 DEF TypeOK
<1>5. \A y : /\ y \in Objs => ref'[App(y)] = ref[App(y)]
             /\ y \in Objs /\ y \notin Envs => ref'[Up(y)] = ref[Up(y)]
             /\ y \in Stmts => ref'[Apd(y)] = ref[Apd(y)]
             /\ y \in Stmts /\ y # s => ref'[Ard(y)] = ref[Ard(y)]
             /\ y \in Threads => ref'[Api(y)] = ref[Api(y)]
  BY <1>3, SlotFacts, SlotsDiffer
<1>6. \A u \in Threads : Handle(u)' = Handle(u)
  BY <1>5 DEF Handle
<1>7. \A u \in Threads : Handle(u) # NULL => Handle(u) \in Objs
  BY <1>0, HandleLives
<1>8. \A u \in Threads : arg[u] # NULL => arg[u] \in Objs /\ arg[u] \notin Envs
  BY <1>0, KindFacts DEF TypeOK
<1>9. TypeOK'
  <2>1. asARD \in [Descs -> SUBSET Stmts]
    BY <1>0 DEF TypeOK
  <2>2. asARD' \in [Descs -> SUBSET Stmts]
    BY <1>1, <1>2, <2>1
  <2>3. pc' \in [Threads -> Calls \cup
               {"idle", "conn_count", "desc_count", "stmt_ref_conn", "stmt_ready",
                "post_connect", "executing", "associate_ard", "associate_apd",
                "drop_own", "leave", "return"}]
    BY <1>0, <1>1 DEF TypeOK
  <2> QED BY <1>0, <1>1, <1>3, <2>2, <2>3 DEF TypeOK
<1>10. ObjInv'
  <2>1. Fits(Ard(s), d) /\ \A y : Ard(s) # Up(y) /\ Ard(s) # Apd(y)
    BY <1>2, SlotsDiffer DEF Fits
  <2>2. \A y \in Stmts : life'[y] \in {"none", "new"} => Ard(s) # Ard(y) /\ Ard(s) # Apd(y)
    BY <1>1, <1>2, <2>1, SlotsDiffer
  <2>3. \A y \in Envs : life'[y] # "new"
    BY <1>0, <1>1 DEF LifeInv
  <2> QED BY <1>0, <1>1, <1>2, <2>1, <2>2, <2>3, AcquireObj
<1>11. PlaceInv'
  BY <1>0, <1>1, <1>2, <1>4, <1>6 DEF PlaceInv, Frees
<1>12. KindInv'
  BY <1>0, <1>1, <1>6 DEF KindInv
<1>13. HomeInv'
  <2>1. \A u \in Threads : Handle(u) # NULL => ConnOf(Handle(u))' = ConnOf(Handle(u))
    BY <1>5, <1>6, <1>7, KindFacts DEF ConnOf, Parent
  <2> QED BY <1>0, <1>1, <1>6, <2>1 DEF HomeInv
<1>14. ArgInv'
  <2> SUFFICES ASSUME NEW u \in Threads
               PROVE  /\ arg[u] # NULL =>
                           /\ fn[u] \in {"alloc_conn", "alloc_stmt", "alloc_desc"} \cup Sets
                           /\ fn[u] = "alloc_conn" => arg[u] \in Conns
                           /\ fn[u] = "alloc_stmt" => arg[u] \in Stmts
                           /\ fn[u] \in {"alloc_desc"} \cup Sets => arg[u] \in Descs
                           /\ pc'[u] \in Creating => life[arg[u]] = "new"
                           /\ pc'[u] \notin Creating => ref'[App(arg[u])] = arg[u]
                      /\ pc'[u] \in Creating =>
                           /\ arg[u] # NULL
                           /\ ref'[Up(arg[u])] = IF pc'[u] = "stmt_ref_conn" THEN NULL ELSE Handle(u)
    BY <1>1, <1>6 DEF ArgInv, Parent
  <2>1. /\ pc'[u] \in Creating <=> pc[u] \in Creating
        /\ pc'[u] = "stmt_ref_conn" <=> pc[u] = "stmt_ref_conn"
    BY <1>1, <1>4 DEF Creating
  <2>2. arg[u] # NULL => ref'[App(arg[u])] = ref[App(arg[u])] /\ ref'[Up(arg[u])] = ref[Up(arg[u])]
    BY <1>5, <1>8
  <2> QED BY <1>0, <2>1, <2>2 DEF ArgInv, Parent
<1>15. NewInv'
  <2>1. \A u \in Threads : pc'[u] \in Creating <=> pc[u] \in Creating
    BY <1>1, <1>4 DEF Creating
  <2> QED BY <1>0, <1>1, <2>1 DEF NewInv
<1>16. AssociateInv'
  <2> SUFFICES ASSUME NEW u \in Threads, pc'[u] \in {"associate_ard", "associate_apd"}
               PROVE  /\ arg[u] # NULL /\ ref'[Up(arg[u])] = ref'[Up(Handle(u))]
                      /\ pc'[u] = "associate_ard" => ref'[Ard(Handle(u))] = NULL /\ ref'[Apd(Handle(u))] # arg[u]
                      /\ pc'[u] = "associate_apd" => ref'[Apd(Handle(u))] = NULL /\ ref'[Ard(Handle(u))] # arg[u]
    BY <1>1, <1>6 DEF AssociateInv, Parent
  <2>1. pc'[u] = pc[u] /\ u # t
    BY <1>4
  <2>2. Handle(u) \in Stmts /\ Handle(u) \in Objs /\ Handle(u) \notin Envs /\ fn[u] \in ListCalls /\ Handle(u) # NULL
    BY <1>0, <1>7, <2>1, KindFacts DEF PlaceInv, KindInv, Sets, ListCalls
  <2>3. Handle(u) # s
    <3> SUFFICES ASSUME Handle(u) = s PROVE FALSE
      OBVIOUS
    <3>1. home[u] = home[t]
      BY <1>0, <1>1, <1>2, <2>2 DEF HomeInv
    <3>2. {fn[t], fn[u]} \subseteq ListCalls
      BY <1>1, <2>2 DEF ListCalls
    <3> QED BY <1>0, <2>1, <3>1, <3>2 DEF ListInv
  <2>4. arg[u] # NULL
    BY <1>0, <2>1 DEF AssociateInv
  <2> QED BY <1>0, <1>5, <1>8, <2>1, <2>2, <2>3, <2>4 DEF AssociateInv, Parent
<1>17. CallerInv'
  <2>1. \A u \in Threads : \A y : Uses(u, y)' <=> Uses(u, y)
    BY <1>1, <1>6 DEF Uses
  <2>2. ExclInv' /\ DisconnectInv' /\ ListInv'
    BY <1>0, <1>1, <1>6, <2>1 DEF ExclInv, DisconnectInv, ListInv
  <2>3. \A u \in Threads : pc[u] = "leave" => pc'[u] = "leave"
    BY <1>1, <1>4
  <2>4. OwnInv'
    BY <1>0, <1>1, <1>5, <1>6, <1>7, <2>3 DEF OwnInv
  <2> QED BY <2>2, <2>4 DEF CallerInv
<1>18. AssociationsAgree'
  <2> SUFFICES ASSUME NEW r \in Stmts, NEW q \in Descs
               PROVE  /\ r \in asARD'[q] <=> ref'[Ard(r)] = q
                      /\ r \in asAPD[q] <=> ref'[Apd(r)] = q
                      /\ q \in {ref'[Ard(r)], ref'[Apd(r)]} => ref'[Up(r)] = ref'[Up(q)]
                      /\ ~(r \in asARD'[q] /\ r \in asAPD[q])
    BY <1>1 DEF AssociationsAgree, Parent
  <2>1. /\ r \in asARD[q] <=> ref[Ard(r)] = q
        /\ r \in asAPD[q] <=> ref[Apd(r)] = q
        /\ q \in {ref[Ard(r)], ref[Apd(r)]} => ref[Up(r)] = ref[Up(q)]
        /\ ~(r \in asARD[q] /\ r \in asAPD[q])
    BY <1>0 DEF AssociationsAgree, Parent
  <2>2. asARD'[q] = IF q = d THEN asARD[q] \cup {s} ELSE asARD[q]
    BY <1>0, <1>1, <1>2 DEF TypeOK
  <2>3. ref'[Apd(r)] = ref[Apd(r)] /\ ref'[Up(r)] = ref[Up(r)] /\ ref'[Up(q)] = ref[Up(q)] /\ q # NULL
    BY <1>5, KindFacts
  <2>4. CASE r = s
    BY <1>2, <1>3, <2>1, <2>2, <2>3, <2>4
  <2>5. CASE r # s
    <3>1. ref'[Ard(r)] = ref[Ard(r)]
      BY <1>5, <2>5
    <3> QED BY <2>1, <2>2, <2>3, <2>5, <3>1
  <2> QED BY <2>4, <2>5
<1>19. StmtInv'
  <2>1. \A y \in Stmts : ref'[Up(y)] = ref[Up(y)] /\ ref'[App(y)] = ref[App(y)]
    BY <1>5, KindFacts
  <2>2. \A u \in Threads : pc'[u] = "stmt_ref_conn" <=> pc[u] = "stmt_ref_conn"
    BY <1>1, <1>4
  <2>3. \A c, y : (\E u \in Threads : pc'[u] = "stmt_ref_conn" /\ arg[u] = y /\ Handle(u) = c)
                    <=> (\E u \in Threads : pc[u] = "stmt_ref_conn" /\ arg[u] = y /\ Handle(u) = c)
    BY <2>2
  <2> QED BY <1>0, <1>1, <1>6, <2>1, <2>3 DEF StmtInv, Parent
<1>20. ReleaserInv'
  <2>1. \A y \in Stmts : ref'[Up(y)] = ref[Up(y)]
    BY <1>5, KindFacts
  <2> QED BY <1>0, <1>1, <2>1 DEF ReleaserInv, Parent
<1>21. ConnectedInv'
  <2>1. \A q \in Conns : ref'[App(q)] = ref[App(q)]
    BY <1>5, KindFacts
  <2>2. \A u \in Threads : pc'[u] \in {"drop_own", "connect"} => pc'[u] = pc[u]
    BY <1>4
  <2> QED BY <1>0, <1>1, <1>6, <2>1, <2>2 DEF ConnectedInv
<1>22. CountersExact'
  <2>1. ConnsExact /\ DescsExact /\ StmtsExact
    BY <1>0, CountParts
  <2>2. \A y \in Conns : ref'[Up(y)] = ref[Up(y)]
    BY <1>5, KindFacts
  <2>3. \A y \in Descs : ref'[Up(y)] = ref[Up(y)]
    BY <1>5, KindFacts
  <2>4. ConnsExact' /\ DescsExact' /\ StmtsExact'
    BY <1>1, <2>1, <2>2, <2>3, ConnsKept, DescsKept, StmtsCountKept
  <2> QED BY <1>3, <2>4, CountPartsPrime
<1>23. ThreadInv'
  BY <1>11, <1>12, <1>13, <1>14, <1>15, <1>16 DEF ThreadInv
<1> QED BY <1>9, <1>10, <1>17, <1>18, <1>19, <1>20, <1>21, <1>22, <1>23 DEF IInv

LEMMA AssociateAPDSteps ==
  ASSUME IInv, NEW t \in Threads, AssociateAPD(t)
  PROVE  IInv'
<1>0. /\ TypeOK /\ ObjInv /\ StmtInv /\ ReleaserInv /\ ConnectedInv /\ AssociationsAgree /\ CountersExact
      /\ PlaceInv /\ KindInv /\ HomeInv /\ ArgInv /\ NewInv /\ AssociateInv
      /\ ExclInv /\ DisconnectInv /\ ListInv /\ OwnInv /\ LifeInv /\ ShapeInv /\ NoDanglingRef /\ RefcExact
  BY DEF IInv, ObjInv, ThreadInv, CallerInv
<1> DEFINE s == Handle(t)
           d == arg[t]
<1>1. /\ pc[t] = "associate_apd" /\ fn[t] = "set_apd" /\ Acquire(Apd(s), d) /\ s = Handle(t) /\ d = arg[t]
      /\ asAPD' = [asAPD EXCEPT ![d] = @ \cup {s}]
      /\ pc' = [pc EXCEPT ![t] = "leave"]
      /\ UNCHANGED <<life, releaser, conns, descs, stmts, nr_stmts, asARD, connected, outstandings, fn, home, arg>>
  BY <1>0 DEF AssociateAPD, At, GoTo, PlaceInv, connVars, callVars
<1>2. /\ s \in Stmts /\ s \in Objs /\ s \notin Envs /\ life[s] = "live" /\ s # NULL
      /\ d \in Descs /\ d \in Objs /\ d \notin Envs /\ d # NULL /\ ref[App(d)] = d /\ life[d] = "live"
      /\ ref[Up(d)] = ref[Up(s)] /\ ref[Apd(s)] = NULL /\ ref[Ard(s)] # d
      /\ Apd(s) \in Slots
  <2>1. s # NULL /\ s \in Stmts /\ life[s] = "live"
    BY <1>0, <1>1, HandleLives DEF PlaceInv, KindInv, Sets
  <2>2. d # NULL /\ ref[Up(d)] = ref[Up(s)] /\ ref[Apd(s)] = NULL /\ ref[Ard(s)] # d
    BY <1>0, <1>1 DEF AssociateInv, Parent
  <2>3. d \in Descs /\ ref[App(d)] = d
    BY <1>0, <1>1, <2>2 DEF ArgInv, Sets, Creating
  <2>4. d \in Objs /\ App(d) \in Slots
    BY <2>3, KindFacts, SlotFacts
  <2>5. life[d] = "live"
    BY <1>0, <2>2, <2>3, <2>4 DEF NoDanglingRef
  <2> QED BY <2>1, <2>2, <2>3, <2>5, KindFacts, SlotFacts
<1> HIDE DEF s, d
<1>3. /\ ref' \in [Slots -> Objs \cup {NULL}] /\ refc' \in [Objs -> Int] /\ RefcExact'
      /\ ref'[Apd(s)] = d /\ \A j \in Slots : j # Apd(s) => ref'[j] = ref[j]
  BY <1>0, <1>1, <1>2, AcquireCount
<1>4. pc'[t] = "leave" /\ \A u \in Threads : u # t => pc'[u] = pc[u]
  BY <1>0, <1>1 DEF TypeOK
<1>5. \A y : /\ y \in Objs => ref'[App(y)] = ref[App(y)]
             /\ y \in Objs /\ y \notin Envs => ref'[Up(y)] = ref[Up(y)]
             /\ y \in Stmts => ref'[Ard(y)] = ref[Ard(y)]
             /\ y \in Stmts /\ y # s => ref'[Apd(y)] = ref[Apd(y)]
             /\ y \in Threads => ref'[Api(y)] = ref[Api(y)]
  BY <1>3, SlotFacts, SlotsDiffer
<1>6. \A u \in Threads : Handle(u)' = Handle(u)
  BY <1>5 DEF Handle
<1>7. \A u \in Threads : Handle(u) # NULL => Handle(u) \in Objs
  BY <1>0, HandleLives
<1>8. \A u \in Threads : arg[u] # NULL => arg[u] \in Objs /\ arg[u] \notin Envs
  BY <1>0, KindFacts DEF TypeOK
<1>9. TypeOK'
  <2>1. asAPD \in [Descs -> SUBSET Stmts]
    BY <1>0 DEF TypeOK
  <2>2. asAPD' \in [Descs -> SUBSET Stmts]
    BY <1>1, <1>2, <2>1
  <2>3. pc' \in [Threads -> Calls \cup
               {"idle", "conn_count", "desc_count", "stmt_ref_conn", "stmt_ready",
                "post_connect", "executing", "associate_ard", "associate_apd",
                "drop_own", "leave", "return"}]
    BY <1>0, <1>1 DEF TypeOK
  <2> QED BY <1>0, <1>1, <1>3, <2>2, <2>3 DEF TypeOK
<1>10. ObjInv'
  <2>1. Fits(Apd(s), d) /\ \A y : Apd(s) # Up(y) /\ Apd(s) # Ard(y)
    BY <1>2, SlotsDiffer DEF Fits
  <2>2. \A y \in Stmts : life'[y] \in {"none", "new"} => Apd(s) # Apd(y) /\ Apd(s) # Ard(y)
    BY <1>1, <1>2, <2>1, SlotsDiffer
  <2>3. \A y \in Envs : life'[y] # "new"
    BY <1>0, <1>1 DEF LifeInv
  <2> QED BY <1>0, <1>1, <1>2, <2>1, <2>2, <2>3, AcquireObj
<1>11. PlaceInv'
  BY <1>0, <1>1, <1>2, <1>4, <1>6 DEF PlaceInv, Frees
<1>12. KindInv'
  BY <1>0, <1>1, <1>6 DEF KindInv
<1>13. HomeInv'
  <2>1. \A u \in Threads : Handle(u) # NULL => ConnOf(Handle(u))' = ConnOf(Handle(u))
    BY <1>5, <1>6, <1>7, KindFacts DEF ConnOf, Parent
  <2> QED BY <1>0, <1>1, <1>6, <2>1 DEF HomeInv
<1>14. ArgInv'
  <2> SUFFICES ASSUME NEW u \in Threads
               PROVE  /\ arg[u] # NULL =>
                           /\ fn[u] \in {"alloc_conn", "alloc_stmt", "alloc_desc"} \cup Sets
                           /\ fn[u] = "alloc_conn" => arg[u] \in Conns
                           /\ fn[u] = "alloc_stmt" => arg[u] \in Stmts
                           /\ fn[u] \in {"alloc_desc"} \cup Sets => arg[u] \in Descs
                           /\ pc'[u] \in Creating => life[arg[u]] = "new"
                           /\ pc'[u] \notin Creating => ref'[App(arg[u])] = arg[u]
                      /\ pc'[u] \in Creating =>
                           /\ arg[u] # NULL
                           /\ ref'[Up(arg[u])] = IF pc'[u] = "stmt_ref_conn" THEN NULL ELSE Handle(u)
    BY <1>1, <1>6 DEF ArgInv, Parent
  <2>1. /\ pc'[u] \in Creating <=> pc[u] \in Creating
        /\ pc'[u] = "stmt_ref_conn" <=> pc[u] = "stmt_ref_conn"
    BY <1>1, <1>4 DEF Creating
  <2>2. arg[u] # NULL => ref'[App(arg[u])] = ref[App(arg[u])] /\ ref'[Up(arg[u])] = ref[Up(arg[u])]
    BY <1>5, <1>8
  <2> QED BY <1>0, <2>1, <2>2 DEF ArgInv, Parent
<1>15. NewInv'
  <2>1. \A u \in Threads : pc'[u] \in Creating <=> pc[u] \in Creating
    BY <1>1, <1>4 DEF Creating
  <2> QED BY <1>0, <1>1, <2>1 DEF NewInv
<1>16. AssociateInv'
  <2> SUFFICES ASSUME NEW u \in Threads, pc'[u] \in {"associate_ard", "associate_apd"}
               PROVE  /\ arg[u] # NULL /\ ref'[Up(arg[u])] = ref'[Up(Handle(u))]
                      /\ pc'[u] = "associate_ard" => ref'[Ard(Handle(u))] = NULL /\ ref'[Apd(Handle(u))] # arg[u]
                      /\ pc'[u] = "associate_apd" => ref'[Apd(Handle(u))] = NULL /\ ref'[Ard(Handle(u))] # arg[u]
    BY <1>1, <1>6 DEF AssociateInv, Parent
  <2>1. pc'[u] = pc[u] /\ u # t
    BY <1>4
  <2>2. Handle(u) \in Stmts /\ Handle(u) \in Objs /\ Handle(u) \notin Envs /\ fn[u] \in ListCalls /\ Handle(u) # NULL
    BY <1>0, <1>7, <2>1, KindFacts DEF PlaceInv, KindInv, Sets, ListCalls
  <2>3. Handle(u) # s
    <3> SUFFICES ASSUME Handle(u) = s PROVE FALSE
      OBVIOUS
    <3>1. home[u] = home[t]
      BY <1>0, <1>1, <1>2, <2>2 DEF HomeInv
    <3>2. {fn[t], fn[u]} \subseteq ListCalls
      BY <1>1, <2>2 DEF ListCalls
    <3> QED BY <1>0, <2>1, <3>1, <3>2 DEF ListInv
  <2>4. arg[u] # NULL
    BY <1>0, <2>1 DEF AssociateInv
  <2> QED BY <1>0, <1>5, <1>8, <2>1, <2>2, <2>3, <2>4 DEF AssociateInv, Parent
<1>17. CallerInv'
  <2>1. \A u \in Threads : \A y : Uses(u, y)' <=> Uses(u, y)
    BY <1>1, <1>6 DEF Uses
  <2>2. ExclInv' /\ DisconnectInv' /\ ListInv'
    BY <1>0, <1>1, <1>6, <2>1 DEF ExclInv, DisconnectInv, ListInv
  <2>3. \A u \in Threads : pc[u] = "leave" => pc'[u] = "leave"
    BY <1>1, <1>4
  <2>4. OwnInv'
    BY <1>0, <1>1, <1>5, <1>6, <1>7, <2>3 DEF OwnInv
  <2> QED BY <2>2, <2>4 DEF CallerInv
<1>18. AssociationsAgree'
  <2> SUFFICES ASSUME NEW r \in Stmts, NEW q \in Descs
               PROVE  /\ r \in asAPD'[q] <=> ref'[Apd(r)] = q
                      /\ r \in asARD[q] <=> ref'[Ard(r)] = q
                      /\ q \in {ref'[Apd(r)], ref'[Ard(r)]} => ref'[Up(r)] = ref'[Up(q)]
                      /\ ~(r \in asAPD'[q] /\ r \in asARD[q])
    BY <1>1 DEF AssociationsAgree, Parent
  <2>1. /\ r \in asAPD[q] <=> ref[Apd(r)] = q
        /\ r \in asARD[q] <=> ref[Ard(r)] = q
        /\ q \in {ref[Apd(r)], ref[Ard(r)]} => ref[Up(r)] = ref[Up(q)]
        /\ ~(r \in asAPD[q] /\ r \in asARD[q])
    BY <1>0 DEF AssociationsAgree, Parent
  <2>2. asAPD'[q] = IF q = d THEN asAPD[q] \cup {s} ELSE asAPD[q]
    BY <1>0, <1>1, <1>2 DEF TypeOK
  <2>3. ref'[Ard(r)] = ref[Ard(r)] /\ ref'[Up(r)] = ref[Up(r)] /\ ref'[Up(q)] = ref[Up(q)] /\ q # NULL
    BY <1>5, KindFacts
  <2>4. CASE r = s
    BY <1>2, <1>3, <2>1, <2>2, <2>3, <2>4
  <2>5. CASE r # s
    <3>1. ref'[Apd(r)] = ref[Apd(r)]
      BY <1>5, <2>5
    <3> QED BY <2>1, <2>2, <2>3, <2>5, <3>1
  <2> QED BY <2>4, <2>5
<1>19. StmtInv'
  <2>1. \A y \in Stmts : ref'[Up(y)] = ref[Up(y)] /\ ref'[App(y)] = ref[App(y)]
    BY <1>5, KindFacts
  <2>2. \A u \in Threads : pc'[u] = "stmt_ref_conn" <=> pc[u] = "stmt_ref_conn"
    BY <1>1, <1>4
  <2>3. \A c, y : (\E u \in Threads : pc'[u] = "stmt_ref_conn" /\ arg[u] = y /\ Handle(u) = c)
                    <=> (\E u \in Threads : pc[u] = "stmt_ref_conn" /\ arg[u] = y /\ Handle(u) = c)
    BY <2>2
  <2> QED BY <1>0, <1>1, <1>6, <2>1, <2>3 DEF StmtInv, Parent
<1>20. ReleaserInv'
  <2>1. \A y \in Stmts : ref'[Up(y)] = ref[Up(y)]
    BY <1>5, KindFacts
  <2> QED BY <1>0, <1>1, <2>1 DEF ReleaserInv, Parent
<1>21. ConnectedInv'
  <2>1. \A q \in Conns : ref'[App(q)] = ref[App(q)]
    BY <1>5, KindFacts
  <2>2. \A u \in Threads : pc'[u] \in {"drop_own", "connect"} => pc'[u] = pc[u]
    BY <1>4
  <2> QED BY <1>0, <1>1, <1>6, <2>1, <2>2 DEF ConnectedInv
<1>22. CountersExact'
  <2>1. ConnsExact /\ DescsExact /\ StmtsExact
    BY <1>0, CountParts
  <2>2. \A y \in Conns : ref'[Up(y)] = ref[Up(y)]
    BY <1>5, KindFacts
  <2>3. \A y \in Descs : ref'[Up(y)] = ref[Up(y)]
    BY <1>5, KindFacts
  <2>4. ConnsExact' /\ DescsExact' /\ StmtsExact'
    BY <1>1, <2>1, <2>2, <2>3, ConnsKept, DescsKept, StmtsCountKept
  <2> QED BY <1>3, <2>4, CountPartsPrime
<1>23. ThreadInv'
  BY <1>11, <1>12, <1>13, <1>14, <1>15, <1>16 DEF ThreadInv
<1> QED BY <1>9, <1>10, <1>17, <1>18, <1>19, <1>20, <1>21, <1>22, <1>23 DEF IInv

-----------------------------------------------------------------------------
(* The invariant.                                                          *)

\* The empty heap has the invariant.
LEMMA InitInv == Init => IInv
<1> SUFFICES ASSUME Init PROVE IInv
  OBVIOUS
<1>1. /\ \A k \in Slots : ref[k] = NULL
      /\ \A o \in Objs : life[o] = "none" /\ refc[o] = 0 /\ releaser[o] = NULL
      /\ \A e \in Envs : conns[e] = 0
      /\ \A c \in Conns : descs[c] = 0 /\ stmts[c] = {} /\ nr_stmts[c] = 0 /\ connected[c] = FALSE
      /\ \A d \in Descs : asARD[d] = {} /\ asAPD[d] = {}
      /\ \A t \in Threads : fn[t] = "none" /\ pc[t] = "idle" /\ home[t] = NULL /\ arg[t] = NULL
  BY DEF Init
<1>2. \A o \in Objs : NULL # o
  BY ConstAssumption
<1>3. /\ \A o \in Objs : ref[App(o)] = NULL
      /\ \A o \in Objs : o \notin Envs => ref[Up(o)] = NULL
      /\ \A s \in Stmts : ref[Ard(s)] = NULL /\ ref[Apd(s)] = NULL
      /\ \A t \in Threads : Handle(t) = NULL
  BY <1>1, SlotFacts DEF Handle
<1>4. TypeOK
  BY DEF Init, TypeOK, Objs
<1>5. ShapeInv
  BY <1>3, KindFacts DEF ShapeInv, Parent
<1>6. RefcExact
  <2> SUFFICES ASSUME NEW o \in Objs PROVE refc[o] = Cardinality(Refs(o))
    BY DEF RefcExact
  <2>1. Refs(o) = {}
    BY <1>1, <1>2 DEF Refs
  <2> QED BY <1>1, <2>1, FS_EmptySet
<1>7. NoDanglingRef
  BY <1>1 DEF NoDanglingRef
<1>8. LifeInv
  BY <1>1, <1>3, KindFacts DEF LifeInv, Parent
<1>9. ThreadInv
  <2>1. PlaceInv
    BY <1>1, <1>3 DEF PlaceInv, Frees
  <2>2. KindInv /\ HomeInv
    BY <1>3 DEF KindInv, HomeInv
  <2>3. ArgInv /\ NewInv /\ AssociateInv
    BY <1>1 DEF ArgInv, NewInv, AssociateInv, Creating
  <2> QED BY <2>1, <2>2, <2>3 DEF ThreadInv
<1>10. CallerInv
  BY <1>1, <1>3 DEF CallerInv, ExclInv, DisconnectInv, ListInv, ListCalls, OwnInv
<1>11. AssociationsAgree
  BY <1>1, <1>2, <1>3, KindFacts DEF AssociationsAgree
<1>12. StmtInv
  BY <1>1, KindFacts DEF StmtInv
<1>13. ReleaserInv
  BY <1>1 DEF ReleaserInv
<1>14. ConnectedInv
  BY <1>1, <1>3 DEF ConnectedInv
<1>15. CountersExact
  <2>1. \A p : CountedIn(ref, life, p, Conns) = {} /\ CountedIn(ref, life, p, Descs) = {}
    BY <1>1, KindFacts DEF CountedIn
  <2>2. ConnsExact /\ DescsExact
    BY <1>1, <2>1, CountedFacts, FS_EmptySet
  <2>3. StmtsExact
    BY <1>1, FS_EmptySet DEF StmtsExact
  <2> QED BY <1>6, <2>2, <2>3, CountParts
<1> QED BY <1>4, <1>5, <1>6, <1>7, <1>8, <1>9, <1>10, <1>11, <1>12, <1>13, <1>14, <1>15 DEF IInv, ObjInv

LEMMA StepSteps ==
  ASSUME IInv, NEW t \in Threads, Step(t)
  PROVE  IInv'
<1>1. CASE OutOfMemory(t)
  BY <1>1, OutOfMemorySteps
<1>2. CASE conn_create(t) \/ desc_create(t) \/ stmt_create(t)
  BY <1>2, ConnCreateSteps, DescCreateSteps, StmtCreateSteps
<1>3. CASE conn_count(t) \/ desc_count(t) \/ stmt_ref_conn(t) \/ stmt_ready(t)
  BY <1>3, ConnCountSteps, DescCountSteps, StmtRefConnSteps, StmtReadySteps
<1>4. CASE TaosConnect(t) \/ PostConnect(t) \/ DisconnectStmt(t) \/ DisconnectClose(t)
  BY <1>4, TaosConnectSteps, PostConnectSteps, DisconnectStmtSteps, DisconnectCloseSteps
<1>5. CASE ExecBegin(t) \/ ExecEnd(t)
  BY <1>5, ExecSteps
<1>6. CASE SetDescKeep(t, "set_ard", Ard(Handle(t)), Apd(Handle(t)))
  <2>1. "set_ard" \in Sets
    BY DEF Sets
  <2> QED BY <1>6, <2>1, SetDescKeepSteps
<1>7. CASE SetDescKeep(t, "set_apd", Apd(Handle(t)), Ard(Handle(t)))
  <2>1. "set_apd" \in Sets
    BY DEF Sets
  <2> QED BY <1>7, <2>1, SetDescKeepSteps
<1>8. CASE SetARD(t) \/ SetAPD(t) \/ AssociateARD(t) \/ AssociateAPD(t)
  BY <1>8, SetARDSteps, SetAPDSteps, AssociateARDSteps, AssociateAPDSteps
<1>9. CASE env_free(t) \/ conn_free(t) \/ desc_free(t)
  BY <1>9, RefuseOrFree, DescFreeSteps
<1>10. CASE DropOwn(t) \/ Leave(t) \/ Return(t)
  BY <1>10, DropOwnSteps, LeaveSteps, ReturnSteps
<1> QED BY <1>1, <1>2, <1>3, <1>4, <1>5, <1>6, <1>7, <1>8, <1>9, <1>10 DEF Step

LEMMA ReleaseSteps ==
  ASSUME IInv, NEW t \in Threads, Release(t)
  PROVE  IInv'
BY EnvReleaseSteps, ConnUncountSteps, DescUncountSteps, StmtUnlinkSteps, DropDescsSteps, ReleaseParentSteps
   DEF Release

\* Every step keeps it.
LEMMA NextInv ==
  ASSUME IInv, [Next]_vars
  PROVE  IInv'
<1>1. CASE \E e \in Envs : env_create(e)
  BY <1>1, EnvCreateSteps
<1>2. CASE \E t \in Threads : Call(t) \/ Step(t) \/ Release(t)
  BY <1>2, CallSteps, StepSteps, ReleaseSteps
<1>3. CASE UNCHANGED vars
  <2>1. UNCHANGED <<life, refc, ref, releaser, conns, descs, stmts, nr_stmts, asARD, asAPD,
                    connected, outstandings, fn, home, arg, pc>>
    BY <1>3 DEF vars, objVars, listVars, connVars, callVars
  <2>2. \A u \in Threads : \A y : Uses(u, y)' <=> Uses(u, y)
    BY <2>1 DEF Uses, Handle
  <2>3. TypeOK' /\ ObjInv'
    <3>1. UNCHANGED objVars
      BY <2>1 DEF objVars
    <3> QED BY <2>1, <3>1, ObjFrame DEF IInv, TypeOK
  <2>4. ThreadInv'
    <3>1. ThreadInv
      BY DEF IInv
    <3> QED BY <2>1, <3>1 DEF ThreadInv, PlaceInv, KindInv, HomeInv, ArgInv, NewInv, AssociateInv, ConnOf, Parent, Handle
  <2>5. CallerInv'
    <3>1. CallerInv
      BY DEF IInv
    <3> QED BY <2>1, <3>1 DEF CallerInv, ExclInv, DisconnectInv, ListInv, OwnInv, Uses, Handle
  <2>6. AssociationsAgree' /\ CountersExact'
    <3>1. AssociationsAgree /\ CountersExact
      BY DEF IInv
    <3> QED BY <2>1, <3>1 DEF AssociationsAgree, CountersExact, Refs, Counted, Parent
  <2>7. StmtInv' /\ ReleaserInv' /\ ConnectedInv'
    <3>1. StmtInv /\ ReleaserInv /\ ConnectedInv
      BY DEF IInv
    <3> QED BY <2>1, <3>1 DEF StmtInv, ReleaserInv, ConnectedInv, Parent, Handle
  <2> QED BY <2>3, <2>4, <2>5, <2>6, <2>7 DEF IInv
<1> QED BY <1>1, <1>2, <1>3 DEF Next

\* The invariant of the whole module: of objects and slots, of the places of the threads, of
\* what their callers see to, of statements and their connections.
THEOREM Invariance == Spec => []IInv
<1>1. IInv /\ [Next]_vars => IInv'
  BY NextInv
<1> QED BY InitInv, <1>1, PTL DEF Spec

-----------------------------------------------------------------------------
(* What the invariant says of the assertions and of what is left.          *)

\* The assertions of the release paths hold where the invariant does.
LEMMA AssertionsFromInv == IInv => ReleaseAssertionsHold
<1> SUFFICES ASSUME IInv PROVE ReleaseAssertionsHold
  OBVIOUS
<1>0. /\ TypeOK /\ ShapeInv /\ NoDanglingRef /\ RefcExact /\ ConnectedInv
      /\ ConnsExact /\ DescsExact /\ StmtsExact
  BY CountParts DEF IInv, ObjInv
<1>1. ASSUME NEW e \in Envs, life[e] = "dying" PROVE conns[e] = 0
  <2>1. \A c \in Conns : ref[Up(c)] # e
    BY <1>0, <1>1, KindFacts, SlotFacts DEF NoDanglingRef
  <2>2. CountedIn(ref, life, e, Conns) = {}
    BY <2>1 DEF CountedIn
  <2> QED BY <1>0, <2>2, CountedFacts, FS_EmptySet
<1>2. ASSUME NEW c \in Conns, life[c] = "dying" PROVE ~connected[c] /\ nr_stmts[c] = 0
  <2>1. ref[App(c)] # c
    BY <1>0, <1>2, KindFacts, SlotFacts DEF NoDanglingRef
  <2>2. ~connected[c] /\ stmts[c] = {}
    BY <1>0, <2>1 DEF ConnectedInv
  <2> QED BY <1>0, <2>2, FS_EmptySet DEF StmtsExact
<1>3. ASSUME NEW t \in Threads, At(t, "disconnect"), NEW s \in stmts[Handle(t)] PROVE refc[s] = 1
  <2>1. s \in Stmts /\ ref[App(s)] = s /\ \A u \in Threads : Handle(u) # s
    BY <1>3, ListedStmts
  <2>2. s \in Objs /\ App(s) \in Slots
    BY <2>1, KindFacts, SlotFacts
  <2>3. \A j \in Slots : ref[j] = s => j = App(s)
    BY <1>0, <2>1, StmtRefs DEF Handle
  <2> QED BY <1>0, <2>1, <2>2, <2>3, LastRef
<1> QED BY <1>1, <1>2, <1>3 DEF ReleaseAssertionsHold

\* A live object has a reference; without calls and without the application's, there is none to
\* a statement, then none to a descriptor, a connection and an environment.
LEMMA NothingLeftFromInv == IInv => NothingLeaks
<1> SUFFICES ASSUME IInv, \A t \in Threads : fn[t] = "none", \A o \in Objs : ref[App(o)] = NULL
             PROVE  \A o \in Objs : life[o] = "none"
  BY DEF NothingLeaks
<1>0. /\ TypeOK /\ ShapeInv /\ NoDanglingRef /\ RefcExact /\ LifeInv /\ PlaceInv /\ NewInv /\ ReleaserInv
  BY DEF IInv, ObjInv, ThreadInv
<1>1. \A t \in Threads : Handle(t) = NULL /\ pc[t] = "idle"
  BY <1>0 DEF PlaceInv
<1>2. \A o \in Objs : life[o] \in {"none", "live"}
  <2>1. \A o \in Objs : releaser[o] = NULL
    BY <1>0 DEF ReleaserInv, TypeOK
  <2>2. \A o \in Objs : life[o] # "new"
    BY <1>0, <1>1 DEF NewInv, Creating
  <2>3. \A o \in Objs : life[o] \in {"none", "new", "live", "dying", "leaving"}
    BY <1>0 DEF TypeOK
  <2> QED BY <1>0, <2>1, <2>2, <2>3 DEF LifeInv
<1>3. \A o \in Objs : life[o] = "live" => \E k \in Slots : ref[k] = o
  BY <1>0, RefcFacts DEF LifeInv
<1>4. \A o \in Objs, k \in Slots : ref[k] = o =>
        \/ \E x \in Objs : x \notin Envs /\ k = Up(x)
        \/ \E s \in Stmts : k = Ard(s) \/ k = Apd(s)
  BY <1>1, SlotKinds, KindFacts DEF Handle
<1>5. \A s \in Stmts : life[s] = "none"
  <2> SUFFICES ASSUME NEW s \in Stmts, life[s] = "live" PROVE FALSE
    BY <1>2, KindFacts
  <2>1. s \in Objs /\ s # NULL
    BY KindFacts
  <2>2. PICK k \in Slots : ref[k] = s
    BY <1>3, <2>1
  <2>3. k = App(s) \/ \E t \in Threads : k = Api(t)
    BY <1>0, <2>2, StmtRefs
  <2> QED BY <1>1, <2>1, <2>2, <2>3 DEF Handle
<1>6. \A s \in Stmts : ref[Ard(s)] = NULL /\ ref[Apd(s)] = NULL /\ ref[Up(s)] = NULL
  BY <1>0, <1>5, KindFacts DEF LifeInv, Parent
<1>7. \A o \in Objs, k \in Slots : ref[k] = o => \E x \in Conns \cup Descs : k = Up(x)
  <2> SUFFICES ASSUME NEW o \in Objs, NEW k \in Slots, ref[k] = o PROVE \E x \in Conns \cup Descs : k = Up(x)
    OBVIOUS
  <2>1. o # NULL
    BY KindFacts
  <2>2. ~\E s \in Stmts : k = Ard(s) \/ k = Apd(s) \/ k = Up(s)
    BY <1>6, <2>1
  <2> QED BY <1>4, <2>2, KindFacts
<1>8. \A d \in Descs : life[d] = "none"
  <2> SUFFICES ASSUME NEW d \in Descs, life[d] = "live" PROVE FALSE
    BY <1>2, KindFacts
  <2>1. d \in Objs /\ d \notin Envs /\ d \notin Conns /\ d # NULL
    BY KindFacts
  <2>2. PICK k \in Slots : ref[k] = d
    BY <1>3, <2>1
  <2>3. PICK x \in Conns \cup Descs : k = Up(x)
    BY <1>7, <2>1, <2>2
  <2> QED BY <1>0, <2>1, <2>2, <2>3 DEF ShapeInv, Parent
<1>9. \A d \in Descs : ref[Up(d)] = NULL
  BY <1>0, <1>8, KindFacts DEF LifeInv, Parent
<1>10. \A c \in Conns : life[c] = "none"
  <2> SUFFICES ASSUME NEW c \in Conns, life[c] = "live" PROVE FALSE
    BY <1>2, KindFacts
  <2>1. c \in Objs /\ c \notin Envs /\ c # NULL
    BY KindFacts
  <2>2. PICK k \in Slots : ref[k] = c
    BY <1>3, <2>1
  <2>3. PICK x \in Conns \cup Descs : k = Up(x)
    BY <1>7, <2>1, <2>2
  <2>4. x \in Conns
    BY <1>9, <2>1, <2>2, <2>3
  <2> QED BY <1>0, <2>1, <2>2, <2>3, <2>4 DEF ShapeInv, Parent
<1>11. \A c \in Conns : ref[Up(c)] = NULL
  BY <1>0, <1>10, KindFacts DEF LifeInv, Parent
<1>12. \A e \in Envs : life[e] = "none"
  <2> SUFFICES ASSUME NEW e \in Envs, life[e] = "live" PROVE FALSE
    BY <1>2, KindFacts
  <2>1. e \in Objs /\ e # NULL
    BY KindFacts
  <2>2. PICK k \in Slots : ref[k] = e
    BY <1>3, <2>1
  <2>3. PICK x \in Conns \cup Descs : k = Up(x)
    BY <1>7, <2>1, <2>2
  <2> QED BY <1>9, <1>11, <2>1, <2>2, <2>3
<1> QED BY <1>5, <1>8, <1>10, <1>12, KindFacts

-----------------------------------------------------------------------------
(* The properties, of every behaviour.                                     *)

\* Every variable keeps its type.
THEOREM TypeCorrect == Spec => []TypeOK
<1>1. IInv => TypeOK
  BY DEF IInv
<1> QED BY Invariance, <1>1, PTL

\* No thread, object or application handle reaches an object whose release has begun,
\* however the calls of any number of threads interleave.
THEOREM NoUseAfterFree == Spec => []NoDanglingRef
<1>1. IInv => NoDanglingRef
  BY DEF IInv, ObjInv
<1> QED BY Invariance, <1>1, PTL

\* Reference counts and the counters that refuse a free are exact in every state.
THEOREM CountsExact == Spec => []CountersExact
<1>1. IInv => CountersExact
  BY DEF IInv
<1> QED BY Invariance, <1>1, PTL

\* The two sides of an association agree, through dissociations by either side's release.
THEOREM AssociationsSound == Spec => []AssociationsAgree
<1>1. IInv => AssociationsAgree
  BY DEF IInv
<1> QED BY Invariance, <1>1, PTL

\* No assertion of a release path fails.
THEOREM AssertionsHold == Spec => []ReleaseAssertionsHold
BY Invariance, AssertionsFromInv, PTL

\* When the application has freed its handles and all calls have returned, no object is left.
THEOREM NothingLeft == Spec => []NothingLeaks
BY Invariance, NothingLeftFromInv, PTL
=============================================================================
