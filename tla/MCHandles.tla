----------------------------- MODULE MCHandles -----------------------------
(* Two small heaps for the handle lifecycle: one connection with all else    *)
(* doubled under two threads, and two connections under three threads.       *)
EXTENDS Handles, TLC

CONSTANTS e1, c1, c2, s1, s2, d1, d2, t1, t2, t3

InUse(objs) == Cardinality({o \in objs : life[o] # "none"})
SmallHeap ==
  \/ InUse(Conns) <= 1 /\ Cardinality({t \in Threads : fn[t] # "none"}) <= 2
  \/ InUse(Stmts) <= 1 /\ InUse(Descs) <= 1

Symmetry == Permutations(Conns) \cup Permutations(Stmts) \cup Permutations(Descs)
              \cup Permutations(Threads)
=============================================================================
