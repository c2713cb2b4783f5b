CONSTANTS
  e1 = e1
  c1 = c1
  c2 = c2
  s1 = s1
  s2 = s2
  d1 = d1
  d2 = d2
  t1 = t1
  t2 = t2
  t3 = t3
  NULL = NULL
  Envs = {e1}
  Conns = {c1, c2}
  Stmts = {s1, s2}
  Descs = {d1, d2}
  Threads = {t1, t2, t3}
SPECIFICATION Spec
SYMMETRY Symmetry
CONSTRAINT SmallHeap
INVARIANTS
  NoDanglingRef
  CountersExact
  AssociationsAgree
  ReleaseAssertionsHold
  NothingLeaks
