---------------------------- MODULE GetDataProofs ----------------------------
(***************************************************************************)
(* SQLGetData hands out a value whole and tells how much of it is left,    *)
(* and SQLFetch fills the bound columns with values of their own, proved   *)
(* for any columns, widths of characters, buffer lengths, rows and calls   *)
(* of a careful application.                                               *)
(*                                                                         *)
(* First what flattening a sequence of characters into bytes does, by      *)
(* first-order induction over the naturals (Induct); then each copy        *)
(* function: what it puts into the buffer and what it leaves to come are   *)
(* what was to come (Copied); then one call, which serves the value it     *)
(* begins or goes on with (Serves); then the fold over the bound columns;  *)
(* then the inductive invariant IInv and the properties.                   *)
(***************************************************************************)
EXTENDS GetData, FiniteSetTheorems, SequenceTheorems, NaturalsInduction, WellFoundedInduction, TLAPS

-----------------------------------------------------------------------------
(* Naturals.                                                               *)

\* A set of naturals that is not empty has a least member.
LEMMA Least ==
  ASSUME NEW C \in SUBSET Nat, C # {}
  PROVE  \E n \in C : \A m \in C : n <= m
  <1> DEFINE R == OpToRel(<, Nat)
  <1>1. IsWellFoundedOn(R, Nat)
    BY NatLessThanWellFounded
  <1>2. \A x, y \in Nat : <<x, y>> \in R <=> x < y
    BY DEF OpToRel
  <1> HIDE DEF R
  <1>3. PICK x \in C : \A y \in C : ~(<<y, x>> \in R)
    BY <1>1, WFMin
  <1>4. \A y \in C : y \in Nat
    OBVIOUS
  <1>5. \A y \in C : ~(y < x)
    BY <1>2, <1>3, <1>4
  <1>6. \A y \in C : x <= y
    BY <1>4, <1>5
  <1> QED BY <1>6

\* Induction: what holds of 0 and is passed on holds of every natural.
LEMMA Induct ==
  ASSUME NEW S \in SUBSET Nat, 0 \in S, \A n \in S : n + 1 \in S
  PROVE  S = Nat
  <1> DEFINE C == Nat \ S
  <1> SUFFICES ASSUME C # {} PROVE FALSE
    OBVIOUS
  <1>1. PICK n \in C : \A m \in C : n <= m
    BY Least
  <1>2. n \in Nat /\ n # 0
    OBVIOUS
  <1>3. n - 1 \in Nat /\ ~(n <= n - 1)
    BY <1>2
  <1>4. n - 1 \in S
    BY <1>1, <1>3
  <1>5. (n - 1) + 1 = n
    BY <1>2
  <1>6. n \in S
    BY <1>4, <1>5
  <1> QED BY <1>6

\* The greatest member of a bounded set of naturals.
LEMMA Greatest ==
  ASSUME NEW n \in Nat, NEW C \in SUBSET (0..n), C # {}
  PROVE  Max(C) \in C /\ \A m \in C : m <= Max(C)
  <1> DEFINE U == {k \in Nat : \A m \in C : m <= k}
  <1>0. \A m \in C : m \in Nat /\ m <= n
    OBVIOUS
  <1>1. n \in U
    BY <1>0
  <1>2. PICK k \in U : \A j \in U : k <= j
    BY <1>1, Least
  <1>3. k \in C
    <2> SUFFICES ASSUME k \notin C PROVE FALSE
      OBVIOUS
    <2>1. PICK m \in C : TRUE
      OBVIOUS
    <2>2. k \in Nat /\ m <= k /\ m # k /\ m \in Nat
      BY <1>0
    <2>3. k - 1 \in Nat /\ ~(k <= k - 1)
      BY <2>2
    <2>4. \A j \in C : j <= k - 1
      <3> SUFFICES ASSUME NEW j \in C PROVE j <= k - 1
        OBVIOUS
      <3>1. j \in Nat /\ j <= k /\ j # k
        BY <1>0
      <3> QED BY <2>2, <3>1
    <2>5. k - 1 \in U
      BY <2>3, <2>4
    <2> QED BY <1>2, <2>3, <2>5
  <1>4. \A m \in C : k >= m
    BY <1>0, <1>2
  <1>5. \E x \in C : \A m \in C : x >= m
    BY <1>3, <1>4
  <1>6. Max(C) \in C /\ \A m \in C : Max(C) >= m
    BY <1>5 DEF Max
  <1> QED BY <1>0, <1>6

-----------------------------------------------------------------------------
(* Flattened sequences.                                                    *)

\* f[i] is the first i members of s, one behind the other.
Chain(f, s, B) ==
  /\ f \in [0..Len(s) -> Seq(B)] /\ f[0] = <<>>
  /\ \A i \in 1..Len(s) : f[i] = f[i - 1] \o s[i]

LEMMA ChainExists ==
  ASSUME NEW B, NEW s \in Seq(Seq(B))
  PROVE  \E f : Chain(f, s, B)
  <1> DEFINE Good(f, k) == /\ f \in [0..k -> Seq(B)] /\ f[0] = <<>>
                           /\ \A i \in 1..k : f[i] = f[i - 1] \o s[i]
             S == {k \in Nat : k <= Len(s) => \E f : Good(f, k)}
  <1>1. 0 \in S
    <2>1. Good([i \in 0..0 |-> <<>>], 0)
      OBVIOUS
    <2> QED BY <2>1
  <1>2. ASSUME NEW k \in Nat, k + 1 <= Len(s), NEW f, Good(f, k) PROVE \E g : Good(g, k + 1)
    <2>1. s[k + 1] \in Seq(B) /\ k \in 0..k /\ f[k] \in Seq(B)
      BY <1>2
    <2> DEFINE g == [i \in 0..(k + 1) |-> IF i = k + 1 THEN f[k] \o s[k + 1] ELSE f[i]]
    <2>2. \A i \in 0..k : g[i] = f[i]
      OBVIOUS
    <2>3. g[k + 1] = f[k] \o s[k + 1]
      <3>1. k + 1 \in 0..(k + 1)
        OBVIOUS
      <3> QED BY <3>1
    <2>4. g \in [0..(k + 1) -> Seq(B)]
      BY <1>2, <2>1
    <2> HIDE DEF g
    <2>5. ASSUME NEW i \in 1..(k + 1) PROVE g[i] = g[i - 1] \o s[i]
      <3>1. i - 1 \in 0..k /\ g[i - 1] = f[i - 1]
        BY <2>2
      <3>2. CASE i = k + 1
        <4>1. i - 1 = k
          BY <3>2
        <4> QED BY <2>3, <3>1, <3>2, <4>1
      <3>3. CASE i # k + 1
        <4>1. i \in 1..k /\ i \in 0..k
          BY <3>3
        <4>2. f[i] = f[i - 1] \o s[i]
          BY <1>2, <4>1
        <4> QED BY <2>2, <3>1, <4>1, <4>2
      <3> QED BY <3>2, <3>3
    <2>6. g[0] = <<>>
      BY <1>2, <2>2
    <2>7. Good(g, k + 1)
      BY <2>4, <2>5, <2>6
    <2> QED BY <2>7
  <1> HIDE DEF Good
  <1>3. ASSUME NEW k \in S PROVE k + 1 \in S
    BY <1>2
  <1>4. S \subseteq Nat
    OBVIOUS
  <1>5. Len(s) \in S
    <2> HIDE DEF S
    <2>1. S = Nat
      BY <1>1, <1>3, <1>4, Induct
    <2> QED BY <2>1
  <1>6. PICK f : Good(f, Len(s))
    BY <1>5
  <1>7. Chain(f, s, B)
    BY <1>6 DEF Chain, Good
  <1> QED BY <1>7

\* FlattenSeq is the end of the chain.
LEMMA FlattenChain ==
  ASSUME NEW B, NEW s \in Seq(Seq(B)), NEW f, Chain(f, s, B)
  PROVE  FlattenSeq(s) = f[Len(s)]
  <1>1. CASE Len(s) = 0
    <2>1. s = <<>>
      BY <1>1
    <2> QED BY <1>1, <2>1 DEF Chain, FlattenSeq
  <1>2. CASE Len(s) # 0
    <2> DEFINE n == Len(s)
               Eq(g) == g = [i \in 1..n |-> IF i = 1 THEN s[i] ELSE g[i - 1] \o s[i]]
               flat == CHOOSE g : Eq(g)
    <2>1. n \in Nat \ {0}
      BY <1>2
    <2>2. FlattenSeq(s) = flat[n]
      BY <1>2 DEF FlattenSeq
    <2>3. Eq([i \in 1..n |-> f[i]])
      <3> DEFINE h == [i \in 1..n |-> f[i]]
      <3>1. ASSUME NEW i \in 1..n PROVE f[i] = IF i = 1 THEN s[i] ELSE h[i - 1] \o s[i]
        <4>1. f[i] = f[i - 1] \o s[i] /\ s[i] \in Seq(B)
          BY DEF Chain
        <4>2. CASE i = 1
          <5>1. f[1 - 1] = <<>> /\ \A q \in Seq(B) : <<>> \o q = q
            BY DEF Chain
          <5> QED BY <4>1, <4>2, <5>1
        <4>3. CASE i # 1
          <5>1. i - 1 \in 1..n
            BY <4>3
          <5> QED BY <4>1, <4>3, <5>1
        <4> QED BY <4>2, <4>3
      <3> QED BY <3>1
    <2>4. Eq(flat)
      <3> HIDE DEF Eq
      <3> QED BY <2>3
    <2> HIDE DEF flat
    <2>5. \A i \in 1..n : flat[i] = IF i = 1 THEN s[i] ELSE flat[i - 1] \o s[i]
      BY <2>4
    <2> DEFINE S == {k \in Nat : k + 1 <= n => flat[k + 1] = f[k + 1]}
    <2>6. 0 \in S
      <3>0. 1 \in 1..n /\ 1 - 1 = 0
        BY <2>1
      <3>1. f[1] = f[1 - 1] \o s[1] /\ f[1 - 1] = <<>>
        BY <3>0 DEF Chain
      <3>4. s[1] \in Seq(B)
        BY <3>0
      <3>2. \A q \in Seq(B) : <<>> \o q = q
        OBVIOUS
      <3>3. flat[1] = s[1]
        BY <2>1, <2>5
      <3> QED BY <3>1, <3>2, <3>3, <3>4
    <2>7. ASSUME NEW k \in S PROVE k + 1 \in S
      <3> SUFFICES ASSUME k + 1 + 1 <= n PROVE flat[k + 1 + 1] = f[k + 1 + 1]
        OBVIOUS
      <3>1. k \in Nat /\ k + 1 <= n /\ k + 1 + 1 \in 1..n /\ k + 1 + 1 # 1 /\ (k + 1 + 1) - 1 = k + 1
        BY <2>1
      <3>2. flat[k + 1] = f[k + 1]
        BY <3>1
      <3>3. flat[k + 1 + 1] = flat[k + 1] \o s[k + 1 + 1]
        BY <2>5, <3>1
      <3>4. f[k + 1 + 1] = f[k + 1] \o s[k + 1 + 1]
        BY <3>1 DEF Chain
      <3> QED BY <3>2, <3>3, <3>4
    <2>8. S = Nat
      <3> HIDE DEF S
      <3>1. S \subseteq Nat
        BY DEF S
      <3> QED BY <2>6, <2>7, <3>1, Induct
    <2>9. n - 1 \in Nat /\ (n - 1) + 1 = n
      BY <2>1
    <2>10. n - 1 \in S
      BY <2>8, <2>9
    <2>11. flat[(n - 1) + 1] = f[(n - 1) + 1]
      BY <2>9, <2>10
    <2> QED BY <2>2, <2>9, <2>11
  <1> QED BY <1>1, <1>2

LEMMA FlattenType ==
  ASSUME NEW B, NEW s \in Seq(Seq(B))
  PROVE  FlattenSeq(s) \in Seq(B)
  <1>1. PICK f : Chain(f, s, B)
    BY ChainExists
  <1>2. FlattenSeq(s) = f[Len(s)]
    BY <1>1, FlattenChain
  <1>3. f \in [0..Len(s) -> Seq(B)] /\ Len(s) \in 0..Len(s)
    BY <1>1 DEF Chain
  <1> QED BY <1>2, <1>3

LEMMA FlattenEmpty == FlattenSeq(<<>>) = <<>>
  BY DEF FlattenSeq

\* One more member adds its own members at the end.
LEMMA FlattenAppend ==
  ASSUME NEW B, NEW s \in Seq(Seq(B)), NEW e \in Seq(B)
  PROVE  FlattenSeq(Append(s, e)) = FlattenSeq(s) \o e
  <1>1. PICK f : Chain(f, s, B)
    BY ChainExists
  <1> DEFINE n == Len(s)
             t == Append(s, e)
             g == [i \in 0..(n + 1) |-> IF i = n + 1 THEN f[n] \o e ELSE f[i]]
  <1>2. n \in Nat /\ t \in Seq(Seq(B)) /\ Len(t) = n + 1 /\ t[n + 1] = e /\ \A i \in 1..n : t[i] = s[i]
    OBVIOUS
  <1>3. f \in [0..n -> Seq(B)] /\ f[0] = <<>> /\ n \in 0..n /\ n + 1 \in 0..(n + 1)
    BY <1>1, <1>2 DEF Chain
  <1>4. f[n] \o e \in Seq(B)
    <2>1. f[n] \in Seq(B)
      BY <1>3
    <2> HIDE DEF n
    <2> QED BY <2>1
  <1>5. g[n + 1] = f[n] \o e /\ \A i \in 0..n : g[i] = f[i]
    BY <1>2, <1>3
  <1>6. g \in [0..(n + 1) -> Seq(B)]
    BY <1>3, <1>4
  <1> HIDE DEF g, t
  <1>7. ASSUME NEW i \in 1..(n + 1) PROVE g[i] = g[i - 1] \o t[i]
    <2>1. i - 1 \in 0..n /\ g[i - 1] = f[i - 1]
      BY <1>2, <1>5
    <2>2. CASE i = n + 1
      <3>1. i - 1 = n
        BY <1>2, <2>2
      <3> QED BY <1>2, <1>5, <2>1, <2>2, <3>1
    <2>3. CASE i # n + 1
      <3>1. i \in 1..n /\ i \in 0..n
        BY <1>2, <2>3
      <3>2. f[i] = f[i - 1] \o s[i]
        BY <1>1, <3>1 DEF Chain
      <3> QED BY <1>2, <1>5, <2>1, <3>1, <3>2
    <2> QED BY <2>2, <2>3
  <1>8. Chain(g, t, B)
    BY <1>2, <1>3, <1>5, <1>6, <1>7 DEF Chain
  <1>9. FlattenSeq(t) = g[n + 1]
    BY <1>2, <1>8, FlattenChain
  <1>10. FlattenSeq(s) = f[n]
    BY <1>1, FlattenChain
  <1> QED BY <1>5, <1>9, <1>10 DEF t

LEMMA FlattenConcat ==
  ASSUME NEW B, NEW s \in Seq(Seq(B)), NEW t \in Seq(Seq(B))
  PROVE  FlattenSeq(s \o t) = FlattenSeq(s) \o FlattenSeq(t)
  <1> DEFINE P(u) == FlattenSeq(s \o u) = FlattenSeq(s) \o FlattenSeq(u)
             S == {k \in Nat : \A u \in Seq(Seq(B)) : Len(u) = k => P(u)}
  <1>1. 0 \in S
    <2> SUFFICES ASSUME NEW u \in Seq(Seq(B)), Len(u) = 0 PROVE P(u)
      OBVIOUS
    <2>1. u = <<>>
      OBVIOUS
    <2>2. s \o u = s /\ FlattenSeq(u) = <<>>
      BY <2>1, FlattenEmpty
    <2>3. FlattenSeq(s) \in Seq(B)
      BY FlattenType
    <2>4. FlattenSeq(s) \o <<>> = FlattenSeq(s)
      BY <2>3
    <2> QED BY <2>2, <2>4
  <1>2. ASSUME NEW k \in S PROVE k + 1 \in S
    <2> SUFFICES ASSUME NEW u \in Seq(Seq(B)), Len(u) = k + 1 PROVE P(u)
      OBVIOUS
    <2> DEFINE v == SubSeq(u, 1, k)
               e == u[k + 1]
    <2>1. k \in Nat
      OBVIOUS
    <2>2. v \in Seq(Seq(B)) /\ e \in Seq(B) /\ Len(v) = k /\ u = Append(v, e)
      BY <2>1
    <2>3. P(v)
      BY <2>2
    <2> HIDE DEF v, e
    <2>4. s \o u = Append(s \o v, e) /\ s \o v \in Seq(Seq(B))
      BY <2>2
    <2>5. FlattenSeq(Append(s \o v, e)) = FlattenSeq(s \o v) \o e
      BY <2>2, <2>4, FlattenAppend
    <2>6. FlattenSeq(u) = FlattenSeq(v) \o e
      BY <2>2, FlattenAppend
    <2>7. FlattenSeq(s) \in Seq(B) /\ FlattenSeq(v) \in Seq(B)
      BY <2>2, FlattenType
    <2>8. (FlattenSeq(s) \o FlattenSeq(v)) \o e = FlattenSeq(s) \o (FlattenSeq(v) \o e)
      <3> DEFINE a == FlattenSeq(s)
                 b == FlattenSeq(v)
      <3> HIDE DEF P, S, a, b
      <3>1. a \in Seq(B) /\ b \in Seq(B) /\ e \in Seq(B)
        BY <2>2, <2>7 DEF a, b
      <3>2. (a \o b) \o e = a \o (b \o e)
        BY <3>1, ConcatAssociative
      <3> QED BY <3>2 DEF a, b
    <2> QED BY <2>3, <2>4, <2>5, <2>6, <2>8
  <1>3. S \subseteq Nat
    OBVIOUS
  <1>4. Len(t) \in S
    <2> HIDE DEF S
    <2>1. S = Nat
      BY <1>1, <1>2, <1>3, Induct
    <2> QED BY <2>1
  <1> QED BY <1>4

\* Members of length one.
LEMMA FlattenUnits ==
  ASSUME NEW B, NEW s \in Seq(Seq(B)), \A i \in 1..Len(s) : Len(s[i]) = 1
  PROVE  Len(FlattenSeq(s)) = Len(s)
  <1>1. PICK f : Chain(f, s, B)
    BY ChainExists
  <1> DEFINE S == {k \in Nat : k <= Len(s) => Len(f[k]) = k}
  <1>2. 0 \in S
    BY <1>1 DEF Chain
  <1>3. ASSUME NEW k \in S PROVE k + 1 \in S
    <2> SUFFICES ASSUME k + 1 <= Len(s) PROVE Len(f[k + 1]) = k + 1
      OBVIOUS
    <2>1. k \in Nat /\ k <= Len(s) /\ k + 1 \in 1..Len(s) /\ k \in 0..Len(s) /\ (k + 1) - 1 = k
      OBVIOUS
    <2>2. f[k + 1] = f[k] \o s[k + 1] /\ f[k] \in Seq(B)
      BY <1>1, <2>1 DEF Chain
    <2>3. s[k + 1] \in Seq(B) /\ Len(s[k + 1]) = 1
      BY <2>1
    <2>4. Len(f[k]) = k
      BY <2>1
    <2>5. Len(f[k] \o s[k + 1]) = Len(f[k]) + Len(s[k + 1])
      BY <2>2, <2>3, ConcatProperties
    <2> QED BY <2>2, <2>3, <2>4, <2>5
  <1>4. S \subseteq Nat
    OBVIOUS
  <1>5. Len(s) \in S
    <2> HIDE DEF S
    <2>1. S = Nat
      BY <1>2, <1>3, <1>4, Induct
    <2> QED BY <2>1
  <1> QED BY <1>1, <1>5, FlattenChain

\* A sequence in two parts, and in two parts with a member between them.
LEMMA FlattenParts ==
  ASSUME NEW B, NEW s \in Seq(Seq(B)), NEW n \in 0..Len(s)
  PROVE  /\ FlattenSeq(s) = FlattenSeq(SubSeq(s, 1, n)) \o FlattenSeq(SubSeq(s, n + 1, Len(s)))
         /\ SubSeq(s, 1, n) \in Seq(Seq(B)) /\ SubSeq(s, n + 1, Len(s)) \in Seq(Seq(B))
  <1>1. SubSeq(s, 1, n) \in Seq(Seq(B)) /\ SubSeq(s, n + 1, Len(s)) \in Seq(Seq(B))
    OBVIOUS
  <1>2. s = SubSeq(s, 1, n) \o SubSeq(s, n + 1, Len(s))
    <2>1. 1 \in 1..(Len(s) + 1) /\ n \in (1 - 1)..Len(s) /\ Len(s) \in n..Len(s)
      OBVIOUS
    <2>2. SubSeq(s, 1, n) \o SubSeq(s, n + 1, Len(s)) = SubSeq(s, 1, Len(s))
      BY <2>1, ConcatAdjacentSubSeq
    <2> QED BY <2>2, SubSeqFull
  <1> QED BY <1>1, <1>2, FlattenConcat

LEMMA FlattenBetween ==
  ASSUME NEW B, NEW s \in Seq(Seq(B)), NEW n \in 0..Len(s), n < Len(s)
  PROVE  /\ FlattenSeq(s) = FlattenSeq(SubSeq(s, 1, n)) \o (s[n + 1] \o FlattenSeq(SubSeq(s, n + 2, Len(s))))
         /\ SubSeq(s, n + 2, Len(s)) \in Seq(Seq(B)) /\ s[n + 1] \in Seq(B)
  <1> DEFINE t == SubSeq(s, n + 1, Len(s))
             r == SubSeq(s, n + 2, Len(s))
  <1>1. n \in Nat /\ n + 1 <= Len(s) /\ n + 1 \in 1..Len(s)
    OBVIOUS
  <1>2. r \in Seq(Seq(B)) /\ s[n + 1] \in Seq(B)
    BY <1>1
  <1>3. <<s[n + 1]>> \in Seq(Seq(B)) /\ t = <<s[n + 1]>> \o r
    BY <1>1
  <1>4. FlattenSeq(<<s[n + 1]>>) = s[n + 1]
    <2>1. <<s[n + 1]>> = Append(<<>>, s[n + 1]) /\ <<>> \in Seq(Seq(B))
      OBVIOUS
    <2>2. FlattenSeq(Append(<<>>, s[n + 1])) = FlattenSeq(<<>>) \o s[n + 1]
      BY <1>2, <2>1, FlattenAppend
    <2> QED BY <1>2, <2>1, <2>2, FlattenEmpty
  <1>5. FlattenSeq(t) = s[n + 1] \o FlattenSeq(r)
    <2> HIDE DEF t, r
    <2>1. FlattenSeq(<<s[n + 1]>> \o r) = FlattenSeq(<<s[n + 1]>>) \o FlattenSeq(r)
      BY <1>2, <1>3, FlattenConcat
    <2> QED BY <1>3, <1>4, <2>1
  <1> QED BY <1>2, <1>5, FlattenParts

\* What is put in front of something is a prefix of the whole.
LEMMA Prefix ==
  ASSUME NEW B, NEW s \in Seq(B), NEW t \in Seq(B)
  PROVE  IsPrefix(s, s \o t)
  <1>1. s \o t \in Seq(B) /\ Len(s \o t) = Len(s) + Len(t)
    BY ConcatProperties
  <1>2. CASE Len(s) = 0
    BY <1>1, <1>2 DEF IsPrefix
  <1>3. CASE Len(s) > 0
    <2>1. 1 \in 1..Len(s) /\ Len(s) \in 1..Len(s)
      BY <1>3
    <2>2. SubSeq(s \o t, 1, Len(s)) = SubSeq(s, 1, Len(s))
      BY <2>1, SubSeqOfConcat1
    <2> QED BY <1>1, <2>2 DEF IsPrefix
  <1> QED BY <1>2, <1>3

-----------------------------------------------------------------------------
(* The copy functions.                                                     *)

Byte == [row : Nat, col : Columns, char : Nat, byte : Nat]
Readable == {c \in Columns : Kind[c] # "unsupported"}
Contexts ==
  [col : Columns \cup {Unset}, target : Targets,
   tsdb : {NoValue} \cup [row : 1..Rows, col : Readable], pos : {"null", "at", "end"},
   chars : Seq(Seq(Byte)), residual : Seq(Byte)]
Returns == {"success", "with_info", "no_data", "error"}

\* The bytes of the value still to come.
Remaining(x) == IF x.pos = "end" THEN <<>> ELSE x.residual \o Converted(x.chars)

\* A value that can be copied, and how a copy leaves it.
Ready(x) ==
  /\ x \in Contexts /\ x.pos \in {"at", "end"}
  /\ x.pos = "end" => x.residual = <<>>

Same(x, y) == y \in Contexts /\ y.col = x.col /\ y.target = x.target /\ y.tsdb = x.tsdb

Copied(x, got) ==
  /\ Same(x, got.ctx) /\ Ready(got.ctx)
  /\ got.ret \in Returns /\ got.piece \in Seq(Byte) /\ got.strlen \in Nat
  /\ Remaining(x) = got.piece \o Remaining(got.ctx)
  /\ got.ret = "success" => got.ctx.pos = "end"

LEMMA RoomNat ==
  ASSUME NEW size \in Nat, NEW unit \in {1, 2}, size > unit
  PROVE  Room(size, unit) \in Nat
  <1>1. CASE unit = 1
    BY <1>1 DEF Room
  <1>2. CASE unit = 2
    BY <1>2 DEF Room
  <1> QED BY <1>1, <1>2

LEMMA RemainingType ==
  ASSUME NEW x \in Contexts
  PROVE  Remaining(x) \in Seq(Byte) /\ Converted(x.chars) \in Seq(Byte)
  <1>1. x.chars \in Seq(Seq(Byte)) /\ x.residual \in Seq(Byte)
    BY DEF Contexts
  <1>2. Converted(x.chars) \in Seq(Byte)
    BY <1>1, FlattenType DEF Converted
  <1>3. x.residual \o Converted(x.chars) \in Seq(Byte)
    BY <1>1, <1>2, ConcatProperties
  <1> QED BY <1>2, <1>3 DEF Remaining

\* The characters that fit into n bytes, all of them if they do.
LEMMA FitIs ==
  ASSUME NEW chars \in Seq(Seq(Byte)), NEW n \in Nat
  PROVE  /\ Fit(chars, n) \in 0..Len(chars)
         /\ Len(Converted(SubSeq(chars, 1, Fit(chars, n)))) <= n
         /\ Len(Converted(chars)) <= n => Fit(chars, n) = Len(chars)
  <1> DEFINE C == {k \in 0..Len(chars) : Len(Converted(SubSeq(chars, 1, k))) <= n}
  <1>1. Len(chars) \in Nat /\ C \in SUBSET (0..Len(chars))
    OBVIOUS
  <1>2. 0 \in C
    <2>1. SubSeq(chars, 1, 0) = <<>>
      OBVIOUS
    <2>2. Converted(SubSeq(chars, 1, 0)) = <<>>
      BY <2>1, FlattenEmpty DEF Converted
    <2>3. Len(<<>>) = 0 /\ 0 \in 0..Len(chars)
      BY <1>1
    <2> QED BY <2>2, <2>3
  <1>3. Fit(chars, n) = Max(C)
    BY DEF Fit
  <1>4. Max(C) \in C /\ \A m \in C : m <= Max(C)
    <2> HIDE DEF C
    <2> QED BY <1>1, <1>2, Greatest
  <1>5. Len(Converted(chars)) <= n => Len(chars) \in C
    <2> SUFFICES ASSUME Len(Converted(chars)) <= n PROVE Len(chars) \in C
      OBVIOUS
    <2>1. SubSeq(chars, 1, Len(chars)) = chars
      BY SubSeqFull
    <2>2. Len(Converted(SubSeq(chars, 1, Len(chars)))) <= n
      BY <2>1
    <2>3. Len(chars) \in 0..Len(chars)
      BY <1>1
    <2> QED BY <2>2, <2>3
  <1>6. Max(C) \in 0..Len(chars)
    BY <1>4
  <1>7. Len(Converted(SubSeq(chars, 1, Max(C)))) <= n
    BY <1>4
  <1>8. Len(Converted(chars)) <= n => Max(C) = Len(chars)
    <2> HIDE DEF C
    <2> QED BY <1>1, <1>4, <1>5, <1>6
  <1> HIDE DEF C
  <1> QED BY <1>3, <1>6, <1>7, <1>8

\* Sequences of bytes.
LEMMA Joined ==
  ASSUME NEW a \in Seq(Byte), NEW b \in Seq(Byte)
  PROVE  a \o b \in Seq(Byte) /\ Len(a) \in Nat /\ Len(a \o b) = Len(a) + Len(b)
  BY ConcatProperties, LenProperties

LEMMA Regrouped ==
  ASSUME NEW a \in Seq(Byte), NEW b \in Seq(Byte), NEW c \in Seq(Byte)
  PROVE  (a \o b) \o c = a \o (b \o c)
  BY ConcatAssociative

LEMMA Nothing ==
  /\ <<>> \in Seq(Byte) /\ <<>> \in Seq(Seq(Byte)) /\ Len(<<>>) = 0
  /\ \A a \in Seq(Byte) : a \o <<>> = a /\ <<>> \o a = a
  BY ConcatEmptySeq

LEMMA Halves ==
  ASSUME NEW q \in Seq(Byte), NEW k \in 0..Len(q)
  PROVE  /\ SubSeq(q, 1, k) \in Seq(Byte) /\ SubSeq(q, k + 1, Len(q)) \in Seq(Byte)
         /\ SubSeq(q, 1, k) \o SubSeq(q, k + 1, Len(q)) = q
  <1>1. 1 \in 1..(Len(q) + 1) /\ k \in (1 - 1)..Len(q) /\ Len(q) \in k..Len(q)
    OBVIOUS
  <1>2. SubSeq(q, 1, k) \o SubSeq(q, k + 1, Len(q)) = SubSeq(q, 1, Len(q))
    BY <1>1, ConcatAdjacentSubSeq
  <1>3. SubSeq(q, 1, k) \in Seq(Byte) /\ SubSeq(q, k + 1, Len(q)) \in Seq(Byte)
    OBVIOUS
  <1> QED BY <1>2, <1>3, SubSeqFull

\* A context with other bytes to come, or none, is one of the same value.
At(x, c, r) == [x EXCEPT !.pos = "at", !.chars = c, !.residual = r]
AtEnd(x) == [x EXCEPT !.pos = "end", !.chars = <<>>, !.residual = <<>>]

LEMMA Changed ==
  ASSUME NEW x \in Contexts, NEW c \in Seq(Seq(Byte)), NEW r \in Seq(Byte)
  PROVE  /\ Same(x, At(x, c, r)) /\ Ready(At(x, c, r)) /\ At(x, c, r).pos = "at"
         /\ Remaining(At(x, c, r)) = r \o Converted(c)
  <1> DEFINE y == At(x, c, r)
  <1>1. y \in Contexts /\ y.col = x.col /\ y.target = x.target /\ y.tsdb = x.tsdb
    BY DEF Contexts, At
  <1>2. y.pos = "at" /\ y.chars = c /\ y.residual = r
    BY DEF Contexts, At
  <1> HIDE DEF y
  <1>3. Same(x, y) /\ Ready(y) /\ y.pos = "at" /\ Remaining(y) = r \o Converted(c)
    BY <1>1, <1>2 DEF Same, Ready, Remaining
  <1> QED BY <1>3 DEF y

LEMMA Ended ==
  ASSUME NEW x \in Contexts
  PROVE  /\ Same(x, AtEnd(x)) /\ Ready(AtEnd(x)) /\ AtEnd(x).pos = "end" /\ AtEnd(x).residual = <<>>
         /\ Remaining(AtEnd(x)) = <<>>
  <1> DEFINE y == AtEnd(x)
  <1>1. y \in Contexts /\ y.col = x.col /\ y.target = x.target /\ y.tsdb = x.tsdb
    BY Nothing DEF Contexts, AtEnd
  <1>2. y.pos = "end" /\ y.residual = <<>>
    BY DEF Contexts, AtEnd
  <1> HIDE DEF y
  <1>3. Same(x, y) /\ Ready(y) /\ y.pos = "end" /\ y.residual = <<>> /\ Remaining(y) = <<>>
    BY <1>1, <1>2 DEF Same, Ready, Remaining
  <1> QED BY <1>3 DEF y

\* What a copy function returns.
LEMMA Told ==
  ASSUME NEW y, NEW r, NEW p, NEW m
  PROVE  Result(y, r, p, m).ctx = y /\ Result(y, r, p, m).ret = r
         /\ Result(y, r, p, m).piece = p /\ Result(y, r, p, m).strlen = m
  BY DEF Result

\* Text: what is copied and what is left are what was left, and what is told is how much
\* it was.  A buffer with room for all of it leaves no part of a character.
TextCopied(x, got, size, unit) ==
  /\ Copied(x, got)
  /\ got.ret = "with_info" => got.strlen = Len(Remaining(x))
  /\ (x.residual = <<>> /\ Len(Remaining(x)) <= Room(size, unit)) => got.ctx.residual = <<>>

\* ... when the bytes left over of an earlier character fill the buffer,
LEMMA CopyResidual ==
  ASSUME NEW x, Ready(x), x.pos = "at", NEW room \in Nat, Len(x.residual) > room,
         NEW got, NEW m \in Nat,
         got = Result(At(x, x.chars, SubSeq(x.residual, room + 1, Len(x.residual))), "with_info",
                      SubSeq(x.residual, 1, room), m)
  PROVE  Copied(x, got) /\ got.strlen = m /\ x.residual # <<>>
  <1> DEFINE r == SubSeq(x.residual, room + 1, Len(x.residual))
             p == SubSeq(x.residual, 1, room)
             rest == Converted(x.chars)
             y == At(x, x.chars, r)
  <1>1. x \in Contexts /\ x.chars \in Seq(Seq(Byte)) /\ x.residual \in Seq(Byte)
    BY DEF Ready, Contexts
  <1>2. r \in Seq(Byte) /\ p \in Seq(Byte) /\ p \o r = x.residual
    <2>1. room \in 0..Len(x.residual)
      BY <1>1
    <2> QED BY <1>1, <2>1, Halves
  <1>3. rest \in Seq(Byte)
    BY <1>1, RemainingType
  <1>8. got = Result(y, "with_info", p, m)
    OBVIOUS
  <1> HIDE DEF p, r
  <1>6. Same(x, y) /\ Ready(y) /\ Remaining(y) = r \o rest
    BY <1>1, <1>2, Changed
  <1> HIDE DEF y
  <1>7. Remaining(x) = p \o Remaining(y)
    <2>1. (p \o r) \o rest = p \o (r \o rest)
      BY <1>2, <1>3, Regrouped
    <2> QED BY <1>2, <1>6, <2>1 DEF Remaining
  <1>9. x.residual # <<>>
    BY Nothing
  <1>10. "with_info" \in Returns /\ "with_info" # "success"
    BY DEF Returns
  <1>11. got.ctx = y /\ got.ret = "with_info" /\ got.piece = p /\ got.strlen = m
    BY <1>8, Told
  <1>12. Copied(x, got)
    BY <1>2, <1>6, <1>7, <1>10, <1>11 DEF Copied
  <1> QED BY <1>9, <1>11, <1>12

\* ... when all the rest fits,
AllCopied(x) ==
  Result(AtEnd(x), "success", x.residual \o Converted(x.chars), Len(x.residual \o Converted(x.chars)))

LEMMA CopyAll ==
  ASSUME NEW x, Ready(x), x.pos = "at"
  PROVE  Copied(x, AllCopied(x)) /\ AllCopied(x).ret = "success" /\ AllCopied(x).ctx.residual = <<>>
  <1> DEFINE got == AllCopied(x)
             whole == x.residual \o Converted(x.chars)
             y == AtEnd(x)
  <1>1. x \in Contexts
    BY DEF Ready
  <1>2. whole = Remaining(x) /\ whole \in Seq(Byte)
    BY <1>1, RemainingType DEF Remaining
  <1>4. Same(x, y) /\ Ready(y) /\ y.pos = "end" /\ y.residual = <<>> /\ Remaining(y) = <<>>
    BY <1>1, Ended
  <1> HIDE DEF whole, y
  <1>5. Remaining(x) = whole \o Remaining(y) /\ Len(whole) \in Nat
    BY <1>2, <1>4, Joined, Nothing
  <1>6. got = Result(y, "success", whole, Len(whole))
    BY DEF AllCopied, whole, y
  <1> HIDE DEF got
  <1>7. "success" \in Returns
    BY DEF Returns
  <1>8. got.ctx = y /\ got.ret = "success" /\ got.piece = whole /\ got.strlen = Len(whole)
    BY <1>6 DEF Result
  <1>9. Copied(x, got)
    BY <1>2, <1>4, <1>5, <1>7, <1>8 DEF Copied
  <1> QED BY <1>4, <1>8, <1>9 DEF got

\* ... and when a character, and perhaps a part of it, is the last that fits.
PartCopied(x, n, part, m) ==
  Result(At(x, SubSeq(x.chars, n + 2, Len(x.chars)), SubSeq(x.chars[n + 1], part + 1, Len(x.chars[n + 1]))), "with_info",
         (x.residual \o Converted(SubSeq(x.chars, 1, n))) \o SubSeq(x.chars[n + 1], 1, part), m)

PartFits(x, n, part) ==
  Ready(x) /\ x.pos = "at" /\ n \in 0..Len(x.chars) /\ n # Len(x.chars) /\ part \in 0..Len(x.chars[n + 1])

LEMMA CopyPart ==
  ASSUME NEW x, NEW n, NEW part, PartFits(x, n, part), NEW m, m \in Nat
  PROVE  Copied(x, PartCopied(x, n, part, m)) /\ PartCopied(x, n, part, m).strlen = m
  <1> DEFINE got == PartCopied(x, n, part, m)
             head == Converted(SubSeq(x.chars, 1, n))
             whole == x.residual \o head
             next == x.chars[n + 1]
             c == SubSeq(x.chars, n + 2, Len(x.chars))
             tail == Converted(c)
             r == SubSeq(next, part + 1, Len(next))
             p == SubSeq(next, 1, part)
             y == At(x, c, r)
  <1> USE DEF PartFits
  <1>1. x \in Contexts /\ x.chars \in Seq(Seq(Byte)) /\ x.residual \in Seq(Byte)
    BY DEF Ready, Contexts
  <1>2. n < Len(x.chars)
    BY <1>1
  <1>3. Converted(x.chars) = head \o (next \o tail) /\ c \in Seq(Seq(Byte)) /\ next \in Seq(Byte)
    BY <1>1, <1>2, FlattenBetween DEF Converted
  <1>4. tail \in Seq(Byte) /\ head \in Seq(Byte)
    <2>1. SubSeq(x.chars, 1, n) \in Seq(Seq(Byte))
      BY <1>1, FlattenParts
    <2> QED BY <1>3, <2>1, FlattenType DEF Converted
  <1>5. r \in Seq(Byte) /\ p \in Seq(Byte) /\ p \o r = next
    BY <1>3, Halves
  <1>8. got = Result(y, "with_info", whole \o p, m)
    BY DEF PartCopied
  <1> HIDE DEF got, r, p, next, head, c
  <1>9. Same(x, y) /\ Ready(y) /\ y.pos = "at" /\ Remaining(y) = r \o tail
    BY <1>1, <1>3, <1>5, Changed
  <1> HIDE DEF tail, y
  <1>10. whole \in Seq(Byte) /\ whole \o p \in Seq(Byte)
    <2>1. whole \in Seq(Byte)
      BY <1>1, <1>4, Joined
    <2> HIDE DEF whole
    <2> QED BY <1>5, <2>1, Joined
  <1>11. Remaining(x) = (whole \o p) \o Remaining(y)
    <2> DEFINE left == r \o tail
    <2>1. left \in Seq(Byte)
      BY <1>4, <1>5, Joined
    <2>2. next \o tail = p \o left
      BY <1>4, <1>5, Regrouped
    <2> HIDE DEF left
    <2>3. p \o left \in Seq(Byte)
      BY <1>5, <2>1, Joined
    <2>4. x.residual \o (head \o (p \o left)) = whole \o (p \o left)
      BY <1>1, <1>4, <2>3, Regrouped
    <2>6. whole \o (p \o left) = (whole \o p) \o left
      <3>1. whole \in Seq(Byte) /\ p \in Seq(Byte) /\ left \in Seq(Byte)
        BY <1>5, <1>10, <2>1
      <3> HIDE DEF whole
      <3> QED BY <3>1, Regrouped
    <2>5. Remaining(x) = x.residual \o Converted(x.chars)
      BY DEF Remaining
    <2> QED BY <1>3, <1>9, <2>2, <2>4, <2>5, <2>6 DEF left
  <1>12. "with_info" \in Returns /\ "with_info" # "success"
    BY DEF Returns
  <1> DEFINE out == whole \o p
  <1> HIDE DEF whole
  <1>13. got.ctx = y /\ got.ret = "with_info" /\ got.piece = out /\ got.strlen = m
    BY <1>8 DEF Result, out
  <1>14. out \in Seq(Byte) /\ Remaining(x) = out \o Remaining(y)
    BY <1>10, <1>11
  <1> HIDE DEF out
  <1>15. Copied(x, got)
    BY <1>9, <1>12, <1>13, <1>14 DEF Copied
  <1> QED BY <1>13, <1>15 DEF got

LEMMA CopyText ==
  ASSUME NEW x, Ready(x), NEW size \in Nat, NEW unit \in {1, 2}, NEW got, got = copy_buf_to_text(x, size, unit)
  PROVE  TextCopied(x, got, size, unit)
  <1> DEFINE room == Room(size, unit)
             rest == Converted(x.chars)
             n    == Fit(x.chars, room - Len(x.residual))
             head == Converted(SubSeq(x.chars, 1, n))
             whole == x.residual \o head
             next == x.chars[n + 1]
             part == Min({Len(next), room - Len(whole)})
             remains == Len(rest) + Len(x.residual)
  <1>1. x \in Contexts /\ x.pos \in {"at", "end"} /\ x.chars \in Seq(Seq(Byte)) /\ x.residual \in Seq(Byte)
    BY DEF Ready, Contexts
  <1>2. rest \in Seq(Byte) /\ Remaining(x) \in Seq(Byte)
    BY <1>1, RemainingType
  <1>3. Same(x, x) /\ <<>> \in Seq(Byte) /\ Len(<<>>) = 0
    BY <1>1 DEF Same
  <1>4. Len(rest) \in Nat /\ Len(x.residual) \in Nat /\ Len(x.residual \o rest) = remains
    <2> HIDE DEF rest
    <2>1. Len(x.residual) \in Nat /\ Len(x.residual \o rest) = Len(x.residual) + Len(rest)
      BY <1>1, <1>2, Joined
    <2>2. Len(rest) \in Nat
      BY <1>2, LenProperties
    <2> QED BY <2>1, <2>2
  <1>7. remains \in Nat
    <2> HIDE DEF rest
    <2> QED BY <1>4
  <1>5. CASE x.pos = "end"
    <2>1. got = Result(x, "no_data", <<>>, 0) /\ Remaining(x) = <<>>
      BY <1>5 DEF copy_buf_to_text, Remaining
    <2>2. Remaining(x) = <<>> \o Remaining(x) /\ "no_data" \in Returns /\ "no_data" # "success" /\ 0 \in Nat
      BY <1>2, Nothing DEF Returns
    <2>4. got.ctx = x /\ got.ret = "no_data" /\ got.piece = <<>> /\ got.strlen = 0
      BY <2>1, Told
    <2>3. Copied(x, got) /\ got.ret = "no_data" /\ got.ctx = x
      BY <1>3, <2>2, <2>4 DEF Copied
    <2> QED BY <1>5, <2>3 DEF TextCopied
  <1>6. CASE x.pos # "end"
    <2>1. Remaining(x) = x.residual \o rest /\ x.pos = "at"
      BY <1>1, <1>6 DEF Remaining
    <2>2. CASE size <= unit
      <3>1. got = Result(x, "with_info", <<>>, remains)
        BY <1>6, <2>2 DEF copy_buf_to_text
      <3>2. Remaining(x) = <<>> \o Remaining(x) /\ "with_info" \in Returns /\ "with_info" # "success"
        BY <1>2, Nothing DEF Returns
      <3>3. Copied(x, got) /\ got.ret = "with_info" /\ got.ctx = x /\ got.strlen = remains
        <4> HIDE DEF remains
        <4>1. got.ctx = x /\ got.ret = "with_info" /\ got.piece = <<>> /\ got.strlen = remains
          BY <3>1, Told
        <4> QED BY <1>3, <1>7, <2>1, <3>2, <4>1 DEF Copied
      <3> QED BY <1>4, <2>1, <3>3 DEF TextCopied
    <2>3. CASE ~(size <= unit)
      <3>1. room \in Nat
        <4>1. size > unit
          BY <2>3
        <4> QED BY <4>1, RoomNat
      <3>2. CASE Len(x.residual) > room
        <4>0. got = Result([x EXCEPT !.residual = SubSeq(@, room + 1, Len(@))], "with_info", SubSeq(x.residual, 1, room), remains)
          BY <1>6, <2>3, <3>2 DEF copy_buf_to_text
        <4>1. got = Result(At(x, x.chars, SubSeq(x.residual, room + 1, Len(x.residual))), "with_info",
                           SubSeq(x.residual, 1, room), remains)
          BY <1>1, <2>1, <4>0 DEF At, Contexts
        <4> HIDE DEF remains, room
        <4>3. Copied(x, got) /\ got.strlen = remains /\ x.residual # <<>>
          BY <1>7, <2>1, <3>1, <3>2, <4>1, CopyResidual
        <4> QED BY <1>4, <2>1, <4>3 DEF TextCopied
      <3>3. CASE ~(Len(x.residual) > room)
        <4>1. room - Len(x.residual) \in Nat
          BY <1>4, <3>1, <3>3
        <4>2. /\ n \in 0..Len(x.chars) /\ Len(head) <= room - Len(x.residual)
              /\ Len(rest) <= room - Len(x.residual) => n = Len(x.chars)
          BY <1>1, <4>1, FitIs
        <4>3. CASE n = Len(x.chars)
          <5>1. got = Result(AtEnd(x), "success", whole, Len(whole))
            BY <1>6, <2>3, <3>3, <4>3 DEF copy_buf_to_text, AtEnd
          <5>2. SubSeq(x.chars, 1, n) = x.chars
            BY <1>1, <4>3, SubSeqFull
          <5>3. whole = x.residual \o Converted(x.chars)
            BY <5>2
          <5> HIDE DEF whole
          <5>5. got = AllCopied(x)
            BY <5>1, <5>3 DEF AllCopied
          <5>4. Copied(x, got) /\ got.ret = "success" /\ got.ctx.residual = <<>>
            BY <2>1, <5>5, CopyAll
          <5> QED BY <5>4 DEF TextCopied
        <4>4. CASE n # Len(x.chars)
          <5>0. got = Result([x EXCEPT !.chars = SubSeq(@, n + 2, Len(@)), !.residual = SubSeq(next, part + 1, Len(next))],
                             "with_info", whole \o SubSeq(next, 1, part), remains)
            BY <1>6, <2>3, <3>3, <4>4 DEF copy_buf_to_text
          <5>1. got = Result(At(x, SubSeq(x.chars, n + 2, Len(x.chars)), SubSeq(next, part + 1, Len(next))),
                             "with_info", whole \o SubSeq(next, 1, part), remains)
            BY <1>1, <2>1, <5>0 DEF At, Contexts
          <5>2. part \in 0..Len(next)
            <6>1. next \in Seq(Byte)
              <7>1. n + 1 \in 1..Len(x.chars)
                BY <1>1, <4>2, <4>4
              <7> HIDE DEF n
              <7> QED BY <1>1, <7>1
            <6>2. SubSeq(x.chars, 1, n) \in Seq(Seq(Byte))
              BY <1>1, <4>2, FlattenParts
            <6>3. head \in Seq(Byte)
              BY <6>2, FlattenType DEF Converted
            <6> HIDE DEF next, head
            <6>4. Len(next) \in Nat /\ Len(whole) = Len(x.residual) + Len(head) /\ Len(head) \in Nat
              BY <1>1, <6>1, <6>3, Joined
            <6>5. room - Len(whole) \in Nat
              <7>1. room \in Nat /\ Len(head) <= room - Len(x.residual) /\ Len(x.residual) \in Nat
                BY <1>4, <3>1, <4>2 DEF head
              <7> HIDE DEF room, n, rest, whole
              <7> QED BY <6>4, <7>1
            <6>6. \A a, b \in Nat : Min({a, b}) = IF a <= b THEN a ELSE b
              BY DEF Min
            <6> HIDE DEF whole
            <6> QED BY <6>4, <6>5, <6>6
          <5> HIDE DEF part, n, remains
          <5>4. Copied(x, got) /\ got.strlen = remains
            <6>1. got = PartCopied(x, n, part, remains)
              BY <5>1 DEF PartCopied
            <6>2. PartFits(x, n, part)
              BY <2>1, <4>2, <4>4, <5>2 DEF PartFits
            <6>3. Copied(x, PartCopied(x, n, part, remains)) /\ PartCopied(x, n, part, remains).strlen = remains
              BY <1>7, <6>2, CopyPart
            <6> QED BY <6>1, <6>3
          <5>5. ~(x.residual = <<>> /\ Len(Remaining(x)) <= room)
            <6> SUFFICES ASSUME x.residual = <<>>, Len(Remaining(x)) <= room PROVE FALSE
              OBVIOUS
            <6>1. Len(x.residual) = 0 /\ Len(Remaining(x)) = Len(rest)
              BY <1>3, <1>4, <2>1 DEF remains
            <6>2. Len(rest) <= room - Len(x.residual)
              BY <3>1, <6>1
            <6> QED BY <4>2, <4>4, <6>2
          <5> QED BY <1>4, <2>1, <5>4, <5>5 DEF TextCopied
        <4> QED BY <4>3, <4>4
      <3> QED BY <3>2, <3>3
    <2> QED BY <2>2, <2>3
  <1> QED BY <1>5, <1>6

\* Bytes: every character is one.
Units(x) == \A i \in 1..Len(x.chars) : Len(x.chars[i]) = 1

BinaryCopied(x, got, told_after) ==
  /\ Copied(x, got) /\ got.ctx.residual = <<>> /\ Units(got.ctx)
  /\ got.ret = "with_info" => got.strlen = Len(Remaining(IF told_after THEN got.ctx ELSE x))

LEMMA CopyBinary ==
  ASSUME NEW x, Ready(x), x.residual = <<>>, Units(x), NEW size \in Nat, NEW told_after \in BOOLEAN, NEW got,
         got = copy_to_binary(x, size, told_after)
  PROVE  BinaryCopied(x, got, told_after)
  <1> DEFINE n == Min({size, Len(x.chars)})
             p == Converted(SubSeq(x.chars, 1, n))
             c == SubSeq(x.chars, n + 1, Len(x.chars))
             rest == Converted(x.chars)
  <1>1. x \in Contexts /\ x.pos \in {"at", "end"} /\ x.chars \in Seq(Seq(Byte)) /\ x.residual \in Seq(Byte)
    BY DEF Ready, Contexts
  <1>2. rest \in Seq(Byte) /\ Remaining(x) \in Seq(Byte)
    BY <1>1, RemainingType
  <1>3. Same(x, x) /\ <<>> \in Seq(Byte) /\ Remaining(x) = <<>> \o Remaining(x) /\ 0 \in Nat
    BY <1>1, <1>2, Nothing DEF Same
  <1>4. n \in 0..Len(x.chars) /\ Len(x.chars) \in Nat /\ n \in Nat
    <2>1. \A a, b \in Nat : Min({a, b}) = IF a <= b THEN a ELSE b
      BY DEF Min
    <2>2. Len(x.chars) \in Nat
      BY <1>1
    <2> QED BY <2>1, <2>2
  <1>5. rest = p \o Converted(c) /\ c \in Seq(Seq(Byte)) /\ SubSeq(x.chars, 1, n) \in Seq(Seq(Byte))
    BY <1>1, <1>4, FlattenParts DEF Converted
  <1>6. p \in Seq(Byte) /\ Converted(c) \in Seq(Byte)
    BY <1>5, FlattenType DEF Converted
  <1>7. x.pos = "at" => Remaining(x) = rest
    BY <1>2, Nothing DEF Remaining
  <1>8. CASE x.pos = "end" \/ (size = 0 /\ ~told_after)
    <2>1. \E r \in {"no_data", "error"} : got = Result(x, r, <<>>, 0)
      BY <1>8 DEF copy_to_binary, Failed
    <2>2. PICK r \in {"no_data", "error"} : got = Result(x, r, <<>>, 0)
      BY <2>1
    <2>3. got.ctx = x /\ got.ret = r /\ got.piece = <<>> /\ got.strlen = 0
      BY <2>2, Told
    <2>4. Copied(x, got)
      BY <1>3, <2>3 DEF Copied, Returns
    <2> QED BY <2>3, <2>4 DEF BinaryCopied
  <1>9. CASE ~(x.pos = "end" \/ (size = 0 /\ ~told_after))
    <2>1. x.pos = "at"
      BY <1>1, <1>9
    <2>2. CASE n = Len(x.chars)
      <3>1. got = Result([x EXCEPT !.pos = "end", !.chars = <<>>], "success", p, n)
        BY <1>9, <2>2 DEF copy_to_binary
      <3>2. [x EXCEPT !.pos = "end", !.chars = <<>>] = AtEnd(x)
        BY <1>1 DEF AtEnd, Contexts
      <3>3. got = Result(AtEnd(x), "success", p, n)
        BY <3>1, <3>2
      <3>4. got.ctx = AtEnd(x) /\ got.ret = "success" /\ got.piece = p /\ got.strlen = n
        BY <3>3, Told
      <3>5. /\ Same(x, AtEnd(x)) /\ Ready(AtEnd(x)) /\ AtEnd(x).pos = "end" /\ AtEnd(x).residual = <<>>
            /\ Remaining(AtEnd(x)) = <<>>
        BY <1>1, Ended
      <3>6. Len(AtEnd(x).chars) = 0
        BY <1>1, Nothing DEF AtEnd, Contexts
      <3>7. p = rest
        BY <1>1, <2>2, SubSeqFull
      <3>8. Remaining(x) = p \o Remaining(AtEnd(x))
        BY <1>2, <1>7, <2>1, <3>5, <3>7, Nothing
      <3> HIDE DEF p
      <3>9. Copied(x, got)
        BY <1>4, <1>6, <3>4, <3>5, <3>8 DEF Copied, Returns
      <3>10. Units(AtEnd(x))
        BY <3>6 DEF Units
      <3> QED BY <3>4, <3>5, <3>9, <3>10 DEF BinaryCopied
    <2>3. CASE n # Len(x.chars)
      <3> DEFINE m == IF told_after THEN Len(x.chars) - n ELSE Len(x.chars)
      <3>1. got = Result([x EXCEPT !.chars = c], "with_info", p, m)
        BY <1>9, <2>3 DEF copy_to_binary
      <3>2. [x EXCEPT !.chars = c] = At(x, c, <<>>)
        BY <1>1, <2>1 DEF At, Contexts
      <3>3. got = Result(At(x, c, <<>>), "with_info", p, m)
        BY <3>1, <3>2
      <3>4. got.ctx = At(x, c, <<>>) /\ got.ret = "with_info" /\ got.piece = p /\ got.strlen = m
        <4> HIDE DEF m, p, c
        <4> QED BY <3>3, Told
      <3>5. /\ Same(x, At(x, c, <<>>)) /\ Ready(At(x, c, <<>>)) /\ At(x, c, <<>>).pos = "at"
            /\ Remaining(At(x, c, <<>>)) = <<>> \o Converted(c)
        BY <1>1, <1>3, <1>5, Changed
      <3>6. Remaining(At(x, c, <<>>)) = Converted(c)
        BY <1>6, <3>5, Nothing
      <3>7. At(x, c, <<>>).chars = c /\ At(x, c, <<>>).residual = <<>>
        BY <1>1 DEF At, Contexts
      <3>8. Len(c) = Len(x.chars) - n /\ \A i \in 1..Len(c) : Len(c[i]) = 1
        <4>1. Len(c) = Len(x.chars) - n
          BY <1>1, <1>4
        <4>2. ASSUME NEW i \in 1..Len(c) PROVE Len(c[i]) = 1
          <5>1. i + n \in 1..Len(x.chars) /\ (n + 1) + i - 1 = i + n /\ i \in Nat /\ i <= Len(x.chars) - n
            <6> HIDE DEF n, c
            <6> QED BY <1>4, <4>1
          <5>2. \A k \in 1..(Len(x.chars) - n) : c[k] = x.chars[(n + 1) + k - 1]
            <6>1. \A j \in (n + 1)..Len(x.chars) : x.chars[j] \in Seq(Byte)
              BY <1>1, <1>4
            <6>2. Len(x.chars) - (n + 1) + 1 = Len(x.chars) - n /\ n + 1 \in Int /\ Len(x.chars) \in Int
              BY <1>4
            <6> HIDE DEF n
            <6> QED BY <6>1, <6>2, SubSeqProperties
          <5>3. c[i] = x.chars[i + n]
            BY <4>1, <5>1, <5>2
          <5> QED BY <5>1, <5>3 DEF Units
        <4> QED BY <4>1, <4>2
      <3> HIDE DEF p, c
      <3>9. Copied(x, got)
        <4>1. m \in Nat
          BY <1>4
        <4>2. Remaining(x) = p \o Remaining(At(x, c, <<>>))
          BY <1>5, <1>7, <2>1, <3>6
        <4> HIDE DEF m
        <4> QED BY <1>6, <3>4, <3>5, <4>1, <4>2 DEF Copied, Returns
      <3>10. Len(Converted(c)) = Len(c)
        BY <1>5, <3>8, FlattenUnits DEF Converted
      <3>11. Len(rest) = Len(x.chars)
        BY <1>1, FlattenUnits DEF Converted, Units
      <3>12. got.strlen = Len(Remaining(IF told_after THEN got.ctx ELSE x))
        <4>1. CASE told_after
          BY <3>4, <3>6, <3>8, <3>10, <4>1
        <4>2. CASE ~told_after
          BY <1>7, <2>1, <3>4, <3>11, <4>2
        <4> QED BY <4>1, <4>2
      <3>13. Units(got.ctx) /\ got.ctx.residual = <<>>
        BY <3>4, <3>7, <3>8 DEF Units
      <3> QED BY <3>9, <3>12, <3>13 DEF BinaryCopied
    <2> QED BY <2>2, <2>3
  <1> QED BY <1>8, <1>9

-----------------------------------------------------------------------------
(* One call: the preparation of a value and its copy.                      *)

VarKinds == {"text", "bytes", "number"}
TextTargets == {"char", "wchar"}
Values == [row : 1..Rows, col : Readable]

\* x holds v, of which the bytes g have been handed out.
InPieces(x, v) == Kind[v.col] \in VarKinds /\ x.target \in VarTargets
Holds(x, v, g) ==
  /\ x \in Contexts /\ x.tsdb = v /\ x.col = v.col
  /\ InPieces(x, v) => /\ Ready(x) /\ g \o Remaining(x) = Whole(v, x.target)
                       /\ x.target = "binary" => Units(x)

\* Only a text in the middle leaves bytes of a character behind.
Mid(x, v) == x.tsdb = v /\ x.pos = "at" /\ x.target \in TextTargets /\ Kind[x.col] \in {"text", "number"}
Clean(x, v) == x.residual = <<>> \/ Mid(x, v)

\* What an answer says of v when g are the bytes handed out with it.
TellsOf(x, v, g, r, p, n) ==
  (r \in {"success", "with_info"} /\ x.target \in VarTargets /\ n # NullData) =>
    /\ Kind[v.col] \in VarKinds
    /\ r = "success" => x.pos = "end"
    /\ r = "with_info" => n = Len(Whole(v, x.target)) - Len(g) + (IF Kind[v.col] = "bytes" THEN 0 ELSE Len(p))

Serves(x, v, g, got) ==
  /\ Holds(got.ctx, v, g \o got.piece) /\ Clean(got.ctx, v) /\ got.ctx.target = x.target
  /\ got.ret \in Returns /\ got.piece \in Seq(Byte)
  /\ TellsOf(got.ctx, v, g \o got.piece, got.ret, got.piece, got.strlen)

LEMMA NoCopy ==
  ASSUME NEW x, NEW v, NEW g \in Seq(Byte), Holds(x, v, g), Clean(x, v), NEW r, r \in Returns, NEW n,
         r \in {"success", "with_info"} => n = NullData
  PROVE  Serves(x, v, g, Result(x, r, <<>>, n))
  <1> DEFINE got == Result(x, r, <<>>, n)
  <1>1. got.ctx = x /\ got.ret = r /\ got.piece = <<>> /\ got.strlen = n
    BY Told
  <1>2. g \o got.piece = g /\ got.piece \in Seq(Byte)
    BY <1>1, Nothing
  <1> HIDE DEF got
  <1> QED BY <1>1, <1>2 DEF Serves, TellsOf, got

\* After a copy, what was and is handed out and what is left make up the value.
LEMMA CopyHolds ==
  ASSUME NEW x, NEW v, NEW g \in Seq(Byte), Holds(x, v, g), InPieces(x, v), NEW got, Copied(x, got),
         Units(got.ctx) \/ x.target # "binary"
  PROVE  /\ Holds(got.ctx, v, g \o got.piece) /\ got.ctx.target = x.target /\ got.ctx.col = x.col
         /\ got.ret \in Returns /\ got.piece \in Seq(Byte) /\ got.strlen \in Nat
         /\ got.ret = "success" => got.ctx.pos = "end"
         /\ Len(Remaining(x)) = Len(Whole(v, x.target)) - Len(g \o got.piece) + Len(got.piece)
         /\ Len(Remaining(got.ctx)) = Len(Whole(v, x.target)) - Len(g \o got.piece)
  <1> DEFINE y == got.ctx
             p == got.piece
  <1>1. Same(x, y) /\ Ready(y) /\ p \in Seq(Byte) /\ Remaining(x) = p \o Remaining(y)
    BY DEF Copied
  <1>2. y \in Contexts /\ y.col = x.col /\ y.target = x.target /\ y.tsdb = x.tsdb
    BY <1>1 DEF Same
  <1>3. Remaining(y) \in Seq(Byte) /\ Remaining(x) \in Seq(Byte)
    BY <1>2, RemainingType DEF Holds
  <1> HIDE DEF y, p
  <1>4. g \o Remaining(x) = (g \o p) \o Remaining(y)
    BY <1>1, <1>3, Regrouped
  <1>5. g \o Remaining(x) = Whole(v, x.target)
    BY DEF Holds
  <1>6. Holds(y, v, g \o p)
    BY <1>1, <1>2, <1>4, <1>5 DEF Holds, y
  <1>7. /\ Len(g \o Remaining(x)) = Len(g) + Len(Remaining(x)) /\ Len(g) \in Nat
        /\ Len(Remaining(x)) = Len(p) + Len(Remaining(y)) /\ Len(p) \in Nat
        /\ Len(g \o p) = Len(g) + Len(p)
    BY <1>1, <1>3, Joined
  <1>8. Len(Remaining(y)) \in Nat
    BY <1>3, LenProperties
  <1>9. /\ Len(Remaining(x)) = Len(Whole(v, x.target)) - Len(g \o p) + Len(p)
        /\ Len(Remaining(y)) = Len(Whole(v, x.target)) - Len(g \o p)
    BY <1>5, <1>7, <1>8
  <1>10. got.ret \in Returns /\ got.strlen \in Nat /\ (got.ret = "success" => got.ctx.pos = "end")
    BY DEF Copied
  <1> QED BY <1>1, <1>2, <1>6, <1>9, <1>10 DEF y, p

\* A buffer in which the whole of v has room.
Roomy(v, tg, size) ==
  tg \in TextTargets /\ Kind[v.col] \in {"text", "number"} => Len(Whole(v, tg)) <= Room(size, Unit(tg))

\* From a value not begun, such a buffer takes all of it.
Neat(x, v, g, size, got) ==
  (g = <<>> /\ x.residual = <<>> /\ Roomy(v, x.target, size)) => got.ctx.residual = <<>>

LEMMA BinaryServes ==
  ASSUME NEW x, NEW v, NEW g \in Seq(Byte), Holds(x, v, g), Clean(x, v), InPieces(x, v), x.target = "binary",
         NEW got, NEW after, BinaryCopied(x, got, after), after <=> Kind[v.col] = "bytes"
  PROVE  Serves(x, v, g, got) /\ got.ctx.residual = <<>>
  <1> DEFINE k == Kind[v.col]
  <1>1. Copied(x, got) /\ Units(got.ctx) /\ got.ctx.residual = <<>>
    BY DEF BinaryCopied
  <1>3. /\ Holds(got.ctx, v, g \o got.piece) /\ got.ctx.target = x.target /\ got.ctx.col = x.col
        /\ got.ret \in Returns /\ got.piece \in Seq(Byte) /\ got.strlen \in Nat
        /\ got.ret = "success" => got.ctx.pos = "end"
        /\ Len(Remaining(x)) = Len(Whole(v, x.target)) - Len(g \o got.piece) + Len(got.piece)
        /\ Len(Remaining(got.ctx)) = Len(Whole(v, x.target)) - Len(g \o got.piece)
    BY <1>1, CopyHolds
  <1>4. got.ret = "with_info" =>
          got.strlen = Len(Whole(v, x.target)) - Len(g \o got.piece) + (IF k = "bytes" THEN 0 ELSE Len(got.piece))
    <2> SUFFICES ASSUME got.ret = "with_info"
                 PROVE  got.strlen = Len(Whole(v, x.target)) - Len(g \o got.piece) + (IF k = "bytes" THEN 0 ELSE Len(got.piece))
      OBVIOUS
    <2>1. got.strlen = Len(Remaining(IF after THEN got.ctx ELSE x))
      BY DEF BinaryCopied
    <2>2. CASE after
      <3>1. got.strlen = Len(Remaining(got.ctx)) /\ k = "bytes" /\ got.strlen \in Nat
        BY <1>3, <2>1, <2>2
      <3> QED BY <1>3, <3>1
    <2>3. CASE ~after
      <3>1. got.strlen = Len(Remaining(x)) /\ k # "bytes"
        BY <2>1, <2>3
      <3> QED BY <1>3, <3>1
    <2> QED BY <2>2, <2>3
  <1>5. k \in VarKinds
    BY DEF InPieces
  <1>6. TellsOf(got.ctx, v, g \o got.piece, got.ret, got.piece, got.strlen)
    BY <1>3, <1>4, <1>5 DEF TellsOf
  <1>7. Clean(got.ctx, v)
    BY <1>1 DEF Clean
  <1> QED BY <1>1, <1>3, <1>6, <1>7 DEF Serves

LEMMA TextServes ==
  ASSUME NEW x, NEW v, NEW g \in Seq(Byte), Holds(x, v, g), Clean(x, v), InPieces(x, v), x.target \in TextTargets,
         NEW got, NEW size, TextCopied(x, got, size, Unit(x.target)), Kind[v.col] # "bytes"
  PROVE  Serves(x, v, g, got) /\ Neat(x, v, g, size, got)
  <1>1. Copied(x, got) /\ (got.ret = "with_info" => got.strlen = Len(Remaining(x)))
    BY DEF TextCopied
  <1>2. x.target # "binary"
    BY DEF TextTargets
  <1>3. /\ Holds(got.ctx, v, g \o got.piece) /\ got.ctx.target = x.target /\ got.ctx.col = x.col
        /\ got.ret \in Returns /\ got.piece \in Seq(Byte) /\ got.strlen \in Nat
        /\ got.ret = "success" => got.ctx.pos = "end"
        /\ Len(Remaining(x)) = Len(Whole(v, x.target)) - Len(g \o got.piece) + Len(got.piece)
        /\ Len(Remaining(got.ctx)) = Len(Whole(v, x.target)) - Len(g \o got.piece)
    BY <1>1, <1>2, CopyHolds
  <1>4. Kind[v.col] \in VarKinds /\ Kind[v.col] # "bytes"
    BY DEF InPieces
  <1>5. TellsOf(got.ctx, v, g \o got.piece, got.ret, got.piece, got.strlen)
    BY <1>1, <1>3, <1>4 DEF TellsOf
  <1>6. Ready(got.ctx) /\ got.ctx.tsdb = v
    BY <1>1, <1>3 DEF Copied, Holds
  <1>7. Kind[got.ctx.col] \in {"text", "number"}
    BY <1>3, <1>4 DEF VarKinds, Holds
  <1>8. Clean(got.ctx, v)
    BY <1>3, <1>6, <1>7 DEF Clean, Mid, Ready
  <1>9. Neat(x, v, g, size, got)
    <2> SUFFICES ASSUME g = <<>>, x.residual = <<>>, Roomy(v, x.target, size)
                 PROVE  got.ctx.residual = <<>>
      BY DEF Neat
    <2>1. Remaining(x) \in Seq(Byte)
      BY RemainingType DEF Holds
    <2>2. Remaining(x) = Whole(v, x.target)
      BY <2>1, Nothing DEF Holds
    <2>3. Kind[v.col] \in {"text", "number"}
      BY <1>4 DEF VarKinds
    <2> QED BY <2>2, <2>3 DEF Roomy, TextCopied
  <1> QED BY <1>3, <1>5, <1>8, <1>9 DEF Serves

\* One copy serves the value.
LEMMA CopyServes ==
  ASSUME NEW x, NEW v \in Values, NEW g \in Seq(Byte), Holds(x, v, g), Clean(x, v),
         NEW size \in Nat, NEW ind \in BOOLEAN
  PROVE  /\ Serves(x, v, g, _stmt_get_data_copy(x, size, ind))
         /\ Neat(x, v, g, size, _stmt_get_data_copy(x, size, ind))
  <1> DEFINE got == _stmt_get_data_copy(x, size, ind)
             k == Kind[v.col]
             Good(res) == Serves(x, v, g, res) /\ Neat(x, v, g, size, res)
  <1>1. x \in Contexts /\ x.tsdb = v /\ x.col = v.col /\ v.row \in 1..Rows /\ v.col \in Columns
    BY DEF Holds, Values, Readable
  <1>2. v # NoValue
    BY <1>1 DEF NoValue
  <1>3. k \in {"text", "bytes", "number", "null"}
    <2>1. Kind \in [Columns -> Kinds]
      BY ConstAssumption
    <2>2. v.col \in Readable
      BY DEF Values
    <2> QED BY <2>1, <2>2 DEF Readable, Kinds
  <1>4. x.target \in {"char", "wchar", "binary", "long"}
    BY <1>1 DEF Contexts, Targets, VarTargets
  <1>5. {"success", "with_info", "no_data", "error"} \subseteq Returns
    BY DEF Returns
  <1>6. Good(Failed(x))
    <2>1. Serves(x, v, g, Failed(x))
      BY <1>5, NoCopy DEF Failed
    <2>2. Failed(x).ctx = x
      BY Told DEF Failed
    <2> QED BY <2>1, <2>2 DEF Neat
  <1>7. CASE k = "null"
    <2>1. got = IF ind THEN Result(x, "success", <<>>, NullData) ELSE Failed(x)
      BY <1>1, <1>2, <1>7 DEF _stmt_get_data_copy
    <2>2. Serves(x, v, g, Result(x, "success", <<>>, NullData))
      BY <1>5, NoCopy
    <2>3. Result(x, "success", <<>>, NullData).ctx = x
      BY Told
    <2>4. Good(Result(x, "success", <<>>, NullData))
      BY <2>2, <2>3 DEF Neat
    <2> HIDE DEF Good
    <2>5. Good(got)
      BY <1>6, <2>1, <2>4
    <2> QED BY <2>5 DEF Good
  <1>8. CASE k # "null" /\ x.target = "long"
    <2> DEFINE res == Result(x, "success", <<>>, 0)
    <2>1. got = res \/ got = Failed(x)
      BY <1>1, <1>2, <1>8 DEF _stmt_get_data_copy, copy_fixed
    <2>2. Good(res)
      <3>1. res.ctx = x /\ res.ret = "success" /\ res.piece = <<>> /\ res.strlen = 0
        BY Told
      <3>2. g \o res.piece = g /\ res.piece \in Seq(Byte)
        BY <3>1, Nothing
      <3>3. x.target \notin VarTargets
        BY <1>8 DEF VarTargets
      <3> HIDE DEF res
      <3>4. TellsOf(x, v, g, res.ret, res.piece, res.strlen)
        BY <3>3 DEF TellsOf
      <3> QED BY <1>5, <3>1, <3>2, <3>4 DEF Serves, Neat
    <2> HIDE DEF Good, res
    <2>3. Good(got)
      BY <1>6, <2>1, <2>2
    <2> QED BY <2>3 DEF Good
  <1>9. CASE k # "null" /\ x.target # "long"
    <2>1. InPieces(x, v) /\ Ready(x)
      BY <1>3, <1>4, <1>9 DEF InPieces, VarKinds, VarTargets, Holds
    <2>2. ASSUME x.target = "binary", NEW after \in BOOLEAN, after <=> k = "bytes"
          PROVE  Good(copy_to_binary(x, size, after))
      <3> DEFINE res == copy_to_binary(x, size, after)
      <3>1. x.residual = <<>>
        BY <2>2 DEF Clean, Mid, TextTargets
      <3>2. Units(x)
        BY <2>1, <2>2 DEF Holds
      <3>3. BinaryCopied(x, res, after)
        BY <2>1, <2>2, <3>1, <3>2, CopyBinary
      <3> HIDE DEF res
      <3>4. Serves(x, v, g, res) /\ res.ctx.residual = <<>>
        BY <2>1, <2>2, <3>3, BinaryServes
      <3> QED BY <3>4 DEF Neat, res
    <2>3. ASSUME NEW unit \in {1, 2}, x.target \in TextTargets, unit = Unit(x.target), k # "bytes"
          PROVE  Good(copy_buf_to_text(x, size, unit))
      <3> DEFINE res == copy_buf_to_text(x, size, unit)
      <3>1. TextCopied(x, res, size, Unit(x.target))
        BY <2>1, <2>3, CopyText
      <3> HIDE DEF res
      <3>2. Serves(x, v, g, res) /\ Neat(x, v, g, size, res)
        BY <2>1, <2>3, <3>1, TextServes
      <3> QED BY <3>2 DEF res
    <2>4. CASE k = "bytes"
      <3>1. got = IF x.target = "binary" THEN copy_to_binary(x, size, TRUE) ELSE Failed(x)
        BY <1>1, <1>2, <2>4 DEF _stmt_get_data_copy
      <3> HIDE DEF Good
      <3>2. TRUE \in BOOLEAN /\ (x.target = "binary" => Good(copy_to_binary(x, size, TRUE)))
        BY <2>2, <2>4
      <3>3. Good(got)
        BY <1>6, <3>1, <3>2
      <3> QED BY <3>3 DEF Good
    <2>5. CASE k # "bytes"
      <3>1. got = CASE x.target \in {"char", "wchar"} -> copy_buf_to_text(x, size, Unit(x.target))
                    [] x.target = "binary" -> copy_to_binary(x, size, FALSE)
                    [] x.target = "long"   -> copy_fixed(x)
        BY <1>1, <1>2, <1>9, <2>5 DEF _stmt_get_data_copy
      <3> HIDE DEF Good, got
      <3>2. ASSUME x.target \in TextTargets PROVE Good(got)
        <4>1. Unit(x.target) \in {1, 2}
          BY DEF Unit
        <4>2. Good(copy_buf_to_text(x, size, Unit(x.target)))
          BY <2>3, <2>5, <3>2, <4>1
        <4>3. got = copy_buf_to_text(x, size, Unit(x.target))
          BY <3>1, <3>2 DEF TextTargets
        <4> QED BY <4>2, <4>3
      <3>4. ASSUME x.target = "binary" PROVE Good(got)
        <4>1. FALSE \in BOOLEAN /\ (FALSE <=> k = "bytes")
          BY <2>5
        <4>2. Good(copy_to_binary(x, size, FALSE))
          BY <2>2, <3>4, <4>1
        <4>3. got = copy_to_binary(x, size, FALSE)
          BY <3>1, <3>4
        <4> QED BY <4>2, <4>3
      <3>5. Good(got)
        BY <1>4, <1>9, <3>2, <3>4 DEF TextTargets
      <3> QED BY <3>5 DEF Good, got
    <2> QED BY <2>4, <2>5
  <1> QED BY <1>3, <1>7, <1>8, <1>9

LEMMA ValueType ==
  ASSUME NEW v \in Values, NEW tg \in VarTargets
  PROVE  /\ Value(v, tg) \in Seq(Seq(Byte)) /\ Whole(v, tg) \in Seq(Byte)
         /\ tg = "binary" => \A i \in 1..Len(Value(v, tg)) : Len(Value(v, tg)[i]) = 1
  <1> DEFINE w == Widths[tg][v.col]
  <1>1. v.row \in Nat /\ v.col \in Columns
    BY ConstAssumption DEF Values, Readable
  <1>2. w \in Seq(Nat \ {0}) /\ (tg = "binary" => \A i \in DOMAIN w : w[i] = 1)
    BY <1>1, ConstAssumption
  <1>3. Len(w) \in Nat /\ DOMAIN w = 1..Len(w)
    BY <1>2, LenProperties
  <1>4. ASSUME NEW i \in 1..Len(w) PROVE Bytes(v, tg, i) \in Seq(Byte) /\ Len(Bytes(v, tg, i)) = w[i]
    <2>1. w[i] \in Nat /\ i \in Nat
      BY <1>2, <1>3
    <2>2. Bytes(v, tg, i) = [k \in 1..w[i] |-> [row |-> v.row, col |-> v.col, char |-> i, byte |-> k]]
      BY DEF Bytes
    <2>3. \A k \in 1..w[i] : [row |-> v.row, col |-> v.col, char |-> i, byte |-> k] \in Byte
      BY <1>1, <2>1 DEF Byte
    <2> HIDE DEF w
    <2>4. Bytes(v, tg, i) \in [1..w[i] -> Byte] /\ DOMAIN Bytes(v, tg, i) = 1..w[i]
      BY <2>2, <2>3
    <2> QED BY <2>1, <2>4, LenProperties
  <1>5. Value(v, tg) = [i \in 1..Len(w) |-> Bytes(v, tg, i)]
    BY <1>3 DEF Value
  <1> HIDE DEF w
  <1>6. Value(v, tg) \in [1..Len(w) -> Seq(Byte)]
    BY <1>4, <1>5
  <1>7. Value(v, tg) \in Seq(Seq(Byte)) /\ Len(Value(v, tg)) = Len(w)
    BY <1>3, <1>6, LenProperties
  <1>8. Whole(v, tg) \in Seq(Byte)
    BY <1>7, FlattenType DEF Whole, Converted
  <1>9. tg = "binary" => \A i \in 1..Len(Value(v, tg)) : Len(Value(v, tg)[i]) = 1
    BY <1>2, <1>3, <1>4, <1>5, <1>7
  <1> QED BY <1>7, <1>8, <1>9

\* Another column, of which nothing is read yet.
Fresh(x, a) == [x EXCEPT !.col = a.col, !.target = a.target]
Asked == [col : Columns, target : Targets, len : Nat, ind : BOOLEAN]

\* Where the column has no value in row r, the one last read is not taken for it.
LEMMA PrepareHolds ==
  ASSUME NEW x \in Contexts, x.residual = <<>>, NEW a \in Asked, NEW r \in Nat, r > 0,
         NEW got, got = _stmt_get_data_prepare_ctx(Fresh(x, a), r),
         NEW v, v = [row |-> r, col |-> a.col]
  PROVE  /\ got.ctx \in Contexts /\ got.ctx.col = a.col /\ got.ctx.target = a.target /\ got.ctx.residual = <<>>
         /\ got.ret = "success" => v \in Values /\ Holds(got.ctx, v, <<>>)
         /\ got.ret # "success" => got.ret = "error" /\ got.piece = <<>> /\ got.ctx.tsdb # v
  <1> DEFINE y == Fresh(x, a)
  <1>1. a.col \in Columns /\ a.target \in Targets /\ a.col # Unset
    BY ConstAssumption DEF Asked
  <1>2. /\ y \in Contexts /\ y.col = a.col /\ y.target = a.target /\ y.residual = <<>> /\ y.tsdb = x.tsdb
        /\ y.tsdb \in {NoValue} \cup Values
    BY <1>1 DEF Contexts, Fresh, Values
  <1>3. got = _stmt_get_data_prepare_ctx(y, r)
    OBVIOUS
  <1>4. v.row = r /\ v.col = a.col
    OBVIOUS
  <1> HIDE DEF y
  <1>5. CASE r \notin 1..Rows \/ Kind[a.col] = "unsupported"
    <2>1. got = Failed(y)
      BY <1>2, <1>3, <1>5 DEF _stmt_get_data_prepare_ctx
    <2>2. got.ctx = y /\ got.ret = "error" /\ got.piece = <<>>
      BY <2>1, Told DEF Failed
    <2>3. v \notin Values
      BY <1>4, <1>5 DEF Values, Readable
    <2>4. v # NoValue
      BY <1>1, <1>4 DEF NoValue
    <2>5. got.ret # "success"
      BY <2>2
    <2> QED BY <1>2, <2>2, <2>3, <2>4, <2>5
  <1>6. CASE ~(r \notin 1..Rows \/ Kind[a.col] = "unsupported")
    <2>1. v \in Values
      BY <1>1, <1>6 DEF Values, Readable
    <2>2. CASE Kind[a.col] = "null" \/ a.target = "long"
      <3> DEFINE z == [y EXCEPT !.tsdb = v]
      <3>1. got = Result(z, "success", <<>>, 0)
        BY <1>2, <1>3, <1>6, <2>2 DEF _stmt_get_data_prepare_ctx
      <3>2. z \in Contexts /\ z.col = a.col /\ z.target = a.target /\ z.residual = <<>> /\ z.tsdb = v
        BY <1>2, <2>1 DEF Contexts, Values
      <3> HIDE DEF z
      <3>3. got.ctx = z /\ got.ret = "success"
        BY <3>1, Told
      <3>4. ~InPieces(z, v)
        BY <1>4, <2>2, <3>2 DEF InPieces, VarKinds, VarTargets
      <3> QED BY <1>4, <2>1, <3>2, <3>3, <3>4 DEF Holds
    <2>3. CASE ~(Kind[a.col] = "null" \/ a.target = "long")
      <3> DEFINE c == Value(v, a.target)
                 z == [y EXCEPT !.tsdb = v, !.pos = "at", !.chars = c]
      <3>1. got = Result(z, "success", <<>>, 0)
        BY <1>2, <1>3, <1>6, <2>3 DEF _stmt_get_data_prepare_ctx
      <3>2. a.target \in VarTargets
        BY <1>1, <2>3 DEF Targets, VarTargets
      <3>3. c \in Seq(Seq(Byte)) /\ (a.target = "binary" => \A i \in 1..Len(c) : Len(c[i]) = 1)
            /\ Converted(c) = Whole(v, a.target) /\ Whole(v, a.target) \in Seq(Byte)
        BY <2>1, <3>2, ValueType DEF Whole
      <3> HIDE DEF c
      <3>4. z \in Contexts /\ z.col = a.col /\ z.target = a.target /\ z.residual = <<>> /\ z.tsdb = v
            /\ z.pos = "at" /\ z.chars = c
        BY <1>2, <2>1, <3>3 DEF Contexts, Values
      <3> HIDE DEF z
      <3>5. got.ctx = z /\ got.ret = "success"
        BY <3>1, Told
      <3>6. Ready(z) /\ Remaining(z) = Whole(v, a.target)
        BY <3>3, <3>4, Nothing DEF Ready, Remaining
      <3>7. <<>> \o Remaining(z) = Whole(v, z.target)
        BY <3>3, <3>4, <3>6, Nothing
      <3>8. z.target = "binary" => Units(z)
        BY <3>3, <3>4 DEF Units
      <3> QED BY <1>4, <2>1, <3>4, <3>5, <3>6, <3>7, <3>8 DEF Holds
    <2> QED BY <2>2, <2>3
  <1> QED BY <1>5, <1>6

\* A call for another column begins with its value, or fails and takes none for it.
LEMMA CallBegins ==
  ASSUME NEW x \in Contexts, x.residual = <<>>, NEW a \in Asked, x.col # a.col, NEW r \in Nat, r > 0,
         NEW got, got = _stmt_get_data_x(x, r, a), NEW v, v = [row |-> r, col |-> a.col]
  PROVE  /\ got.ctx \in Contexts /\ got.ctx.col = a.col /\ got.ctx.target = a.target
         /\ \/ v \in Values /\ (\E y : y.target = a.target /\ y.residual = <<>> /\ Serves(y, v, <<>>, got)
                                      /\ Neat(y, v, <<>>, a.len, got))
            \/ got.ret = "error" /\ got.piece = <<>> /\ got.ctx.residual = <<>> /\ got.ctx.tsdb # v
  <1> DEFINE p == _stmt_get_data_prepare_ctx(Fresh(x, a), r)
  <1>1. got = IF p.ret = "success" THEN _stmt_get_data_copy(p.ctx, a.len, a.ind) ELSE p
    BY DEF _stmt_get_data_x, Fresh
  <1> HIDE DEF p
  <1>2. /\ p.ctx \in Contexts /\ p.ctx.col = a.col /\ p.ctx.target = a.target /\ p.ctx.residual = <<>>
        /\ p.ret = "success" => v \in Values /\ Holds(p.ctx, v, <<>>)
        /\ p.ret # "success" => p.ret = "error" /\ p.piece = <<>> /\ p.ctx.tsdb # v
    BY PrepareHolds DEF p
  <1>3. CASE p.ret # "success"
    BY <1>1, <1>2, <1>3
  <1>4. CASE p.ret = "success"
    <2>1. a.len \in Nat /\ a.ind \in BOOLEAN /\ <<>> \in Seq(Byte)
      BY Nothing DEF Asked
    <2>2. v \in Values /\ Holds(p.ctx, v, <<>>) /\ Clean(p.ctx, v)
      BY <1>2, <1>4 DEF Clean
    <2> DEFINE y == p.ctx
               res == _stmt_get_data_copy(y, a.len, a.ind)
    <2> HIDE DEF y
    <2>3. Serves(y, v, <<>>, res) /\ Neat(y, v, <<>>, a.len, res)
      BY <2>1, <2>2, CopyServes DEF y
    <2>4. got = res
      BY <1>1, <1>4 DEF y
    <2>5. y.target = a.target /\ y.residual = <<>> /\ v.col = a.col
      BY <1>2 DEF y
    <2> HIDE DEF res
    <2>6. Serves(y, v, <<>>, got) /\ Neat(y, v, <<>>, a.len, got)
      BY <2>3, <2>4
    <2>7. got.ctx \in Contexts /\ got.ctx.col = a.col /\ got.ctx.target = a.target
      BY <2>5, <2>6 DEF Serves, Holds
    <2> QED BY <2>2, <2>5, <2>6, <2>7
  <1> QED BY <1>3, <1>4

\* A call for the same column goes on with the value.
LEMMA CallGoesOn ==
  ASSUME NEW x, NEW v \in Values, NEW g \in Seq(Byte), Holds(x, v, g), Clean(x, v),
         NEW a \in Asked, x.col = a.col, NEW r, NEW got, got = _stmt_get_data_x(x, r, a)
  PROVE  Serves(x, v, g, got)
  <1>1. a.len \in Nat /\ a.ind \in BOOLEAN
    BY DEF Asked
  <1>2. CASE x.target # a.target
    <2>1. got = Result(x, "error", <<>>, 0)
      BY <1>2 DEF _stmt_get_data_x, Failed
    <2>2. "error" \in Returns
      BY DEF Returns
    <2> QED BY <2>1, <2>2, NoCopy
  <1>3. CASE x.target = a.target
    <2>1. got = _stmt_get_data_copy(x, a.len, a.ind)
      BY <1>3 DEF _stmt_get_data_x
    <2> QED BY <1>1, <2>1, CopyServes
  <1> QED BY <1>2, <1>3

-----------------------------------------------------------------------------
(* The filling of the bound columns.                                       *)

Buffers == [col : Columns, target : Targets, bytes : Seq(Byte)]

Begins(b, r) ==
  b.target \in VarTargets /\ Kind[b.col] \in {"text", "number"} =>
    IsPrefix(b.bytes, Whole([row |-> r, col |-> b.col], b.target))

\* What is true of a row between two of its columns.
Filling(acc, r) ==
  /\ acc.ctx \in Contexts /\ acc.ctx.col = Unset /\ acc.ctx.residual = <<>>
  /\ acc.bufs \in Seq(Buffers) /\ \A i \in 1..Len(acc.bufs) : Begins(acc.bufs[i], r)

\* One column, as the fold of _stmt_fill_row takes it.
FillStep(r, acc, b) ==
  LET got == _stmt_get_data_x(acc.ctx, r, [col |-> b.col, target |-> b.target,
                                           len |-> b.len, ind |-> TRUE])
  IN IF acc.failed THEN acc
     ELSE [ctx |-> _get_data_ctx_reset(got.ctx),
           bufs |-> Append(acc.bufs, [col |-> b.col, target |-> b.target, bytes |-> got.piece]),
           failed |-> got.ret \notin {"success", "with_info"}]

LEMMA ResetType ==
  ASSUME NEW x \in Contexts
  PROVE  /\ _get_data_ctx_reset(x) \in Contexts /\ _get_data_ctx_reset(x).col = Unset
         /\ _get_data_ctx_reset(x).residual = x.residual /\ _get_data_ctx_reset(x).tsdb = x.tsdb
  <1>1. <<>> \in Seq(Seq(Byte))
    BY Nothing
  <1> QED BY <1>1 DEF Contexts, _get_data_ctx_reset

\* What a column of a row puts into its buffer.
LEMMA FillsColumn ==
  ASSUME NEW r \in 1..Rows, NEW x \in Contexts, x.col = Unset, x.residual = <<>>, NEW a \in Asked,
         Roomy([row |-> r, col |-> a.col], a.target, a.len), NEW got, got = _stmt_get_data_x(x, r, a)
  PROVE  /\ got.ctx \in Contexts /\ got.ctx.residual = <<>> /\ got.piece \in Seq(Byte)
         /\ Begins([col |-> a.col, target |-> a.target, bytes |-> got.piece], r)
  <1> DEFINE v == [row |-> r, col |-> a.col]
             b == [col |-> a.col, target |-> a.target, bytes |-> got.piece]
  <1>1. a.col \in Columns /\ a.target \in Targets /\ x.col # a.col /\ r \in Nat /\ r > 0
    BY ConstAssumption DEF Asked
  <1>2. v.row = r /\ v.col = a.col /\ b.col = a.col /\ b.target = a.target /\ b.bytes = got.piece
    OBVIOUS
  <1>0. v = [row |-> r, col |-> a.col]
    OBVIOUS
  <1> HIDE DEF v, b
  <1>3. /\ got.ctx \in Contexts /\ got.ctx.col = a.col /\ got.ctx.target = a.target
        /\ \/ v \in Values /\ (\E y : y.target = a.target /\ y.residual = <<>> /\ Serves(y, v, <<>>, got)
                                     /\ Neat(y, v, <<>>, a.len, got))
           \/ got.ret = "error" /\ got.piece = <<>> /\ got.ctx.residual = <<>> /\ got.ctx.tsdb # v
    BY <1>0, <1>1, CallBegins
  <1>4. ASSUME b.target \in VarTargets, Kind[b.col] \in {"text", "number"}
        PROVE  v \in Values /\ v = [row |-> r, col |-> b.col] /\ Whole(v, a.target) \in Seq(Byte)
    <2>1. v \in Values
      BY <1>0, <1>1, <1>2, <1>4 DEF Values, Readable
    <2> QED BY <1>0, <1>2, <1>4, <2>1, ValueType
  <1>5. CASE got.ret = "error" /\ got.piece = <<>> /\ got.ctx.residual = <<>>
    <2>1. ASSUME b.target \in VarTargets, Kind[b.col] \in {"text", "number"}
          PROVE  IsPrefix(b.bytes, Whole(v, a.target))
      <3> DEFINE w == Whole(v, a.target)
      <3>1. w \in Seq(Byte) /\ <<>> \in Seq(Byte) /\ <<>> \o w = w
        BY <1>4, <2>1, Nothing
      <3> HIDE DEF w
      <3>2. IsPrefix(<<>>, <<>> \o w)
        BY <3>1, Prefix
      <3> QED BY <1>2, <1>5, <3>1, <3>2 DEF w
    <2>2. Begins(b, r)
      BY <1>2, <1>4, <2>1 DEF Begins
    <2> QED BY <1>3, <1>5, <2>2, Nothing DEF b
  <1>6. ASSUME v \in Values, NEW y, y.target = a.target, y.residual = <<>>, Serves(y, v, <<>>, got), Neat(y, v, <<>>, a.len, got)
        PROVE  got.ctx.residual = <<>> /\ got.piece \in Seq(Byte) /\ Begins(b, r)
    <2>1. got.ctx.residual = <<>>
      BY <1>0, <1>6 DEF Neat
    <2>2. got.piece \in Seq(Byte) /\ Holds(got.ctx, v, <<>> \o got.piece)
      BY <1>6 DEF Serves
    <2>3. Holds(got.ctx, v, got.piece)
      BY <2>2, Nothing
    <2>4. ASSUME b.target \in VarTargets, Kind[b.col] \in {"text", "number"}
          PROVE  IsPrefix(b.bytes, Whole(v, a.target))
      <3>1. InPieces(got.ctx, v)
        BY <1>2, <1>3, <2>4 DEF InPieces, VarKinds
      <3>2. got.piece \o Remaining(got.ctx) = Whole(v, a.target)
        BY <1>3, <2>3, <3>1 DEF Holds
      <3>3. Remaining(got.ctx) \in Seq(Byte)
        BY <1>3, RemainingType
      <3> DEFINE p == got.piece
                 q == Remaining(got.ctx)
      <3> HIDE DEF p, q
      <3>4. IsPrefix(p, p \o q)
        BY <2>2, <3>3, Prefix DEF p, q
      <3> QED BY <1>2, <3>2, <3>4 DEF p, q
    <2>5. Begins(b, r)
      BY <1>2, <1>4, <2>4 DEF Begins
    <2> QED BY <2>1, <2>2, <2>5
  <1> QED BY <1>3, <1>5, <1>6 DEF b

LEMMA FillsNext ==
  ASSUME Careful, NEW r \in 1..Rows, NEW acc, Filling(acc, r), NEW i \in 1..Len(Bound)
  PROVE  Filling(FillStep(r, acc, Bound[i]), r)
  <1> DEFINE b == Bound[i]
             a == [col |-> b.col, target |-> b.target, len |-> b.len, ind |-> TRUE]
             got == _stmt_get_data_x(acc.ctx, r, a)
             buf == [col |-> b.col, target |-> b.target, bytes |-> got.piece]
             z == _get_data_ctx_reset(got.ctx)
             next == FillStep(r, acc, b)
  <1>1. b \in [col : Columns, target : Targets, len : Nat]
    <2> DEFINE R == [col : Columns, target : Targets, len : Nat]
    <2>1. Bound \in Seq(R)
      BY ConstAssumption
    <2> HIDE DEF R
    <2>2. Bound[i] \in R
      BY <2>1
    <2> QED BY <2>2 DEF R
  <1>2. Roomy([row |-> r, col |-> b.col], b.target, b.len)
    BY CarefulAssumption DEF Roomy, TextTargets
  <1> HIDE DEF b
  <1>3. a \in Asked /\ a.col = b.col /\ a.target = b.target /\ a.len = b.len
    BY <1>1 DEF Asked
  <1>4. CASE acc.failed
    <2>1. next = acc
      BY <1>4 DEF FillStep
    <2> QED BY <2>1 DEF b
  <1>5. CASE ~acc.failed
    <2>1. next = [ctx |-> z, bufs |-> Append(acc.bufs, buf), failed |-> got.ret \notin {"success", "with_info"}]
      BY <1>5 DEF FillStep
    <2>2. next.ctx = z /\ next.bufs = Append(acc.bufs, buf)
      BY <2>1
    <2>3. b.col \in Columns /\ b.target \in Targets
      BY <1>1
    <2>7. [col |-> a.col, target |-> a.target, bytes |-> got.piece] = buf
      BY <1>3
    <2> HIDE DEF a, next, buf
    <2>4. /\ got.ctx \in Contexts /\ got.ctx.residual = <<>> /\ got.piece \in Seq(Byte)
          /\ Begins([col |-> a.col, target |-> a.target, bytes |-> got.piece], r)
      BY <1>2, <1>3, FillsColumn DEF Filling
    <2> HIDE DEF got
    <2>5. z \in Contexts /\ z.col = Unset /\ z.residual = <<>>
      BY <2>4, ResetType
    <2>6. buf \in Buffers /\ Begins(buf, r)
      BY <2>3, <2>4, <2>7 DEF Buffers, buf
    <2> HIDE DEF z
    <2>8. Append(acc.bufs, buf) \in Seq(Buffers) /\ \A j \in 1..Len(Append(acc.bufs, buf)) : Begins(Append(acc.bufs, buf)[j], r)
      <3>1. acc.bufs \in Seq(Buffers) /\ \A j \in 1..Len(acc.bufs) : Begins(acc.bufs[j], r)
        BY DEF Filling
      <3> DEFINE q == acc.bufs
                 t == Append(q, buf)
      <3> HIDE DEF q
      <3>2. t \in Seq(Buffers) /\ Len(t) = Len(q) + 1 /\ t[Len(q) + 1] = buf /\ Len(q) \in Nat
            /\ \A j \in 1..Len(q) : t[j] = q[j]
        BY <2>6, <3>1 DEF q
      <3> HIDE DEF t
      <3>3. ASSUME NEW j \in 1..Len(t) PROVE Begins(t[j], r)
        <4>1. j \in 1..Len(q) \/ j = Len(q) + 1
          BY <3>2
        <4> QED BY <2>6, <3>1, <3>2, <4>1 DEF q
      <3> QED BY <3>2, <3>3 DEF t, q
    <2>9. Filling(next, r)
      BY <2>2, <2>5, <2>8 DEF Filling
    <2> QED BY <2>9 DEF next, b
  <1> QED BY <1>4, <1>5

\* The fold over the first n columns is a function of their places, taken from the greatest.
Start(x) == [ctx |-> x, bufs |-> <<>>, failed |-> FALSE]
Folds(g, x, r, S) ==
  g = [s \in SUBSET S |-> IF s = {} THEN Start(x) ELSE FillStep(r, g[s \ {Max(s)}], Bound[Max(s)])]

LEMMA MaxOfUpTo ==
  ASSUME NEW k \in Nat, NEW s \in SUBSET (1..(k + 1)), k + 1 \in s
  PROVE  Max(s) = k + 1
  <1>1. s \in SUBSET (0..(k + 1)) /\ s # {}
    OBVIOUS
  <1>2. Max(s) \in s /\ \A m \in s : m <= Max(s)
    <2>1. k + 1 \in Nat
      OBVIOUS
    <2> QED BY <1>1, <2>1, Greatest
  <1>3. Max(s) \in 1..(k + 1) /\ k + 1 <= Max(s)
    BY <1>2
  <1> QED BY <1>3

LEMMA FoldExists ==
  ASSUME NEW x, NEW r, NEW n \in Nat
  PROVE  \E g : Folds(g, x, r, 1..n)
  <1> DEFINE S == {k \in Nat : \E g : Folds(g, x, r, 1..k)}
  <1>1. 0 \in S
    <2> DEFINE g == [s \in SUBSET (1..0) |-> Start(x)]
    <2>1. g = [s \in SUBSET (1..0) |-> IF s = {} THEN Start(x) ELSE FillStep(r, g[s \ {Max(s)}], Bound[Max(s)])]
      OBVIOUS
    <2> HIDE DEF g
    <2>2. Folds(g, x, r, 1..0)
      BY <2>1 DEF Folds
    <2> QED BY <2>2
  <1>2. ASSUME NEW k \in Nat, NEW f, Folds(f, x, r, 1..k) PROVE \E g : Folds(g, x, r, 1..(k + 1))
    <2> DEFINE T == 1..(k + 1)
               g == [s \in SUBSET T |-> IF k + 1 \in s THEN FillStep(r, f[s \ {k + 1}], Bound[k + 1]) ELSE f[s]]
    <2>1. f = [s \in SUBSET (1..k) |-> IF s = {} THEN Start(x) ELSE FillStep(r, f[s \ {Max(s)}], Bound[Max(s)])]
      BY <1>2 DEF Folds
    <2>2. ASSUME NEW s \in SUBSET T
          PROVE  g[s] = IF s = {} THEN Start(x) ELSE FillStep(r, g[s \ {Max(s)}], Bound[Max(s)])
      <3>1. CASE k + 1 \in s
        <4>1. Max(s) = k + 1 /\ s # {} /\ s \ {k + 1} \in SUBSET T /\ k + 1 \notin s \ {k + 1}
          BY <3>1, MaxOfUpTo
        <4>2. g[s \ {k + 1}] = f[s \ {k + 1}]
          BY <4>1
        <4>3. g[s] = FillStep(r, f[s \ {k + 1}], Bound[k + 1])
          BY <3>1
        <4> QED BY <4>1, <4>2, <4>3
      <3>2. CASE k + 1 \notin s
        <4>0. \A j \in s : j \in 1..k
          <5> TAKE j \in s
          <5>1. j \in 1..(k + 1) /\ j # k + 1
            BY <3>2
          <5> QED BY <5>1
        <4>1. s \in SUBSET (1..k) /\ s \ {Max(s)} \in SUBSET T /\ k + 1 \notin s \ {Max(s)}
          BY <3>2, <4>0
        <4>2. g[s] = f[s] /\ g[s \ {Max(s)}] = f[s \ {Max(s)}]
          BY <3>2, <4>1
        <4>3. f[s] = IF s = {} THEN Start(x) ELSE FillStep(r, f[s \ {Max(s)}], Bound[Max(s)])
          BY <2>1, <4>1
        <4> QED BY <4>2, <4>3
      <3> QED BY <3>1, <3>2
    <2>3. g = [s \in SUBSET T |-> g[s]]
      OBVIOUS
    <2> HIDE DEF g
    <2>4. g = [s \in SUBSET T |-> IF s = {} THEN Start(x) ELSE FillStep(r, g[s \ {Max(s)}], Bound[Max(s)])]
      BY <2>2, <2>3
    <2>5. Folds(g, x, r, T)
      BY <2>4 DEF Folds
    <2> QED BY <2>5
  <1>3. ASSUME NEW k \in S PROVE k + 1 \in S
    BY <1>2
  <1>4. S \subseteq Nat
    OBVIOUS
  <1> HIDE DEF S
  <1>5. n \in S
    BY <1>1, <1>3, <1>4, Induct
  <1> QED BY <1>5 DEF S

LEMMA FillRowFolds ==
  ASSUME NEW x, NEW r
  PROVE  \E g : Folds(g, x, r, 1..Len(Bound)) /\ _stmt_fill_row(x, r) = g[1..Len(Bound)]
  <1> DEFINE n == Len(Bound)
             h == CHOOSE g : g = [s \in SUBSET DOMAIN Bound |->
                                    IF s = {} THEN Start(x) ELSE FillStep(r, g[s \ {Max(s)}], Bound[Max(s)])]
  <1>1. n \in Nat /\ DOMAIN Bound = 1..n
    BY ConstAssumption, LenProperties
  <1>2. _stmt_fill_row(x, r) = h[DOMAIN Bound]
    BY DEF _stmt_fill_row, FoldLeft, MapThenFoldSet, Start, FillStep
  <1>3. \E g : Folds(g, x, r, 1..n)
    BY <1>1, FoldExists
  <1>4. h = CHOOSE g : Folds(g, x, r, 1..n)
    BY <1>1 DEF Folds
  <1>5. Folds(h, x, r, 1..n)
    <2> HIDE DEF h
    <2> QED BY <1>3, <1>4
  <1> HIDE DEF h
  <1> QED BY <1>1, <1>2, <1>5

LEMMA RowFilled ==
  ASSUME Careful, NEW r \in 1..Rows, NEW x \in Contexts, x.col = Unset, x.residual = <<>>
  PROVE  Filling(_stmt_fill_row(x, r), r)
  <1> DEFINE n == Len(Bound)
  <1>1. PICK g : Folds(g, x, r, 1..n) /\ _stmt_fill_row(x, r) = g[1..n]
    BY FillRowFolds
  <1>2. g = [s \in SUBSET (1..n) |-> IF s = {} THEN Start(x) ELSE FillStep(r, g[s \ {Max(s)}], Bound[Max(s)])]
    BY <1>1 DEF Folds
  <1>3. n \in Nat
    BY ConstAssumption, LenProperties
  <1> DEFINE S == {k \in Nat : k <= n => Filling(g[1..k], r)}
  <1>4. 0 \in S
    <2>1. g[{}] = Start(x) /\ 1..0 = {}
      BY <1>2
    <2>2. Start(x).ctx = x /\ Start(x).bufs = <<>>
      BY DEF Start
    <2>3. <<>> \in Seq(Buffers) /\ Len(<<>>) = 0
      OBVIOUS
    <2>4. Filling(Start(x), r)
      BY <2>2, <2>3 DEF Filling
    <2> QED BY <2>1, <2>4
  <1>5. ASSUME NEW k \in S PROVE k + 1 \in S
    <2> SUFFICES ASSUME k + 1 <= n PROVE Filling(g[1..(k + 1)], r)
      OBVIOUS
    <2> DEFINE s == 1..(k + 1)
    <2>0. k \in Nat /\ k <= n /\ k + 1 \in 1..n
      BY <1>3
    <2>1. s \in SUBSET (1..n) /\ k + 1 \in s /\ s # {}
      <3>1. \A j \in s : j \in 1..n
        <4> HIDE DEF n
        <4> QED BY <1>3, <2>0
      <3>2. k + 1 \in s
        BY <2>0
      <3> QED BY <3>1, <3>2
    <2>2. Filling(g[1..k], r)
      BY <2>0
    <2>3. Max(s) = k + 1 /\ s \ {k + 1} = 1..k
      BY <2>0, <2>1, MaxOfUpTo
    <2>4. g[s] = FillStep(r, g[s \ {Max(s)}], Bound[Max(s)])
      <3> HIDE DEF s, n
      <3> QED BY <1>2, <2>1
    <2>5. g[s] = FillStep(r, g[1..k], Bound[k + 1])
      BY <2>3, <2>4
    <2> HIDE DEF s
    <2>6. Filling(FillStep(r, g[1..k], Bound[k + 1]), r)
      BY <2>0, <2>2, FillsNext
    <2>7. Filling(g[s], r)
      BY <2>5, <2>6
    <2> QED BY <2>7 DEF s
  <1>6. S \subseteq Nat
    OBVIOUS
  <1>7. n \in S
    <2> HIDE DEF S
    <2> QED BY <1>3, <1>4, <1>5, <1>6, Induct
  <1> QED BY <1>1, <1>3, <1>7

-----------------------------------------------------------------------------
(* The invariant.  The value being read is the one at Here as long as the  *)
(* context says so; a context that says nothing of Here has been given up  *)
(* by a call that found no value, and is not asked again.                  *)

IInv ==
  /\ row \in 0..(Rows + 1) /\ ctx \in Contexts /\ given \in Seq(Byte)
  /\ Clean(ctx, Here)
  /\ ctx.tsdb = Here /\ ctx.col # Unset => Holds(ctx, Here, given)
  /\ Answered => ctx.tsdb = Here /\ ctx.col # Unset
  /\ TellsOf(ctx, Here, given, ret, piece, strlen)
  /\ BoundIsValue

\* At the beginning nothing is read and nothing is bound.
LEMMA InitIInv == Init => IInv
  <1> SUFFICES ASSUME Init PROVE IInv
    OBVIOUS
  <1>1. row = 0 /\ ctx = EmptyCtx /\ ret = "none" /\ given = <<>> /\ bound = <<>>
    BY DEF Init
  <1>2. <<>> \in Seq(Byte) /\ <<>> \in Seq(Seq(Byte))
    BY Nothing
  <1>3. ctx \in Contexts /\ ctx.residual = <<>> /\ ctx.col = Unset
    BY <1>1, <1>2 DEF EmptyCtx, Contexts, Targets, VarTargets
  <1>4. row \in 0..(Rows + 1)
    BY <1>1, ConstAssumption
  <1>5. BoundIsValue
    <2>1. DOMAIN bound = {}
      BY <1>1
    <2> QED BY <2>1 DEF BoundIsValue
  <1> QED BY <1>1, <1>2, <1>3, <1>4, <1>5 DEF IInv, Clean, Answered, TellsOf

\* A text in the middle is the one thing the application does not leave.
LEMMA LeavesClean ==
  ASSUME IInv, Careful, MayLeave
  PROVE  ctx.residual = <<>>
  <1>1. ~MidText /\ Clean(ctx, Here)
    BY DEF IInv, MayLeave
  <1> QED BY <1>1 DEF Clean, Mid, MidText, TextTargets

LEMMA StepFetch ==
  ASSUME Careful, IInv, SQLFetch
  PROVE  IInv'
  <1> DEFINE x == _get_data_ctx_reset(ctx)
  <1>1. row \in Nat /\ row <= Rows /\ ctx \in Contexts /\ ctx.residual = <<>> /\ Rows \in Nat
    BY LeavesClean, ConstAssumption DEF IInv, SQLFetch
  <1>2. x \in Contexts /\ x.col = Unset /\ x.residual = <<>>
    BY <1>1, ResetType
  <1>3. row' = row + 1 /\ ret' = "none" /\ given' = <<>> /\ row' \in 0..(Rows + 1)
    BY <1>1 DEF SQLFetch
  <1>4. ctx' \in Contexts /\ ctx'.col = Unset /\ ctx'.residual = <<>> /\ BoundIsValue'
    <2>1. CASE row < Rows
      <3> DEFINE fill == _stmt_fill_row(x, row + 1)
      <3>1. ctx' = fill.ctx /\ bound' = fill.bufs
        BY <2>1 DEF SQLFetch
      <3>2. row + 1 \in 1..Rows
        BY <1>1, <2>1
      <3> HIDE DEF x
      <3>3. Filling(fill, row + 1)
        BY <1>2, <3>2, RowFilled
      <3> HIDE DEF fill
      <3>4. bound' \in Seq(Buffers) /\ \A i \in 1..Len(bound') : Begins(bound'[i], row')
        BY <1>3, <3>1, <3>3 DEF Filling
      <3>5. DOMAIN bound' = 1..Len(bound')
        BY <3>4
      <3>6. BoundIsValue'
        BY <3>4, <3>5 DEF BoundIsValue, Begins
      <3> QED BY <3>1, <3>3, <3>6 DEF Filling
    <2>2. CASE ~(row < Rows)
      <3>1. ctx' = x /\ bound' = <<>>
        BY <2>2 DEF SQLFetch
      <3>2. DOMAIN bound' = {}
        BY <3>1
      <3>3. BoundIsValue'
        BY <3>2 DEF BoundIsValue
      <3> QED BY <1>2, <3>1, <3>3
    <2> QED BY <2>1, <2>2
  <1>5. <<>> \in Seq(Byte)
    BY Nothing
  <1> QED BY <1>3, <1>4, <1>5 DEF IInv, Clean, Answered, TellsOf

LEMMA StepGetData ==
  ASSUME Careful, IInv, NEW a \in Args, SQLGetData(a)
  PROVE  IInv'
  <1> DEFINE got == _stmt_get_data_x(ctx, row, a)
  <1>1. a \in Asked /\ a.col \in Columns /\ a.col # Unset
    BY ConstAssumption DEF Args, Asked
  <1>2. row \in Nat /\ row > 0 /\ row' = row /\ row \in 0..(Rows + 1) /\ bound' = bound
    BY ConstAssumption DEF IInv, SQLGetData
  <1>3. ctx \in Contexts /\ given \in Seq(Byte)
    BY DEF IInv
  <1>4. ctx' = got.ctx /\ ret' = got.ret /\ piece' = got.piece /\ strlen' = got.strlen
    BY DEF SQLGetData
  <1>5. BoundIsValue'
    BY <1>2 DEF IInv, BoundIsValue
  <1>6. given' = IF ctx.col = a.col THEN given \o piece' ELSE piece'
    BY <1>4 DEF SQLGetData
  <1>7. ASSUME NEW v \in Values, v.row = row, v.col = a.col, NEW x, NEW g, Serves(x, v, g, got), g \o piece' = given', g \in Seq(Byte)
        PROVE  IInv'
    <2>1. /\ Holds(ctx', v, given') /\ Clean(ctx', v) /\ piece' \in Seq(Byte)
          /\ TellsOf(ctx', v, given', ret', piece', strlen')
      BY <1>4, <1>7 DEF Serves
    <2>2. given' \in Seq(Byte)
      BY <1>7, <2>1, Joined
    <2>3. ctx' \in Contexts /\ ctx'.col = v.col /\ ctx'.tsdb = v
      BY <2>1 DEF Holds
    <2>4. Here' = [row |-> row', col |-> ctx'.col]
      BY DEF Here
    <2>5. Here' = v
      BY <1>2, <1>7, <2>3, <2>4 DEF Values
    <2>6. Answered' => ctx'.tsdb = Here' /\ ctx'.col # Unset
      BY <1>1, <1>7, <2>3, <2>5
    <2> QED BY <1>2, <1>5, <2>1, <2>2, <2>3, <2>5, <2>6 DEF IInv
  <1>8. CASE ctx.col = a.col
    <2>1. ctx.tsdb = Here
      BY <1>8 DEF SQLGetData, MayRepeat
    <2>2. Here.row = row /\ Here.col = a.col /\ Here # NoValue
      BY <1>1, <1>8 DEF Here, NoValue
    <2>3. Here \in Values
      BY <1>3, <2>1, <2>2 DEF Contexts, Values
    <2>4. Holds(ctx, Here, given) /\ Clean(ctx, Here)
      BY <1>1, <1>8, <2>1 DEF IInv
    <2> DEFINE v == Here
    <2> HIDE DEF v, got
    <2>5. Serves(ctx, v, given, got)
      BY <1>1, <1>3, <1>8, <2>3, <2>4, CallGoesOn DEF v, got
    <2>6. given \o piece' = given'
      BY <1>6, <1>8
    <2>7. v \in Values /\ v.row = row /\ v.col = a.col
      BY <2>2, <2>3 DEF v
    <2> QED BY <1>3, <1>7, <2>5, <2>6, <2>7
  <1>9. CASE ctx.col # a.col
    <2> DEFINE v == [row |-> row, col |-> a.col]
    <2>1. ctx.residual = <<>>
      BY <1>9, LeavesClean DEF SQLGetData
    <2>2. given' = piece'
      BY <1>6, <1>9
    <2>3. v.row = row /\ v.col = a.col /\ v = [row |-> row, col |-> a.col]
      OBVIOUS
    <2> HIDE DEF v, got
    <2>4. /\ got.ctx \in Contexts /\ got.ctx.col = a.col /\ got.ctx.target = a.target
          /\ \/ v \in Values /\ (\E y : y.target = a.target /\ y.residual = <<>> /\ Serves(y, v, <<>>, got)
                                       /\ Neat(y, v, <<>>, a.len, got))
             \/ got.ret = "error" /\ got.piece = <<>> /\ got.ctx.residual = <<>> /\ got.ctx.tsdb # v
      BY <1>1, <1>2, <1>3, <1>9, <2>1, <2>3, CallBegins DEF got
    <2>5. ASSUME v \in Values, NEW y, Serves(y, v, <<>>, got) PROVE IInv'
      <3>1. <<>> \o piece' = given' /\ <<>> \in Seq(Byte)
        BY <1>4, <2>2, <2>5, Nothing DEF Serves
      <3> QED BY <1>7, <2>3, <2>5, <3>1
    <2>6. CASE got.ret = "error" /\ got.piece = <<>> /\ got.ctx.residual = <<>> /\ got.ctx.tsdb # v
      <3>1. Here' = v
        BY <1>2, <1>4, <2>3, <2>4 DEF Here
      <3>2. given' \in Seq(Byte) /\ ctx' \in Contexts /\ ctx'.tsdb # Here' /\ ctx'.residual = <<>> /\ ret' = "error"
        BY <1>4, <2>2, <2>4, <2>6, <3>1, Nothing
      <3> QED BY <1>2, <1>5, <3>2 DEF IInv, Clean, Answered, TellsOf
    <2> QED BY <2>4, <2>5, <2>6
  <1> QED BY <1>8, <1>9

LEMMA StepIInv ==
  ASSUME Careful
  PROVE  IInv /\ [Next]_vars => IInv'
  <1> SUFFICES ASSUME IInv, [Next]_vars PROVE IInv'
    OBVIOUS
  <1>1. CASE SQLFetch
    BY <1>1, StepFetch
  <1>2. CASE \E a \in Args : SQLGetData(a)
    BY <1>2, StepGetData
  <1>3. CASE UNCHANGED vars
    BY <1>3 DEF vars, IInv, Here, Answered, BoundIsValue
  <1> QED BY <1>1, <1>2, <1>3 DEF Next

THEOREM Invariance ==
  ASSUME Careful
  PROVE  Spec => []IInv
  <1>1. Init => IInv
    BY InitIInv
  <1>2. IInv /\ [Next]_vars => IInv'
    BY StepIInv
  <1> QED BY <1>1, <1>2, PTL DEF Spec

-----------------------------------------------------------------------------
(* The properties.                                                         *)

\* What an answer is about exists, and is being read.
LEMMA AnswersHere ==
  ASSUME IInv, Answered
  PROVE  Here \in Values /\ Holds(ctx, Here, given) /\ Here.row = row /\ Here.col = ctx.col
  <1>1. ctx.tsdb = Here /\ ctx.col # Unset /\ ctx \in Contexts
    BY DEF IInv
  <1>2. Here.row = row /\ Here.col = ctx.col /\ Here # NoValue
    BY <1>1 DEF Here, NoValue
  <1>3. Here \in Values
    BY <1>1, <1>2 DEF Contexts, Values
  <1> QED BY <1>1, <1>2, <1>3 DEF IInv

\* The pieces SQLGetData hands out of a column, _stmt_get_data_copy after
\* _stmt_get_data_copy, are its value from the first byte on, and all of it when
\* the call returns SQL_SUCCESS: for any widths, buffer lengths and calls.
THEOREM ValueInPieces ==
  ASSUME Careful
  PROVE  Spec => []PiecesAreTheValue
  <1>1. IInv => PiecesAreTheValue
    <2> SUFFICES ASSUME IInv, Variable
                 PROVE  /\ IsPrefix(given, Whole(Here, ctx.target))
                        /\ ret = "success" => given = Whole(Here, ctx.target)
      BY DEF PiecesAreTheValue
    <2>1. Holds(ctx, Here, given) /\ given \in Seq(Byte) /\ ctx \in Contexts
      BY AnswersHere DEF IInv, Variable
    <2>2. Kind[Here.col] \in VarKinds /\ (ret = "success" => ctx.pos = "end")
      BY DEF IInv, Variable, Answered, TellsOf
    <2>3. InPieces(ctx, Here)
      BY <2>2 DEF InPieces, Variable
    <2>4. given \o Remaining(ctx) = Whole(Here, ctx.target)
      BY <2>1, <2>3 DEF Holds
    <2>5. Remaining(ctx) \in Seq(Byte)
      BY <2>1, RemainingType
    <2>6. IsPrefix(given, Whole(Here, ctx.target))
      <3> DEFINE q == Remaining(ctx)
      <3> HIDE DEF q
      <3>1. IsPrefix(given, given \o q)
        BY <2>1, <2>5, Prefix DEF q
      <3> QED BY <2>4, <3>1 DEF q
    <2>7. ASSUME ret = "success" PROVE given = Whole(Here, ctx.target)
      <3>1. Remaining(ctx) = <<>>
        BY <2>2, <2>7 DEF Remaining
      <3> QED BY <2>1, <2>4, <3>1, Nothing
    <2> QED BY <2>6, <2>7
  <1> QED BY <1>1, Invariance, PTL

\* What SQLGetData tells of the length of a truncated value is what was left of
\* it before the call, of a varbinary what is left after it.
THEOREM LengthIsRemaining ==
  ASSUME Careful
  PROVE  Spec => []StrLenIsRemaining
  <1>1. IInv => StrLenIsRemaining
    <2> SUFFICES ASSUME IInv, Variable, ret = "with_info"
                 PROVE  strlen = Len(Whole(Here, ctx.target)) - Len(given)
                                   + (IF Kind[ctx.col] = "bytes" THEN 0 ELSE Len(piece))
      BY DEF StrLenIsRemaining
    <2>1. Here.col = ctx.col
      BY DEF Here
    <2> QED BY <2>1 DEF IInv, Variable, Answered, TellsOf
  <1> QED BY <1>1, Invariance, PTL

\* No call of SQLGetData is answered before the first row, after the last or
\* for a type get_data does not know, whatever was read before it.
THEOREM ValuesAreAnswered ==
  ASSUME Careful
  PROVE  Spec => []OnlyValuesAreAnswered
  <1>1. IInv => OnlyValuesAreAnswered
    BY AnswersHere DEF OnlyValuesAreAnswered, Values, Readable
  <1> QED BY <1>1, Invariance, PTL

\* Every buffer _stmt_fill_row fills holds the beginning of its own column in
\* the row just fetched, however many columns are bound before it and whatever
\* SQLGetData did to the context they share.
THEOREM BoundHoldsValue ==
  ASSUME Careful
  PROVE  Spec => []BoundIsValue
  <1>1. IInv => BoundIsValue
    BY DEF IInv
  <1> QED BY <1>1, Invariance, PTL
=============================================================================
