---------------------------- MODULE ParamsProofs ----------------------------
(***************************************************************************)
(* Proofs about Params, for any values, rows and sizes and any sharing of  *)
(* descriptors: what is bound stays of one piece as long as the            *)
(* application sees to what it has to see to; and then what SQLExecute     *)
(* sends of a row means what the application's value means, a row is       *)
(* refused only where its value does not fit, and the application's array  *)
(* is left as it is but for one family of conversions.                     *)
(*                                                                         *)
(* The argument goes down to the bytes: what is read of an array of cells  *)
(* is a value of the type it is read as; every entry of the table checks   *)
(* and converts such a value rightly (Right, one lemma a conversion); row  *)
(* after row, what a conversion has written in place is read by the server *)
(* and spoils no row that is still to be converted (Rowed).                *)
(***************************************************************************)
EXTENDS Params, NaturalsInduction, WellFoundedInduction, TLAPS

IInv == TypeOK /\ BindingAgrees

\* A record of a descriptor.
Record(r) == DOMAIN r = {"n", "v", "buf", "mem", "ind"} /\ r.n \in 0..1 /\ r.v \in CTypes \cup {"none"}

LEMMA TypeParts ==
  TypeOK <=> /\ DOMAIN apd = Descs /\ cur \in Descs
             /\ \A d \in Descs : Record(apd[d])
             /\ DOMAIN ipd = {"n", "p", "csize"} /\ ipd.n \in 0..1 /\ ipd.p \in ParamTypes \cup {"none"}
             /\ meta \in _sqlc_sql_map \cup {NoMeta} /\ trusted \in BOOLEAN
  BY DEF TypeOK, Record, Unbound

LEMMA TypePartsPrimed ==
  TypeOK' <=> /\ DOMAIN apd' = Descs /\ cur' \in Descs
              /\ \A d \in Descs : Record(apd'[d])
              /\ DOMAIN ipd' = {"n", "p", "csize"} /\ ipd'.n \in 0..1 /\ ipd'.p \in ParamTypes \cup {"none"}
              /\ meta' \in _sqlc_sql_map \cup {NoMeta} /\ trusted' \in BOOLEAN
  BY DEF TypeOK, Record, Unbound

\* An entry of the table is a pair of a C type and an SQL type.
LEMMA Pairing ==
  ASSUME NEW v, NEW p, <<v, p>> \in _sqlc_sql_map
  PROVE  v \in CTypes /\ p \in ParamTypes
  <1>1. \E k \in _sqlc_sql_map : k[2] = p
    BY <<v, p>>[2] = p
  <1>2. p \in ParamTypes
    BY <1>1 DEF ParamTypes
  <1>3. v \in CTypes
    BY DEF _sqlc_sql_map, Pairs, CTypes, Texts, Integral
  <1> QED BY <1>2, <1>3

\* A record that points to an array.
LEMMA PointingRecord ==
  ASSUME NEW v \in CTypes \cup {"none"}, NEW buf, NEW xs
  PROVE  Record(Pointing(v, buf, xs)) /\ Pointing(v, buf, xs).n = 1 /\ Pointing(v, buf, xs).v = v
  BY DEF Pointing, Record

\* Replacing the record of one descriptor.
LEMMA Replaced ==
  ASSUME DOMAIN apd = Descs, \A d \in Descs : Record(apd[d]), NEW d \in Descs, NEW r, Record(r),
         apd' = [apd EXCEPT ![d] = r]
  PROVE  DOMAIN apd' = Descs /\ (\A e \in Descs : Record(apd'[e])) /\ apd'[d] = r
         /\ \A e \in Descs \ {d} : apd'[e] = apd[e]
  OBVIOUS

LEMMA BindStep ==
  ASSUME IInv, NEW v, NEW p, NEW size, NEW fails, SQLBindParameter(v, p, size, fails)
  PROVE  IInv'
  <1> DEFINE rec == [Pointing(v, size[1], Default(v)) EXCEPT !.n = apd[cur].n]
             one == [Pointing(v, size[1], Default(v)) EXCEPT !.n = 1]
  <1>1. /\ DOMAIN apd = Descs /\ cur \in Descs /\ \A d \in Descs : Record(apd[d])
        /\ DOMAIN ipd = {"n", "p", "csize"} /\ ipd.n \in 0..1 /\ ipd.p \in ParamTypes \cup {"none"}
        /\ meta \in _sqlc_sql_map \cup {NoMeta}
    BY TypeParts DEF IInv
  <1>2. v \in CTypes /\ p \in ParamTypes /\ <<v, p>> \in _sqlc_sql_map /\ cur' = cur
    BY Pairing DEF SQLBindParameter
  <1>3. apd[cur].n \in 0..1
    BY <1>1 DEF Record
  <1>4. Record(rec) /\ Record(one) /\ one.n = 1 /\ one.v = v
    <2>1. ASSUME NEW n \in 0..1
          PROVE  LET r == [Pointing(v, size[1], Default(v)) EXCEPT !.n = n]
                 IN  Record(r) /\ r.n = n /\ r.v = v
      BY <1>2 DEF Pointing, Record
    <2>2. 1 \in 0..1
      OBVIOUS
    <2> QED BY <1>3, <2>1, <2>2
  <1>5. set_APD_record(v, size) = [apd EXCEPT ![cur] = rec]
    BY DEF set_APD_record
  <1>6. [set_APD_record(v, size) EXCEPT ![cur].n = 1] = [apd EXCEPT ![cur] = one]
    <2>1. [rec EXCEPT !.n = 1] = one
      BY DEF Pointing
    <2> HIDE DEF rec, one
    <2> QED BY <1>1, <1>5, <2>1
  <1>7. set_IPD_record(p, size) = [ipd EXCEPT !.p = p, !.csize = size[2]]
    BY DEF set_IPD_record
  <1> HIDE DEF rec, one
  <1>8. CASE fails = "no" /\ apd' = [apd EXCEPT ![cur] = one] /\ ipd' = [set_IPD_record(p, size) EXCEPT !.n = 1]
             /\ meta' = <<v, p>> /\ trusted' = TRUE
    <2>1. DOMAIN apd' = Descs /\ (\A e \in Descs : Record(apd'[e])) /\ apd'[cur] = one
      BY <1>1, <1>4, <1>8, Replaced
    <2>2. DOMAIN ipd' = {"n", "p", "csize"} /\ ipd'.n = 1 /\ ipd'.p = p
      BY <1>1, <1>7, <1>8
    <2>3. TypeOK'
      BY <1>1, <1>2, <1>8, <2>1, <2>2, TypePartsPrimed
    <2>4. BindingAgrees'
      BY <1>2, <1>4, <1>8, <2>1, <2>2 DEF BindingAgrees
    <2> QED BY <2>3, <2>4 DEF IInv
  <1>9. CASE apd' = [apd EXCEPT ![cur] = rec] /\ ipd' \in {ipd, set_IPD_record(p, size)} /\ meta' = meta
             /\ trusted' = FALSE
    <2>1. DOMAIN apd' = Descs /\ (\A e \in Descs : Record(apd'[e]))
      BY <1>1, <1>4, <1>9, Replaced
    <2>2. DOMAIN ipd' = {"n", "p", "csize"} /\ ipd'.n \in 0..1 /\ ipd'.p \in ParamTypes \cup {"none"}
      <3>1. CASE ipd' = ipd
        BY <1>1, <3>1
      <3>2. CASE ipd' = [ipd EXCEPT !.p = p, !.csize = size[2]]
        <4>1. DOMAIN ipd' = DOMAIN ipd /\ ipd'.n = ipd.n /\ ipd'.p = p
          BY <1>1, <3>2
        <4> QED BY <1>1, <1>2, <4>1
      <3> QED BY <1>7, <1>9, <3>1, <3>2
    <2>3. TypeOK'
      BY <1>1, <1>2, <1>9, <2>1, <2>2, TypePartsPrimed
    <2>4. BindingAgrees'
      BY <1>9 DEF BindingAgrees
    <2> QED BY <2>3, <2>4 DEF IInv
  <1> QED BY <1>5, <1>6, <1>8, <1>9 DEF SQLBindParameter, _params_bind_meta_set

\* The steps that change one record of a descriptor and nothing else of a binding.
LEMMA RecordStep ==
  ASSUME IInv, NEW d \in Descs, NEW r, Record(r), apd' = [apd EXCEPT ![d] = r], UNCHANGED <<cur, ipd, meta>>,
         trusted' \in BOOLEAN, trusted' => trusted, trusted' /\ d = cur => r.n = 1 /\ r.v = apd[cur].v
  PROVE  IInv'
  <1>1. /\ DOMAIN apd = Descs /\ cur \in Descs /\ \A e \in Descs : Record(apd[e])
        /\ DOMAIN ipd = {"n", "p", "csize"} /\ ipd.n \in 0..1 /\ ipd.p \in ParamTypes \cup {"none"}
        /\ meta \in _sqlc_sql_map \cup {NoMeta}
    BY TypeParts DEF IInv
  <1>2. /\ DOMAIN apd' = Descs /\ (\A e \in Descs : Record(apd'[e])) /\ apd'[d] = r
        /\ \A e \in Descs \ {d} : apd'[e] = apd[e]
    BY <1>1, Replaced
  <1>3. TypeOK'
    BY <1>1, <1>2, TypePartsPrimed
  <1>4. BindingAgrees'
    <2> SUFFICES ASSUME trusted'
                 PROVE  apd'[cur].n = 1 /\ ipd.n = 1 /\ meta = <<apd'[cur].v, ipd.p>>
      BY DEF BindingAgrees
    <2>1. apd[cur].n = 1 /\ ipd.n = 1 /\ meta = <<apd[cur].v, ipd.p>>
      BY DEF IInv, BindingAgrees
    <2>2. apd'[cur].n = 1 /\ apd'[cur].v = apd[cur].v
      BY <1>1, <1>2, <2>1
    <2> QED BY <2>1, <2>2
  <1> QED BY <1>3, <1>4 DEF IInv

\* The steps that change nothing of a binding.
LEMMA QuietStep ==
  ASSUME IInv, UNCHANGED <<apd, cur, ipd, meta, trusted>>
  PROVE  IInv'
  BY DEF IInv, TypeOK, BindingAgrees

LEMMA ResetStep ==
  ASSUME IInv, _stmt_reset_params
  PROVE  IInv'
  <1>1. /\ DOMAIN apd = Descs /\ cur \in Descs /\ \A e \in Descs : Record(apd[e])
        /\ DOMAIN ipd = {"n", "p", "csize"} /\ ipd.n \in 0..1 /\ ipd.p \in ParamTypes \cup {"none"}
    BY TypeParts DEF IInv
  <1> DEFINE r == [apd[cur] EXCEPT !.n = 0]
  <1>2. Record(r)
    BY <1>1 DEF Record
  <1>3. apd' = [apd EXCEPT ![cur] = r] /\ cur' = cur /\ meta' = NoMeta /\ trusted' = FALSE
        /\ ipd' = [ipd EXCEPT !.n = 0]
    BY <1>1 DEF _stmt_reset_params
  <1> HIDE DEF r
  <1>4. DOMAIN apd' = Descs /\ \A e \in Descs : Record(apd'[e])
    BY <1>1, <1>2, <1>3, Replaced
  <1>5. DOMAIN ipd' = {"n", "p", "csize"} /\ ipd'.n = 0 /\ ipd'.p = ipd.p
    BY <1>1, <1>3
  <1>6. TypeOK'
    <2>1. cur' \in Descs /\ meta' \in _sqlc_sql_map \cup {NoMeta} /\ trusted' \in BOOLEAN
      BY <1>1, <1>3
    <2>2. ipd'.n \in 0..1 /\ ipd'.p \in ParamTypes \cup {"none"}
      BY <1>1, <1>5
    <2> QED BY <1>4, <1>5, <2>1, <2>2, TypePartsPrimed
  <1>7. BindingAgrees'
    BY <1>3 DEF BindingAgrees
  <1> QED BY <1>6, <1>7 DEF IInv

LEMMA SetAPDStep ==
  ASSUME IInv, NEW d \in Descs, SetAPD(d)
  PROVE  IInv'
  <1>1. cur' = d /\ trusted' = FALSE /\ UNCHANGED <<apd, ipd, meta>>
    BY DEF SetAPD
  <1>2. TypeOK'
    BY <1>1 DEF IInv, TypeOK
  <1>3. BindingAgrees'
    BY <1>1 DEF BindingAgrees
  <1> QED BY <1>2, <1>3 DEF IInv

LEMMA OthersStep ==
  ASSUME IInv, OtherStmtResets \/ \E v \in CTypes : OtherStmtBinds(v)
  PROVE  IInv'
  <1>1. DOMAIN apd = Descs /\ "D" \in Descs /\ trusted \in BOOLEAN /\ \A e \in Descs : Record(apd[e])
    BY TypeParts DEF IInv, Descs
  <1>2. UNCHANGED <<cur, ipd, meta>> /\ trusted' = (trusted /\ cur # "D")
    BY DEF OtherStmtResets, OtherStmtBinds
  <1>3. CASE OtherStmtResets
    <2> DEFINE r == [apd["D"] EXCEPT !.n = 0]
    <2>1. Record(r)
      BY <1>1 DEF Record
    <2>2. apd' = [apd EXCEPT !["D"] = r]
      BY <1>1, <1>3 DEF OtherStmtResets
    <2> HIDE DEF r
    <2> QED BY <1>1, <1>2, <2>1, <2>2, RecordStep
  <1>4. ASSUME NEW v \in CTypes, OtherStmtBinds(v)
        PROVE  IInv'
    <2> DEFINE r == Pointing(v, Width[v], Default(v))
    <2>1. Record(r)
      BY PointingRecord
    <2>2. apd' = [apd EXCEPT !["D"] = r]
      BY <1>4 DEF OtherStmtBinds
    <2> HIDE DEF r
    <2> QED BY <1>1, <1>2, <2>1, <2>2, RecordStep
  <1> QED BY <1>3, <1>4

LEMMA RefillStep ==
  ASSUME IInv, NEW xs, Refill(xs)
  PROVE  IInv'
  <1>1. DOMAIN apd = Descs /\ cur \in Descs /\ trusted \in BOOLEAN /\ \A e \in Descs : Record(apd[e])
    BY TypeParts DEF IInv
  <1> DEFINE r == Pointing(apd[cur].v, apd[cur].buf, xs)
  <1>2. Record(r) /\ r.n = 1 /\ r.v = apd[cur].v
    BY <1>1, PointingRecord DEF Record
  <1>3. apd' = [apd EXCEPT ![cur] = r] /\ UNCHANGED <<cur, ipd, meta, trusted>>
    BY <1>1 DEF Refill
  <1> HIDE DEF r
  <1> QED BY <1>1, <1>2, <1>3, RecordStep

LEMMA ExecuteStep ==
  ASSUME IInv, NEW stmt, NEW rows, SQLExecute(stmt, rows)
  PROVE  IInv'
  <1>1. DOMAIN apd = Descs /\ cur \in Descs /\ trusted \in BOOLEAN /\ \A e \in Descs : Record(apd[e])
    BY TypeParts DEF IInv
  <1>2. PICK mem : apd' = [apd EXCEPT ![cur].mem = mem]
    BY DEF SQLExecute
  <1>3. UNCHANGED <<cur, ipd, meta, trusted>>
    BY DEF SQLExecute
  <1> DEFINE r == [apd[cur] EXCEPT !.mem = mem]
  <1>4. Record(r) /\ r.n = apd[cur].n /\ r.v = apd[cur].v
    BY <1>1 DEF Record
  <1>5. apd' = [apd EXCEPT ![cur] = r]
    BY <1>1, <1>2
  <1>6. trusted => apd[cur].n = 1
    BY DEF IInv, BindingAgrees
  <1> HIDE DEF r
  <1> QED BY <1>1, <1>3, <1>4, <1>5, <1>6, RecordStep

\* The three places a binding is written to stay of one piece.
THEOREM Invariance == Spec => []IInv
  <1>1. Init => IInv
    <2> SUFFICES ASSUME Init
                 PROVE  IInv
      OBVIOUS
    <2>1. apd = [d \in Descs |-> Unbound] /\ cur = "own" /\ ipd = [n |-> 0, p |-> "none", csize |-> 0]
          /\ meta = NoMeta /\ trusted = FALSE
      BY DEF Init
    <2>2. \A d \in Descs : Record(apd[d])
      BY <2>1 DEF Record, Unbound
    <2>3. TypeOK
      <3>1. DOMAIN apd = Descs /\ cur \in Descs
        BY <2>1 DEF Descs
      <3>2. DOMAIN ipd = {"n", "p", "csize"} /\ ipd.n \in 0..1 /\ ipd.p \in ParamTypes \cup {"none"}
        BY <2>1
      <3>3. meta \in _sqlc_sql_map \cup {NoMeta} /\ trusted \in BOOLEAN
        BY <2>1
      <3> QED BY <2>2, <3>1, <3>2, <3>3, TypeParts
    <2>4. BindingAgrees
      BY <2>1 DEF BindingAgrees
    <2> QED BY <2>3, <2>4 DEF IInv
  <1>2. IInv /\ [Next]_vars => IInv'
    <2> SUFFICES ASSUME IInv, [Next]_vars
                 PROVE  IInv'
      OBVIOUS
    <2>1. CASE Bind
      BY <2>1, BindStep DEF Bind
    <2>2. CASE _stmt_reset_params
      BY <2>2, ResetStep
    <2>3. ASSUME NEW d \in Descs, SetAPD(d)
          PROVE  IInv'
      BY <2>3, SetAPDStep
    <2>4. CASE OtherStmtResets \/ \E v \in CTypes : OtherStmtBinds(v)
      BY <2>4, OthersStep
    <2>5. ASSUME NEW xs, Refill(xs)
          PROVE  IInv'
      BY <2>5, RefillStep
    <2>6. CASE ErrnoLeft \/ NextCall \/ UNCHANGED vars
      BY <2>6, QuietStep DEF ErrnoLeft, NextCall, vars
    <2>7. ASSUME NEW stmt \in Statements, NEW rows \in Rows, SQLExecuteRefused(stmt, rows)
          PROVE  IInv'
      BY <2>7, QuietStep DEF SQLExecuteRefused
    <2>8. CASE Execute
      BY <2>8, ExecuteStep DEF Execute
    <2> QED BY <2>1, <2>2, <2>3, <2>4, <2>5, <2>6, <2>7, <2>8 DEF Next
  <1> QED BY <1>1, <1>2, PTL DEF Spec

\* The descriptors keep their types (SQLBindParameter, SQL_RESET_PARAMS and what
\* another statement does to a shared descriptor).
THEOREM TypeCorrect == Spec => []TypeOK
  <1>1. IInv => TypeOK
    BY DEF IInv
  <1> QED BY <1>1, Invariance, PTL

\* The functions kept for a parameter are those of its descriptors' types
\* (_params_bind_meta_set, set_APD_record, set_IPD_record).
THEOREM BindingSound == Spec => []BindingAgrees
  <1>1. IInv => BindingAgrees
    BY DEF IInv
  <1> QED BY <1>1, Invariance, PTL

-----------------------------------------------------------------------------
(* Naturals.                                                               *)

\* A set of naturals that is not empty has a least member.
LEMMA Least ==
  ASSUME NEW C \in SUBSET Nat, C # {}
  PROVE  \E n \in C : \A m \in C : n <= m
  <1> DEFINE R == OpToRel(<, Nat)
  <1>1. IsWellFoundedOn(R, Nat)
    BY NatLessThanWellFounded
  <1>2. \A x, y \in Nat : <<x, y>> \in R <=> x < y
    BY DEF OpToRel
  <1> HIDE DEF R
  <1>3. PICK x \in C : \A y \in C : ~(<<y, x>> \in R)
    BY <1>1, WFMin
  <1>4. \A y \in C : y \in Nat
    OBVIOUS
  <1>5. \A y \in C : ~(y < x)
    BY <1>2, <1>3, <1>4
  <1>6. \A y \in C : x <= y
    BY <1>4, <1>5
  <1> QED BY <1>6

\* Induction: what holds of 0 and is passed on holds of every natural.
LEMMA Induct ==
  ASSUME NEW S \in SUBSET Nat, 0 \in S, \A n \in S : n + 1 \in S
  PROVE  S = Nat
  <1> DEFINE C == Nat \ S
  <1> SUFFICES ASSUME C # {} PROVE FALSE
    OBVIOUS
  <1>1. PICK n \in C : \A m \in C : n <= m
    BY Least
  <1>2. n \in Nat /\ n # 0
    OBVIOUS
  <1>3. n - 1 \in Nat /\ ~(n <= n - 1)
    BY <1>2
  <1>4. n - 1 \in S
    BY <1>1, <1>3
  <1>5. (n - 1) + 1 = n
    BY <1>2
  <1>6. n \in S
    BY <1>4, <1>5
  <1> QED BY <1>6

-----------------------------------------------------------------------------
(* Integers in bytes.                                                      *)

\* The widths of the C types, and the integers of each width.
LEMMA Widths ==
  /\ Width["SBIGINT"] = 8 /\ Width["DOUBLE"] = 8
  /\ Width["SLONG"] = 4 /\ Width["LONG"] = 4 /\ Width["FLOAT"] = 4
  /\ Width["SHORT"] = 2
  /\ Width["STINYINT"] = 1 /\ Width["CHAR"] = 1 /\ Width["WCHAR"] = 1 /\ Width["BINARY"] = 1
  /\ \A v \in CTypes : Width[v] \in {1, 2, 4, 8}
  BY DEF Width, CTypes, Texts, Integral

\* The powers of four.
LEMMA Fourfold ==
  ASSUME NEW k \in 0..7
  PROVE  4^(k + 1) = 4 * 4^k
  <1>1. \/ (k = 0 /\ k + 1 = 1) \/ (k = 1 /\ k + 1 = 2) \/ (k = 2 /\ k + 1 = 3) \/ (k = 3 /\ k + 1 = 4)
        \/ (k = 4 /\ k + 1 = 5) \/ (k = 5 /\ k + 1 = 6) \/ (k = 6 /\ k + 1 = 7) \/ (k = 7 /\ k + 1 = 8)
    OBVIOUS
  <1>2. 4^1 = 4 * 4^0 /\ 4^2 = 4 * 4^1 /\ 4^3 = 4 * 4^2 /\ 4^4 = 4 * 4^3
    BY SMT
  <1>3. 4^5 = 4 * 4^4 /\ 4^6 = 4 * 4^5 /\ 4^7 = 4 * 4^6 /\ 4^8 = 4 * 4^7
    BY SMT
  <1> QED BY <1>1, <1>2, <1>3, Zenon
LEMMA FourToZero == 4^0 = 1
  OBVIOUS

LEMMA PowersArePositive == ASSUME NEW k \in 0..8 PROVE 4^k \in Nat \ {0}
  <1> DEFINE S == {n \in 0..8 : 4^n \in Nat \ {0}}
  <1>2. 0 \in S
     BY FourToZero
  <1>3. \A n \in 0..7 : n \in S => n + 1 \in S
    <2> SUFFICES ASSUME NEW n \in 0..7, n \in S PROVE n + 1 \in S
      OBVIOUS
    <2>1. 4^(n + 1) = 4 * 4^n
      BY Fourfold
    <2>3. PICK p : p = 4^n
      OBVIOUS
    <2>4. 4 * p \in Nat \ {0}
      BY <2>3
    <2>2. n + 1 \in 0..8
      OBVIOUS
    <2> QED BY <2>1, <2>2, <2>3, <2>4
  <1> HIDE DEF S
  <1>4. 1 \in S /\ 2 \in S /\ 3 \in S /\ 4 \in S
    BY <1>2, <1>3
  <1>5. 5 \in S /\ 6 \in S /\ 7 \in S /\ 8 \in S
    BY <1>3, <1>4
  <1>6. k \in S
    BY <1>2, <1>4, <1>5
  <1> QED BY <1>6 DEF S
LEMMA HalfIsHalf ==
  ASSUME NEW w \in {1, 2, 4, 8}
  PROVE  Half(w) \in Nat \ {0} /\ 4^w = 2 * Half(w) /\ 4^w \in Nat \ {0}
  <1>1. 4^w = 4 * 4^(w - 1) /\ 4^(w - 1) \in Nat \ {0}
    <2>1. w - 1 \in 0..7 /\ (w - 1) + 1 = w /\ w - 1 \in 0..8
      OBVIOUS
    <2>2. 4^((w - 1) + 1) = 4 * 4^(w - 1)
      BY <2>1, Fourfold
    <2> QED BY <2>1, <2>2, PowersArePositive
  <1>2. \A p, q : q \in Nat \ {0} /\ p = 4 * q => p \div 2 = 2 * q /\ p \in Nat \ {0} /\ 2 * q \in Nat \ {0}
                     /\ p = 2 * (2 * q)
    OBVIOUS
  <1>3. Half(w) = 4^w \div 2
    BY DEF Half
  <1>4. Half(w) = 2 * 4^(w-1)
    BY <1>1, <1>2, <1>3
  <1> QED BY <1>1, <1>2, <1>4
LEMMA AnotherDigit ==
  ASSUME NEW p \in Nat, NEW a \in 0 .. p - 1, NEW q \in 0..3
  PROVE  a + q * p \in 0 .. 4 * p - 1
  <1>1. q = 0 \/ q = 1 \/ q = 2 \/ q = 3
    OBVIOUS
  <1> QED BY <1>1
LEMMA Division ==
  ASSUME NEW p \in Nat \ {0}, NEW u \in Nat
  PROVE  u \div p \in Nat /\ u % p \in 0 .. p - 1 /\ u = p * (u \div p) + (u % p)
  OBVIOUS
LEMMA Unique ==
  ASSUME NEW p \in Nat \ {0}, NEW a \in Nat, NEW b \in Nat, NEW r \in 0 .. p - 1, NEW s \in 0 .. p - 1, p * a + r = p * b + s
  PROVE  r = s
  <1>1. CASE a = b 
    BY <1>1
  <1>2. CASE a > b
    <2>1. p * (a - b) = s - r /\ a - b >= 1
      BY <1>2
    <2>2. PICK d \in Nat \ {0} : a - b = d
       BY <2>1
    <2>3. p * d >= p
       OBVIOUS
    <2> QED BY <2>1, <2>2, <2>3
  <1>3. CASE b > a
    <2>1. p * (b - a) = r - s /\ b - a >= 1
      BY <1>3
    <2>2. PICK d \in Nat \ {0} : b - a = d
       BY <2>1
    <2>3. p * d >= p
       OBVIOUS
    <2> QED BY <2>1, <2>2, <2>3
  <1> QED BY <1>1, <1>2, <1>3
LEMMA NextDigit ==
  ASSUME NEW p \in Nat \ {0}, NEW u \in Nat
  PROVE  (u % p) + ((u \div p) % 4) * p = u % (4 * p)
  <1>1. PICK a \in Nat, b \in 0 .. p - 1 : a = u \div p /\ b = u % p /\ u = p * a + b
    BY Division
  <1>2. PICK c \in Nat, d \in 0..3 : d = a % 4 /\ a = 4 * c + d
    OBVIOUS
  <1>3. 4 * p \in Nat \ {0}
    OBVIOUS
  <1>4. PICK e \in Nat, f \in 0 .. 4 * p - 1 : f = u % (4 * p) /\ u = (4 * p) * e + f
    BY <1>3, Division
  <1>5. b + d * p \in 0 .. 4 * p - 1
    BY AnotherDigit
  <1>6. (4 * p) * c + (b + d * p) = u
    <2>1. \A x, y, z \in Int : z = x + y => x + (b + y) = z + b
      OBVIOUS
    <2>2. (4 * p) * c \in Int /\ d * p \in Int /\ p * a \in Int
      OBVIOUS
    <2>3. p * a = (4 * p) * c + d * p
      BY <1>2
    <2> QED BY <1>1, <2>1, <2>2, <2>3
  <1>7. b + d * p = f
    BY <1>3, <1>4, <1>5, <1>6, Unique
  <1> QED BY <1>1, <1>2, <1>4, <1>7

\* The sums of the digits of a sequence exist, and FromDigits takes the last.
LEMMA Sums ==
  ASSUME NEW bs, NEW w \in Nat, Len(bs) = w
  PROVE  \E f : /\ f[0] = 0 /\ (\A k \in 1..w : f[k] = f[k - 1] + bs[k][2] * 4^(k - 1))
                /\ FromDigits(bs) = IF f[w] < Half(w) THEN f[w] ELSE f[w] - 4^w
  <1> DEFINE Next1(y, k) == y + bs[k][2] * 4^(k - 1)
             Good(f, n) == f = [k \in 0..n |-> IF k = 0 THEN 0 ELSE Next1(f[k - 1], k)]
             S == {n \in Nat : \E f : Good(f, n)}
  <1>1. 0 \in S
    <2>1. Good([k \in 0..0 |-> 0], 0)
      OBVIOUS
    <2> QED BY <2>1
  <1>2. ASSUME NEW n \in Nat, NEW f, Good(f, n) PROVE \E g : Good(g, n + 1)
    <2> HIDE DEF Next1
    <2> DEFINE g == [k \in 0..(n + 1) |-> IF k = n + 1 THEN Next1(f[n], k) ELSE f[k]]
    <2>1. \A k \in 0..n : g[k] = f[k]
      OBVIOUS
    <2>2. ASSUME NEW k \in 0..(n + 1) PROVE g[k] = IF k = 0 THEN 0 ELSE Next1(g[k - 1], k)
      <3>1. CASE k = 0
        <4>1. f[0] = 0
          BY <1>2
        <4> QED BY <2>1, <3>1, <4>1
      <3>2. CASE k = n + 1
        <4>1. k - 1 = n /\ n \in 0..n /\ k # 0
          BY <3>2
        <4> QED BY <2>1, <3>2, <4>1
      <3>3. CASE k \in 1..n
        <4>1. k - 1 \in 0..n /\ k # 0 /\ k \in 0..n
          BY <3>3
        <4>2. f[k] = Next1(f[k - 1], k)
          BY <1>2, <4>1
        <4> QED BY <2>1, <4>1, <4>2
      <3> QED BY <3>1, <3>2, <3>3
    <2>3. Good(g, n + 1)
      BY <2>2
    <2> QED BY <2>3
  <1>3. w \in S
    <2> HIDE DEF Good
    <2>1. \A n \in S : n + 1 \in S
      BY <1>2
    <2>2. S \subseteq Nat
      OBVIOUS
    <2> HIDE DEF S
    <2> QED BY <1>1, <2>1, <2>2, Induct
  <1> DEFINE sum == CHOOSE f : Good(f, w)
  <1>4. Good(sum, w)
    <2> HIDE DEF Good
    <2> QED BY <1>3
  <1>5. sum[0] = 0 /\ \A k \in 1..w : sum[k] = Next1(sum[k - 1], k)
    <2> HIDE DEF sum, Next1
    <2> QED BY <1>4
  <1>6. FromDigits(bs) = IF sum[w] < Half(w) THEN sum[w] ELSE sum[w] - 4^w
    BY DEF FromDigits
  <1> HIDE DEF sum
  <1> QED BY <1>5, <1>6

\* A byte is one of four digits.
IsDigits(bs, w) == Len(bs) = w /\ \A k \in 1..w : bs[k][2] \in 0..3

\* The integer read from w digits is one of w bytes.
LEMMA DigitsAreSigned ==
  ASSUME NEW w \in {1, 2, 4, 8}, NEW bs, IsDigits(bs, w)
  PROVE  FromDigits(bs) \in Signed(w)
  <1>1. PICK f : /\ f[0] = 0 /\ (\A k \in 1..w : f[k] = f[k - 1] + bs[k][2] * 4^(k - 1))
                 /\ FromDigits(bs) = IF f[w] < Half(w) THEN f[w] ELSE f[w] - 4^w
    <2>1. w \in Nat /\ Len(bs) = w
      BY DEF IsDigits
    <2> QED BY <2>1, Sums, Zenon
  <1> DEFINE S == {k \in Nat : k <= w => f[k] \in 0 .. 4^k - 1}
  <1>2. 0 \in S
    BY <1>1, FourToZero
  <1>3. ASSUME NEW k \in S PROVE k + 1 \in S
    <2> SUFFICES ASSUME k + 1 <= w PROVE f[k + 1] \in 0 .. 4^(k + 1) - 1
      OBVIOUS
    <2>1. k \in 0..7 /\ k \in 0..8 /\ k + 1 \in 1..w /\ (k + 1) - 1 = k
      OBVIOUS
    <2>2. f[k] \in 0 .. 4^k - 1 /\ 4^k \in Nat
      BY <2>1, PowersArePositive
    <2>3. f[k + 1] = f[k] + bs[k + 1][2] * 4^k /\ bs[k + 1][2] \in 0..3
      BY <1>1, <2>1 DEF IsDigits
    <2>4. 4^(k + 1) = 4 * 4^k
      BY <2>1, Fourfold
    <2> QED BY <2>2, <2>3, <2>4, AnotherDigit
  <1>4. w \in S
    <2>1. S \subseteq Nat
      OBVIOUS
    <2> HIDE DEF S
    <2> QED BY <1>2, <1>3, <2>1, Induct
  <1>5. f[w] \in 0 .. 4^w - 1
    BY <1>4
  <1>6. Half(w) \in Nat \ {0} /\ 4^w = 2 * Half(w)
    BY HalfIsHalf
  <1>7. \A u, h : h \in Nat /\ u \in 0 .. 2 * h - 1 => (IF u < h THEN u ELSE u - 2 * h) \in -h .. h - 1
    OBVIOUS
  <1> QED BY <1>1, <1>5, <1>6, <1>7 DEF Signed

AreDigitsOf(bs, n, w) == Len(bs) = w /\ \A k \in 1..w : bs[k] = Digits(n, w)[k]

\* An integer of w bytes is read as it was written.
LEMMA DigitsReadBack ==
  ASSUME NEW w \in {1, 2, 4, 8}, NEW n \in Signed(w), NEW bs, AreDigitsOf(bs, n, w)
  PROVE  FromDigits(bs) = n
  <1> DEFINE u == n % 4^w
  <1>1. PICK f : /\ f[0] = 0 /\ (\A k \in 1..w : f[k] = f[k - 1] + bs[k][2] * 4^(k - 1))
                 /\ FromDigits(bs) = IF f[w] < Half(w) THEN f[w] ELSE f[w] - 4^w
    <2>1. w \in Nat /\ Len(bs) = w
      BY DEF AreDigitsOf
    <2> QED BY <2>1, Sums, Zenon
  <1>2. Half(w) \in Nat \ {0} /\ 4^w = 2 * Half(w) /\ 4^w \in Nat \ {0}
    BY HalfIsHalf
  <1>3. n \in -Half(w) .. Half(w) - 1 /\ n \in Int
    BY <1>2 DEF Signed
  <1>4. u \in Nat
    BY <1>2, <1>3
  <1>5. \A k \in 1..w : bs[k][2] = (u \div 4^(k - 1)) % 4
    BY DEF Digits, AreDigitsOf
  <1> DEFINE S == {k \in Nat : k <= w => f[k] = u % 4^k}
  <1>6. 0 \in S
    BY <1>1, <1>4, FourToZero
  <1>7. ASSUME NEW k \in S PROVE k + 1 \in S
    <2> HIDE DEF u
    <2> SUFFICES ASSUME k + 1 <= w PROVE f[k + 1] = u % 4^(k + 1)
      OBVIOUS
    <2>1. k \in 0..7 /\ k \in 0..8 /\ k + 1 \in 1..w /\ (k + 1) - 1 = k
      OBVIOUS
    <2>2. f[k] = u % 4^k /\ 4^k \in Nat \ {0}
      <3>1. k <= w
        BY <2>1
      <3>2. f[k] = u % 4^k
        BY <3>1, Zenon
      <3> QED BY <2>1, <3>2, PowersArePositive
    <2>3. f[k + 1] = f[k] + bs[k + 1][2] * 4^k /\ bs[k + 1][2] = (u \div 4^k) % 4
      BY <1>1, <1>5, <2>1
    <2>4. 4^(k + 1) = 4 * 4^k
      BY <2>1, Fourfold
    <2> QED BY <1>4, <2>2, <2>3, <2>4, NextDigit
  <1>8. f[w] = u % 4^w
    <2>1. S \subseteq Nat
      OBVIOUS
    <2>2. w \in S
      <3> HIDE DEF S
      <3> QED BY <1>6, <1>7, <2>1, Induct
    <2> QED BY <2>2
  <1>9. \A h, m : h \in Nat \ {0} /\ m \in -h .. h - 1 => m % (2 * h) = IF m >= 0 THEN m ELSE m + 2 * h
    <2> SUFFICES ASSUME NEW h \in Nat \ {0}, NEW m \in -h .. h - 1
                 PROVE  m % (2 * h) = IF m >= 0 THEN m ELSE m + 2 * h
      OBVIOUS
    <2> QED OBVIOUS
  <1>10. PICK h \in Nat \ {0} : h = Half(w) /\ 4^w = 2 * h
    BY <1>2
  <1>11. FromDigits(bs) = IF f[w] < h THEN f[w] ELSE f[w] - 2 * h
    BY <1>1, <1>10
  <1>12. u = IF n >= 0 THEN n ELSE n + 2 * h
    <2>1. u = n % (2 * h) /\ n \in -h .. h - 1
      BY <1>3, <1>10
    <2> QED BY <1>9, <2>1
  <1>13. u \in 0 .. 2 * h - 1
    BY <1>3, <1>10, <1>12
  <1>14. f[w] = u
    <2>1. \A x, p : p \in Nat /\ x \in 0 .. p - 1 => x % p = x
      OBVIOUS
    <2>2. f[w] = u % (2 * h) /\ 2 * h \in Nat
      BY <1>8, <1>10
    <2> HIDE DEF u
    <2> QED BY <1>13, <2>1, <2>2
  <1> QED BY <1>3, <1>10, <1>11, <1>12, <1>14

\* What is written in digits.
LEMMA DigitsWritten ==
  ASSUME NEW w \in {1, 2, 4, 8}, NEW n \in Int
  PROVE  /\ DOMAIN Digits(n, w) = 1..w
         /\ \A k \in 1..w : Digits(n, w)[k] \in {"i"} \X (0..3) \X {0}
  <1>1. DOMAIN Digits(n, w) = 1..w
    BY DEF Digits
  <1>2. ASSUME NEW k \in 1..w PROVE Digits(n, w)[k] \in {"i"} \X (0..3) \X {0}
    <2> DEFINE m == (n % 4^w) \div 4^(k - 1)
    <2>1. Digits(n, w)[k] = <<"i", m % 4, 0>>
      BY <1>2 DEF Digits
    <2>2. 4^w \in Nat \ {0} /\ 4^(k - 1) \in Nat \ {0}
      <3>1. w \in 0..8 /\ k - 1 \in 0..8
        OBVIOUS
      <3> QED BY <3>1, PowersArePositive
    <2>3. n % 4^w \in Nat
      BY <2>2
    <2>4. m \in Nat
      BY <2>2, <2>3
    <2> HIDE DEF m
    <2>5. m % 4 \in 0..3
      BY <2>4
    <2> QED BY <2>1, <2>5
  <1> QED BY <1>1, <1>2

-----------------------------------------------------------------------------
(* Memory.                                                                 *)

TextsThere == {txt \in [k : {"num", "date", "alien", "empty"}, n : Int, len : Nat] : IsText(txt)}
BinsThere  == [k : {"bin"}, n : {0}, len : Nat]

\* Bytes the application or a conversion writes.
Cells == ({"i"} \X (0..3) \X {0}) \cup ({"d"} \X Int \X Nat) \cup ({"f"} \X (-FltMax..FltMax) \X Nat)
         \cup ({"t"} \X TextsThere \X {0}) \cup ({"b"} \X BinsThere \X {0}) \cup {<<"garbage", 0, 0>>}

LEMMA CellParts ==
  ASSUME NEW c \in Cells
  PROVE  /\ c[1] = "i" => c[2] \in 0..3
         /\ c[1] = "d" => c[2] \in Int
         /\ c[1] = "f" => c[2] \in -FltMax..FltMax
         /\ c[1] = "t" => IsText(c[2])
         /\ c[1] = "b" => c[2] \in BinsThere
  <1>1. c[1] = "t" => c[2] \in TextsThere
    BY DEF Cells
  <1>2. c[1] = "t" => IsText(c[2])
    BY <1>1 DEF TextsThere
  <1>3. /\ c[1] = "i" => c[2] \in 0..3
        /\ c[1] = "d" => c[2] \in Int
        /\ c[1] = "f" => c[2] \in -FltMax..FltMax
        /\ c[1] = "b" => c[2] \in BinsThere
    BY DEF Cells
  <1> QED BY <1>2, <1>3

\* What a value of a C type is.
LEMMA ValueParts ==
  ASSUME NEW v \in CTypes, NEW x
  PROVE  /\ v \in Texts => (IsValue(v, x) <=> x[1] = "t" /\ x = <<"t", x[2]>> /\ IsText(x[2]))
         /\ v \in Integral => (IsValue(v, x) <=> x \in {"i"} \X Signed(Width[v]))
         /\ v = "DOUBLE" => (IsValue(v, x) <=> x \in {"d"} \X Int)
         /\ v = "FLOAT" => (IsValue(v, x) <=> x \in {"f"} \X (-FltMax..FltMax))
         /\ v = "BINARY" => (IsValue(v, x) <=> x \in {"b"} \X BinsThere)
         /\ IsValue(v, x) => x # Null /\ x # Garbage
  <1>1. CASE v \in Texts
    <2>1. IsValue(v, x) <=> x[1] = "t" /\ x = <<"t", x[2]>> /\ IsText(x[2])
      BY <1>1 DEF IsValue, Texts, Integral
    <2> QED BY <1>1, <2>1 DEF Texts, Integral, Null, Garbage
  <1>2. CASE v \in Integral
    <2>1. IsValue(v, x) <=> x \in {"i"} \X Signed(Width[v])
      BY <1>2 DEF IsValue, Texts, Integral
    <2> QED BY <1>2, <2>1 DEF Texts, Integral, Null, Garbage
  <1>3. CASE v = "DOUBLE"
    <2>1. IsValue(v, x) <=> x \in {"d"} \X Int
      BY <1>3 DEF IsValue, Texts, Integral
    <2> QED BY <1>3, <2>1 DEF Texts, Integral, Null, Garbage
  <1>4. CASE v = "FLOAT"
    <2>1. IsValue(v, x) <=> x \in {"f"} \X (-FltMax..FltMax)
      BY <1>4 DEF IsValue, Texts, Integral
    <2> QED BY <1>4, <2>1 DEF Texts, Integral, Null, Garbage
  <1>5. CASE v = "BINARY"
    <2>1. IsValue(v, x) <=> x \in {"b"} \X BinsThere
      BY <1>5 DEF IsValue, Texts, Integral, BinsThere
    <2> QED BY <1>5, <2>1 DEF Texts, Integral, Null, Garbage
  <1> QED BY <1>1, <1>2, <1>3, <1>4, <1>5 DEF CTypes

\* The bytes of a value, or of none.
LEMMA BytesWritten ==
  ASSUME NEW v \in CTypes, NEW x, x \in {Null, Garbage} \/ IsValue(v, x)
  PROVE  DOMAIN Bytes(v, x) = 1..Width[v] /\ \A k \in 1..Width[v] : Bytes(v, x)[k] \in Cells
  <1>1. Null # Garbage
    BY DEF Null, Garbage
  <1>2. CASE x = Null
    <2>1. Bytes(v, x) = [k \in 1..Width[v] |-> <<"i", 0, 0>>]
      BY <1>1, <1>2 DEF Bytes
    <2>2. <<"i", 0, 0>> \in Cells
      <3>1. 0 \in 0..3
        OBVIOUS
      <3> QED BY <3>1 DEF Cells
    <2> QED BY <2>1, <2>2
  <1>3. CASE x = Garbage
    <2>1. Bytes(v, x) = [k \in 1..Width[v] |-> <<"garbage", 0, 0>>]
      BY <1>1, <1>3 DEF Bytes
    <2>2. <<"garbage", 0, 0>> \in Cells
      BY DEF Cells
    <2> QED BY <2>1, <2>2
  <1>4. CASE IsValue(v, x)
    <2>0. x # Null /\ x # Garbage /\ Width[v] \in {1, 2, 4, 8}
      BY <1>4, ValueParts, Widths
    <2>1. CASE v \in Integral
      <3>1. Bytes(v, x) = Digits(x[2], Width[v])
        BY <2>0, <2>1 DEF Bytes
      <3>2. x[2] \in Signed(Width[v])
        BY <1>4, <2>1, ValueParts
      <3>3. x[2] \in Int
        BY <2>0, <3>2, HalfIsHalf DEF Signed
      <3>4. /\ DOMAIN Digits(x[2], Width[v]) = 1..Width[v]
            /\ \A k \in 1..Width[v] : Digits(x[2], Width[v])[k] \in {"i"} \X (0..3) \X {0}
        BY <2>0, <3>3, DigitsWritten
      <3> QED BY <3>1, <3>4 DEF Cells
    <2>2. CASE v \in {"DOUBLE", "FLOAT"}
      <3>1. Bytes(v, x) = [k \in 1..Width[v] |-> <<x[1], x[2], k>>]
        BY <2>0, <2>2 DEF Bytes, Integral
      <3>2. (v = "DOUBLE" /\ x \in {"d"} \X Int) \/ (v = "FLOAT" /\ x \in {"f"} \X (-FltMax..FltMax))
        BY <1>4, <2>2, ValueParts
      <3>3. \A k \in 1..Width[v] : k \in Nat /\ <<x[1], x[2], k>> \in Cells
        BY <2>0, <3>2 DEF Cells
      <3> QED BY <3>1, <3>3
    <2>3. CASE v \in Texts \cup {"BINARY"}
      <3>1. Bytes(v, x) = <<<<x[1], x[2], 0>>>> /\ Width[v] = 1
        BY <2>0, <2>3, Widths DEF Bytes, Integral, Texts
      <3>2. <<x[1], x[2], 0>> \in Cells
        <4>1. CASE v \in Texts
          <5>1. x[1] = "t" /\ IsText(x[2])
            BY <1>4, <4>1, ValueParts
          <5>2. x[2] \in TextsThere
            BY <5>1 DEF TextsThere, IsText
          <5> QED BY <5>1, <5>2 DEF Cells
        <4>2. CASE v = "BINARY"
          <5>1. x \in {"b"} \X BinsThere
            BY <1>4, <4>2, ValueParts
          <5> QED BY <5>1 DEF Cells
        <4> QED BY <2>3, <4>1, <4>2
      <3> QED BY <3>1, <3>2
    <2> QED BY <2>1, <2>2, <2>3 DEF CTypes
  <1> QED BY <1>2, <1>3, <1>4

LEMMA BytesAreCells ==
  ASSUME NEW v \in CTypes, NEW x, x \in {Null, Garbage} \/ IsValue(v, x)
  PROVE  Bytes(v, x) \in Seq(Cells) /\ Len(Bytes(v, x)) = Width[v]
  <1>1. Width[v] \in Nat
    BY Widths
  <1>2. \E f : Bytes(v, x) = [k \in 1..Width[v] |-> f[k]]
    <2>1. CASE x = Null
      <3>1. Bytes(v, x) = [k \in 1..Width[v] |-> <<"i", 0, 0>>]
        BY <2>1 DEF Bytes, Null, Garbage
      <3> DEFINE f == [k \in 1..Width[v] |-> <<"i", 0, 0>>]
      <3>2. f = [k \in 1..Width[v] |-> f[k]]
        OBVIOUS
      <3> QED BY <3>1, <3>2
    <2>2. CASE x = Garbage
      <3>1. Bytes(v, x) = [k \in 1..Width[v] |-> <<"garbage", 0, 0>>]
        BY <2>2 DEF Bytes, Null, Garbage
      <3> DEFINE f == [k \in 1..Width[v] |-> <<"garbage", 0, 0>>]
      <3>2. f = [k \in 1..Width[v] |-> f[k]]
        OBVIOUS
      <3> QED BY <3>1, <3>2
    <2>3. CASE x \notin {Null, Garbage}
      <3>1. CASE v \in Integral
        <4>1. Bytes(v, x) = Digits(x[2], Width[v])
          BY <2>3, <3>1 DEF Bytes
        <4> DEFINE n == x[2]
                   f == [k \in 1..Width[v] |-> <<"i", ((n % 4^Width[v]) \div 4^(k - 1)) % 4, 0>>]
        <4>2. Digits(n, Width[v]) = f
          BY DEF Digits
        <4>3. f = [k \in 1..Width[v] |-> f[k]]
          BY Zenon
        <4> HIDE DEF f
        <4> QED BY <4>1, <4>2, <4>3
      <3>2. CASE v \in {"DOUBLE", "FLOAT"}
        <4>1. Bytes(v, x) = [k \in 1..Width[v] |-> <<x[1], x[2], k>>]
          BY <2>3, <3>2 DEF Bytes, Integral
        <4> DEFINE f == [k \in 1..Width[v] |-> <<x[1], x[2], k>>]
        <4>2. f = [k \in 1..Width[v] |-> f[k]]
          OBVIOUS
        <4> QED BY <4>1, <4>2
      <3>3. CASE v \in Texts \cup {"BINARY"}
        <4>1. Bytes(v, x) = <<<<x[1], x[2], 0>>>> /\ Width[v] = 1
          BY <2>3, <3>3, Widths DEF Bytes, Integral, Texts
        <4> DEFINE f == <<<<x[1], x[2], 0>>>>
        <4>2. f = [k \in 1..1 |-> f[k]]
          OBVIOUS
        <4> QED BY <4>1, <4>2
      <3> QED BY <3>1, <3>2, <3>3 DEF CTypes
    <2> QED BY <2>1, <2>2, <2>3
  <1>3. \A k \in 1..Width[v] : Bytes(v, x)[k] \in Cells
    BY BytesWritten
  <1>4. Bytes(v, x) \in [1..Width[v] -> Cells]
    <2>1. PICK f : Bytes(v, x) = [k \in 1..Width[v] |-> f[k]]
      BY <1>2
    <2>2. \A k \in 1..Width[v] : f[k] \in Cells
      BY <1>3, <2>1
    <2> QED BY <2>1, <2>2
  <1> QED BY <1>1, <1>4

\* Which element of an array a byte is of, and which byte of it.
LEMMA Places ==
  ASSUME NEW w \in {1, 2, 4, 8}, NEW m \in Nat, NEW j \in Nat, j < w * m
  PROVE  j \div w \in 0 .. m - 1 /\ j % w \in 0 .. w - 1
  <1>1. PICK a \in Nat, b \in 0 .. w - 1 : a = j \div w /\ b = j % w /\ j = w * a + b
    BY Division
  <1>2. a < m
    <2>1. CASE w = 1
      BY <1>1, <2>1
    <2>2. CASE w = 2
      BY <1>1, <2>2
    <2>3. CASE w = 4
      BY <1>1, <2>3
    <2>4. CASE w = 8
      BY <1>1, <2>4
    <2> QED BY <2>1, <2>2, <2>3, <2>4
  <1> QED BY <1>1, <1>2

\* An array of values, or of none.
LEMMA ArrayWritten ==
  ASSUME NEW v \in CTypes, NEW m \in Nat, NEW xs, DOMAIN xs = 1..m, xs = [i \in 1..m |-> xs[i]],
         \A i \in 1..m : xs[i] = Null \/ IsValue(v, xs[i])
  PROVE  Array(v, xs) \in Seq(Cells)
  <1> DEFINE w == Width[v]
  <1>1. w \in {1, 2, 4, 8} /\ Len(xs) = m
    BY Widths
  <1>2. Array(v, xs) = [k \in 1..w * m |-> Bytes(v, xs[((k - 1) \div w) + 1])[((k - 1) % w) + 1]]
    BY <1>1 DEF Array
  <1>3. w * m \in Nat
    BY <1>1
  <1>4. ASSUME NEW k \in 1..w * m
        PROVE  Bytes(v, xs[((k - 1) \div w) + 1])[((k - 1) % w) + 1] \in Cells
    <2>1. ((k - 1) \div w) + 1 \in 1..m /\ ((k - 1) % w) + 1 \in 1..w
      <3> HIDE DEF w
      <3>1. k - 1 \in Nat /\ k - 1 < w * m
        BY <1>1
      <3>2. (k - 1) \div w \in 0 .. m - 1 /\ (k - 1) % w \in 0 .. w - 1
        BY <1>1, <3>1, Places
      <3>3. PICK a \in 0 .. m - 1, b \in 0 .. w - 1 : a = (k - 1) \div w /\ b = (k - 1) % w
        BY <3>2
      <3>4. a + 1 \in 1..m /\ b + 1 \in 1..w
        BY <1>1
      <3> QED BY <3>3, <3>4
    <2> QED BY <2>1, BytesWritten
  <1> HIDE DEF w
  <1>5. [k \in 1..w * m |-> Bytes(v, xs[((k - 1) \div w) + 1])[((k - 1) % w) + 1]] \in [1..w * m -> Cells]
    BY <1>4
  <1>6. Array(v, xs) \in [1..w * m -> Cells]
    BY <1>2, <1>5, Zenon DEF w
  <1> QED BY <1>3, <1>6

\* The bytes a read looks at.
LEMMA CellsHere ==
  ASSUME NEW mem \in Seq(Cells), NEW off \in Nat, NEW w \in Nat \ {0}, off + w <= Len(mem)
  PROVE  /\ SubSeq(mem, off + 1, off + w) \in Seq(Cells) /\ Len(SubSeq(mem, off + 1, off + w)) = w
         /\ \A k \in 1..w : /\ SubSeq(mem, off + 1, off + w)[k] = mem[off + k]
                           /\ SubSeq(mem, off + 1, off + w)[k] \in Cells
  <1>1. off + 1 \in 1..Len(mem) /\ off + w \in 1..Len(mem) /\ off + w <= Len(mem)
    OBVIOUS
  <1> DEFINE bs == SubSeq(mem, off + 1, off + w)
  <1>2. bs \in Seq(Cells) /\ Len(bs) = w
    BY <1>1
  <1>3. \A k \in 1..w : bs[k] = mem[off + k]
    BY <1>1
  <1>4. \A k \in 1..w : bs[k] \in Cells
    <2> HIDE DEF bs
    <2> QED BY <1>2
  <1> QED BY <1>2, <1>3, <1>4

\* What is read is a value of the type it is read as, or garbage.
LEMMA DecodedIsValue ==
  ASSUME NEW v \in CTypes, NEW bs \in Seq(Cells), Len(bs) = Width[v], Decoded(v, bs) # Garbage
  PROVE  IsValue(v, Decoded(v, bs))
  <1> DEFINE x == Decoded(v, bs)
  <1>1. Width[v] \in {1, 2, 4, 8} /\ 1 \in 1..Width[v] /\ DOMAIN bs = 1..Width[v]
    BY Widths
  <1>2. bs[1] \in Cells /\ \A k \in 1..Width[v] : bs[k] \in Cells
    BY <1>1
  <1>3. /\ v \in Integral => x = <<"i", FromDigits(bs)>> /\ \A k \in DOMAIN bs : bs[k][1] = "i"
        /\ v = "DOUBLE" => bs[1][1] = "d" /\ x = <<"d", bs[1][2]>>
        /\ v = "FLOAT" => bs[1][1] = "f" /\ x = <<"f", bs[1][2]>>
        /\ v \in Texts => bs[1][1] \in {"t"} /\ x = <<"t", bs[1][2]>>
        /\ v = "BINARY" => bs[1][1] = "b" /\ x = <<"b", bs[1][2]>>
    BY DEF Decoded, Integral, Texts
  <1> HIDE DEF x
  <1>6. CASE v \in Integral
    <2>1. IsDigits(bs, Width[v])
      BY <1>1, <1>2, <1>3, <1>6, CellParts DEF IsDigits
    <2>2. FromDigits(bs) \in Signed(Width[v])
      BY <1>1, <2>1, DigitsAreSigned
    <2> QED BY <1>3, <1>6, <2>2, ValueParts DEF x
  <1>7. CASE v = "DOUBLE"
    <2>1. bs[1][2] \in Int
      BY <1>2, <1>3, <1>7, CellParts
    <2> QED BY <1>3, <1>7, <2>1, ValueParts DEF x
  <1>8. CASE v = "FLOAT"
    <2>1. bs[1][2] \in -FltMax..FltMax
      BY <1>2, <1>3, <1>8, CellParts
    <2> QED BY <1>3, <1>8, <2>1, ValueParts DEF x
  <1>9. CASE v \in Texts
    <2>1. IsText(bs[1][2])
      BY <1>2, <1>3, <1>9, CellParts
    <2> QED BY <1>3, <1>9, <2>1, ValueParts DEF x
  <1>10. CASE v = "BINARY"
    <2>1. bs[1][2] \in BinsThere
      BY <1>2, <1>3, <1>10, CellParts
    <2> QED BY <1>3, <1>10, <2>1, ValueParts DEF x
  <1> QED BY <1>6, <1>7, <1>8, <1>9, <1>10 DEF CTypes

LEMMA ReadIsValue ==
  ASSUME NEW v \in CTypes, NEW mem \in Seq(Cells), NEW off \in Nat, Read(v, mem, off) # Garbage
  PROVE  IsValue(v, Read(v, mem, off))
  <1>1. Len(mem) \in Nat /\ Width[v] \in Nat \ {0}
    BY Widths
  <1>2. off + Width[v] <= Len(mem) /\ Read(v, mem, off) = Decoded(v, SubSeq(mem, off + 1, off + Width[v]))
    BY <1>1 DEF Read
  <1>3. /\ SubSeq(mem, off + 1, off + Width[v]) \in Seq(Cells)
        /\ Len(SubSeq(mem, off + 1, off + Width[v])) = Width[v]
    BY <1>1, <1>2, CellsHere
  <1> QED BY <1>2, <1>3, DecodedIsValue

\* What is read is told by the bytes it is read from, and by how many there are.
LEMMA ReadIsLocal ==
  ASSUME NEW v \in CTypes, NEW mem \in Seq(Cells), NEW old \in Seq(Cells), Len(mem) = Len(old), NEW off \in Nat,
         \A k \in 1..Len(mem) : k > off /\ k <= off + Width[v] => mem[k] = old[k]
  PROVE  Read(v, mem, off) = Read(v, old, off)
  <1>1. Len(mem) \in Nat /\ Width[v] \in Nat \ {0}
    BY Widths
  <1>2. CASE off + Width[v] <= Len(mem)
    <2> DEFINE a == SubSeq(mem, off + 1, off + Width[v])
               b == SubSeq(old, off + 1, off + Width[v])
    <2>1. /\ a \in Seq(Cells) /\ Len(a) = Width[v] /\ \A k \in 1..Width[v] : a[k] = mem[off + k]
          /\ b \in Seq(Cells) /\ Len(b) = Width[v] /\ \A k \in 1..Width[v] : b[k] = old[off + k]
      <3>1. a \in Seq(Cells) /\ Len(a) = Width[v] /\ \A k \in 1..Width[v] : a[k] = mem[off + k]
        BY <1>1, <1>2, CellsHere
      <3>2. b \in Seq(Cells) /\ Len(b) = Width[v] /\ \A k \in 1..Width[v] : b[k] = old[off + k]
        BY <1>1, <1>2, CellsHere
      <3> QED BY <3>1, <3>2
    <2>2. \A k \in 1..Width[v] : off + k \in 1..Len(mem) /\ off + k > off /\ off + k <= off + Width[v]
      BY <1>1, <1>2
    <2> HIDE DEF a, b
    <2>3. \A k \in 1..Width[v] : a[k] = b[k]
      BY <2>1, <2>2
    <2>4. a = b
      <3>1. Len(a) = Len(b) /\ \A k \in 1..Len(a) : a[k] = b[k]
        BY <2>1, <2>3
      <3>2. a \in Seq(Cells) /\ b \in Seq(Cells)
        BY <2>1
      <3> QED BY <3>1, <3>2
    <2>5. Read(v, mem, off) = Decoded(v, a) /\ Read(v, old, off) = Decoded(v, b)
      BY <1>1, <1>2 DEF Read, a, b
    <2> QED BY <2>4, <2>5
  <1> QED BY <1>1, <1>2 DEF Read

\* After off bytes of mem come those of value x of type v.
Holds(mem, off, v, x) ==
  off \in Nat /\ off + Width[v] <= Len(mem) /\ \A k \in 1..Width[v] : mem[off + k] = Bytes(v, x)[k]

\* What has been written over an array is read from it.
LEMMA WrittenIsRead ==
  ASSUME NEW v \in {"SBIGINT", "SLONG", "FLOAT"}, NEW x, IsValue(v, x), NEW mem \in Seq(Cells), NEW off,
         Holds(mem, off, v, x)
  PROVE  Read(v, mem, off) = x
  <1>0. off \in Nat /\ off + Width[v] <= Len(mem) /\ \A k \in 1..Width[v] : mem[off + k] = Bytes(v, x)[k]
    BY DEF Holds
  <1>1. v \in CTypes /\ Width[v] \in {1, 2, 4, 8} /\ Width[v] \in Nat \ {0} /\ 1 \in 1..Width[v] /\ Len(mem) \in Nat
    BY Widths DEF CTypes, Integral
  <1>2. x # Null /\ x # Garbage
    BY <1>1, ValueParts
  <1> DEFINE bs == SubSeq(mem, off + 1, off + Width[v])
  <1>3. /\ bs \in Seq(Cells) /\ Len(bs) = Width[v]
        /\ \A k \in 1..Width[v] : bs[k] = mem[off + k]
    BY <1>0, <1>1, CellsHere
  <1>4. Read(v, mem, off) = Decoded(v, bs)
    BY <1>0, <1>1 DEF Read
  <1> HIDE DEF bs
  <1>5. \A k \in 1..Width[v] : bs[k] = Bytes(v, x)[k]
    BY <1>0, <1>3
  <1>6. CASE v \in Integral
    <2>1. Bytes(v, x) = Digits(x[2], Width[v])
      BY <1>2, <1>6 DEF Bytes
    <2>2. x = <<"i", x[2]>> /\ x[2] \in Signed(Width[v])
      BY <1>1, <1>6, ValueParts
    <2>4. x[2] \in Int
      BY <1>1, <2>2, HalfIsHalf DEF Signed
    <2>8. PICK w \in {1, 2, 4, 8}, n \in Int : w = Width[v] /\ n = x[2]
      BY <1>1, <2>4
    <2>9. Len(bs) = w /\ n \in Signed(w) /\ \A k \in 1..w : bs[k] = Digits(n, w)[k]
      BY <1>3, <1>5, <2>1, <2>2, <2>8
    <2>3. FromDigits(bs) = x[2]
      <3>1. AreDigitsOf(bs, n, w) /\ n \in Signed(w)
        BY <2>9 DEF AreDigitsOf
      <3>2. FromDigits(bs) = n
        BY <3>1, DigitsReadBack
      <3> QED BY <2>8, <3>2
    <2>10. \A k \in 1..w : Digits(n, w)[k] \in {"i"} \X (0..3) \X {0}
      BY DigitsWritten
    <2>5. \A k \in 1..Width[v] : bs[k][1] = "i"
      BY <2>8, <2>9, <2>10
    <2>6. DOMAIN bs = 1..Width[v]
      BY <1>3
    <2>7. Decoded(v, bs) = <<"i", FromDigits(bs)>>
      BY <1>6, <2>5, <2>6 DEF Decoded, Integral, Texts
    <2> QED BY <1>4, <2>2, <2>3, <2>7
  <1>7. CASE v = "FLOAT"
    <2>1. Bytes(v, x) = [k \in 1..Width[v] |-> <<x[1], x[2], k>>]
      BY <1>2, <1>7 DEF Bytes, Integral
    <2>2. x[1] = "f" /\ x = <<"f", x[2]>>
      BY <1>1, <1>7, ValueParts
    <2>3. DOMAIN bs = 1..Width[v]
      BY <1>3
    <2>4. bs[1] = <<"f", x[2], 1>> /\ \A k \in 1..Width[v] : bs[k] = <<"f", x[2], k>>
      BY <1>1, <1>5, <2>1, <2>2
    <2>5. Decoded(v, bs) = <<"f", x[2]>>
      BY <1>7, <2>3, <2>4 DEF Decoded, Integral, Texts
    <2> QED BY <1>4, <2>2, <2>5
  <1> QED BY <1>6, <1>7 DEF Integral

-----------------------------------------------------------------------------
(* The table of conversions.                                               *)

\* What the entries of the table are, by what converts.
Kinds(e) ==
  \/ /\ e.conv = "dummy" /\ e.buffer = "app"
     /\ <<e.v, e.p, e.t>> \in
          {<<"SBIGINT", "TIMESTAMP", "TIMESTAMP">>, <<"SBIGINT", "TIMESTAMP", "BIGINT">>,
           <<"SBIGINT", "BIGINT", "TIMESTAMP">>, <<"SBIGINT", "BIGINT", "BIGINT">>,
           <<"SBIGINT", "VARCHAR", "BIGINT">>, <<"DOUBLE", "DOUBLE", "DOUBLE">>, <<"DOUBLE", "VARCHAR", "DOUBLE">>,
           <<"FLOAT", "REAL", "FLOAT">>, <<"SLONG", "INTEGER", "INT">>, <<"SLONG", "VARCHAR", "INT">>,
           <<"LONG", "INTEGER", "INT">>, <<"SHORT", "SMALLINT", "SMALLINT">>, <<"SHORT", "BIT", "BOOL">>,
           <<"STINYINT", "TINYINT", "TINYINT">>, <<"STINYINT", "VARCHAR", "SMALLINT">>}
  \/ /\ e.conv = "int" /\ e.buffer = "own" /\ e.v = "SBIGINT"
     /\ <<e.p, e.t>> \in {<<"INTEGER", "INT">>, <<"SMALLINT", "SMALLINT">>, <<"TINYINT", "TINYINT">>,
                          <<"TINYINT", "BOOL">>}
  \/ e.conv = "ts" /\ e.buffer = "own" /\ e.v \in {"DOUBLE", "CHAR"} /\ e.p = "TIMESTAMP" /\ e.t = "TIMESTAMP"
  \/ e.conv = "double" /\ e.buffer = "app" /\ e.v = "DOUBLE" /\ e.p = "DOUBLE" /\ e.t \in {"TIMESTAMP", "FLOAT", "INT"}
  \/ e.conv = "real" /\ e.buffer = "own" /\ e.v = "DOUBLE" /\ e.p = "REAL" /\ e.t = "FLOAT"
  \/ e.conv = "text_ts" /\ e.buffer = "own" /\ e.v = "CHAR" /\ e.p \in {"VARCHAR", "WVARCHAR"} /\ e.t = "TIMESTAMP"
  \/ /\ e.conv = "text" /\ e.buffer = "own" /\ e.v \in Texts /\ e.p \in {"VARCHAR", "WVARCHAR"}
     /\ e.t \in {"VARCHAR", "NCHAR", "JSON"}
  \/ /\ e.conv = "number" /\ e.buffer = "own" /\ e.v = "CHAR" /\ e.p = "VARCHAR"
     /\ e.t \in {"BOOL", "UBIGINT", "FLOAT", "DOUBLE"} \cup NumberTypes
  \/ e.conv = "binary" /\ e.buffer = "own" /\ e.v = "BINARY" /\ e.p = "VARBINARY" /\ e.t \in {"VARBINARY", "GEOMETRY"}

LEMMA EntryIs ==
  ASSUME NEW v, NEW ps, NEW ts, NEW buffer, NEW conv, NEW e \in Entries(v, ps, ts, buffer, conv)
  PROVE  e.v = v /\ e.p \in ps /\ e.t \in ts /\ e.buffer = buffer /\ e.conv = conv
  BY DEF Entries

LEMMA EntryKinds ==
  ASSUME NEW e \in _param_bind_map
  PROVE  Kinds(e)
  <1>1. CASE \/ e \in Entries("SBIGINT", {"TIMESTAMP", "BIGINT"}, {"TIMESTAMP", "BIGINT"}, "app", "dummy")
             \/ e \in Entries("SBIGINT", {"VARCHAR"}, {"BIGINT"}, "app", "dummy")
             \/ e \in Entries("DOUBLE", {"DOUBLE", "VARCHAR"}, {"DOUBLE"}, "app", "dummy")
             \/ e \in Entries("FLOAT", {"REAL"}, {"FLOAT"}, "app", "dummy")
    BY <1>1, EntryIs DEF Kinds
  <1>2. CASE \/ e \in Entries("SLONG", {"INTEGER", "VARCHAR"}, {"INT"}, "app", "dummy")
             \/ e \in Entries("LONG", {"INTEGER"}, {"INT"}, "app", "dummy")
             \/ e \in Entries("SHORT", {"SMALLINT"}, {"SMALLINT"}, "app", "dummy")
             \/ e \in Entries("SHORT", {"BIT"}, {"BOOL"}, "app", "dummy")
             \/ e \in Entries("STINYINT", {"TINYINT"}, {"TINYINT"}, "app", "dummy")
             \/ e \in Entries("STINYINT", {"VARCHAR"}, {"SMALLINT"}, "app", "dummy")
    BY <1>2, EntryIs DEF Kinds
  <1>3. CASE \/ e \in Entries("SBIGINT", {"INTEGER"}, {"INT"}, "own", "int")
             \/ e \in Entries("SBIGINT", {"SMALLINT"}, {"SMALLINT"}, "own", "int")
             \/ e \in Entries("SBIGINT", {"TINYINT"}, {"TINYINT", "BOOL"}, "own", "int")
    BY <1>3, EntryIs DEF Kinds
  <1>4. CASE \/ e \in Entries("DOUBLE", {"TIMESTAMP"}, {"TIMESTAMP"}, "own", "ts")
             \/ e \in Entries("CHAR", {"TIMESTAMP"}, {"TIMESTAMP"}, "own", "ts")
             \/ e \in Entries("DOUBLE", {"DOUBLE"}, {"TIMESTAMP", "FLOAT", "INT"}, "app", "double")
             \/ e \in Entries("DOUBLE", {"REAL"}, {"FLOAT"}, "own", "real")
    BY <1>4, EntryIs DEF Kinds
  <1>5. CASE \/ e \in Entries("CHAR", {"VARCHAR", "WVARCHAR"}, {"TIMESTAMP"}, "own", "text_ts")
             \/ e \in Entries("CHAR", {"VARCHAR", "WVARCHAR"}, {"VARCHAR", "NCHAR", "JSON"}, "own", "text")
             \/ e \in Entries("WCHAR", {"WVARCHAR"}, {"VARCHAR", "NCHAR", "JSON"}, "own", "text")
             \/ e \in Entries("WCHAR", {"VARCHAR"}, {"VARCHAR"}, "own", "text")
    BY <1>5, EntryIs DEF Kinds, Texts
  <1>6. CASE \/ e \in Entries("CHAR", {"VARCHAR"}, {"BOOL", "UBIGINT", "FLOAT", "DOUBLE"} \cup NumberTypes, "own", "number")
             \/ e \in Entries("BINARY", {"VARBINARY"}, {"VARBINARY", "GEOMETRY"}, "own", "binary")
    BY <1>6, EntryIs DEF Kinds
  <1> QED BY <1>1, <1>2, <1>3, <1>4, <1>5, <1>6, Zenon DEF _param_bind_map

\* The integers the types of the server have.
LEMMA Domains ==
  /\ Domain("TIMESTAMP") = Signed(8) /\ Domain("BIGINT") = Signed(8) /\ Domain("INT") = Signed(4)
  /\ Domain("SMALLINT") = Signed(2) /\ Domain("TINYINT") = Signed(1) /\ Domain("UBIGINT") = 0 .. 4^8 - 1
  /\ Encoded("TIMESTAMP") = "SBIGINT" /\ Encoded("BIGINT") = "SBIGINT" /\ Encoded("INT") = "SLONG"
  /\ Encoded("SMALLINT") = "SHORT" /\ Encoded("TINYINT") = "STINYINT" /\ Encoded("UBIGINT") = "SBIGINT"
  /\ Encoded("FLOAT") = "FLOAT" /\ Encoded("DOUBLE") = "DOUBLE" /\ Encoded("BOOL") = "STINYINT"
  <1>1. /\ Encoded("TIMESTAMP") = "SBIGINT" /\ Encoded("BIGINT") = "SBIGINT" /\ Encoded("INT") = "SLONG"
        /\ Encoded("SMALLINT") = "SHORT" /\ Encoded("TINYINT") = "STINYINT" /\ Encoded("UBIGINT") = "SBIGINT"
        /\ Encoded("FLOAT") = "FLOAT" /\ Encoded("DOUBLE") = "DOUBLE" /\ Encoded("BOOL") = "STINYINT"
    BY DEF Encoded
  <1>2. \A t : Domain(t) = IF t \in Unsigned THEN 0 .. 4^Width[Encoded(t)] - 1 ELSE Signed(Width[Encoded(t)])
    BY Zenon DEF Domain
  <1>3. /\ "TIMESTAMP" \notin Unsigned /\ "BIGINT" \notin Unsigned /\ "INT" \notin Unsigned
        /\ "SMALLINT" \notin Unsigned /\ "TINYINT" \notin Unsigned /\ "UBIGINT" \in Unsigned
    BY DEF Unsigned
  <1> QED BY <1>1, <1>2, <1>3, Widths, Zenon

-----------------------------------------------------------------------------
(* One value through its check and its conversion.                         *)

\* What the server takes a value of its buffer for (the end of ServerReads).
Taken(t, x) == IF t = "BOOL" /\ x[1] = "i" THEN <<"i", IF x[2] = 0 THEN 0 ELSE 1>> ELSE x

\* What a conversion that succeeds has to show for value x.
Faithful(e, x, y) ==
  /\ e.conv = "dummy" => y = Garbage
  /\ e.conv # "dummy" => /\ y # Null
                         /\ NegativeText(x, e.t) \/ UndefinedCast(x, e.t) \/ Taken(e.t, y) \in Means(e.p, e.t, x)
  /\ e.conv = "double" => \/ y = Garbage /\ UndefinedCast(x, e.t)
                          \/ IsValue(Encoded(e.t), y)

\* What one that fails has to show.
Justified(e, x, csize, stride) ==
  \/ Means(e.p, e.t, x) = {}
  \/ <<e.v, e.p, e.t>> = <<"DOUBLE", "DOUBLE", "FLOAT">> /\ x[2] <= 0
  \/ e.p = "WVARCHAR" /\ x[2].len > csize
  \/ e.t \in VarTypes /\ x[2].len > stride

\* The check d and the conversion c of a value, as they should be.
Right(e, x, csize, stride, d, c, errno0) ==
  /\ d.ok /\ c.ok => Faithful(e, x, c.x)
  /\ errno0 = "0" => IF d.ok /\ c.ok THEN c.errno = "0" ELSE Justified(e, x, csize, stride)

\* What a 64-bit integer is narrowed to (_stmt_param_check_sqlc_sbigint_sql_integer, _smallint, _tinyint).
LEMMA NarrowRight ==
  ASSUME NEW e, e.conv = "int", Kinds(e), NEW x, IsValue("SBIGINT", x), NEW errno0, NEW csize, NEW stride
  PROVE  Right(e, x, csize, stride, NarrowInteger(e.p, x), ConvInteger(e.t, NarrowInteger(e.p, x), errno0), errno0)
  <1>1. e.v = "SBIGINT" /\ <<e.p, e.t>> \in {<<"INTEGER", "INT">>, <<"SMALLINT", "SMALLINT">>, <<"TINYINT", "TINYINT">>,
                                             <<"TINYINT", "BOOL">>}
    BY DEF Kinds
  <1>2. x = <<"i", x[2]>> /\ x[2] \in Signed(8) /\ x # Null /\ x # Garbage /\ x[1] = "i"
    BY ValueParts, Widths DEF CTypes, Integral
  <1> DEFINE w == CASE e.p = "INTEGER" -> 4 [] e.p = "SMALLINT" -> 2 [] e.p = "TINYINT" -> 1
             d == NarrowInteger(e.p, x)
             c == ConvInteger(e.t, d, errno0)
             y == IF e.t = "BOOL" THEN <<"i", IF x[2] = 0 THEN 0 ELSE 1>> ELSE x
  <1>3. Declared(e.p, x[2]) <=> x[2] \in Signed(w)
    BY <1>1 DEF Declared
  <1>4. Means(e.p, e.t, x) = IF x[2] \in Signed(w) THEN {y} ELSE {}
    <2>1. Means(e.p, e.t, x) = IF Declared(e.p, x[2]) THEN NumberMeans(e.t, x[2]) ELSE {}
      BY <1>2 DEF Means
    <2>2. e.t # "BOOL" => Domain(e.t) = Signed(w)
      BY <1>1, Domains
    <2>3. e.t = "BOOL" => NumberMeans(e.t, x[2]) = {y}
      BY DEF NumberMeans
    <2>4. e.t # "BOOL" => NumberMeans(e.t, x[2]) = Within(e.t, x[2])
      BY <1>1 DEF NumberMeans
    <2> QED BY <1>2, <1>3, <2>1, <2>2, <2>3, <2>4 DEF Within
  <1>5. d.ok <=> x[2] \in Signed(w)
    BY <1>1 DEF NarrowInteger, Set, Refused
  <1>6. d.ok => c = Made(y, errno0)
    BY <1>1, <1>2 DEF NarrowInteger, Set, Refused, ConvInteger, Member
  <1>7. y # Null /\ Taken(e.t, y) = y
    BY <1>2 DEF Taken, Null
  <1>8. Made(y, errno0).ok /\ Made(y, errno0).x = y /\ Made(y, errno0).errno = errno0
    BY DEF Made
  <1> HIDE DEF d, c, y, w
  <1>9. d.ok => c.ok /\ Faithful(e, x, c.x) /\ c.errno = errno0
    BY <1>4, <1>5, <1>6, <1>7, <1>8 DEF Faithful
  <1>10. ~d.ok => Justified(e, x, csize, stride)
    BY <1>4, <1>5 DEF Justified
  <1>11. Right(e, x, csize, stride, d, c, errno0)
    BY <1>9, <1>10 DEF Right
  <1> QED BY <1>11 DEF d, c

\* The integers next to a number of halves.
LEMMA Halves ==
  ASSUME NEW h \in Int
  PROVE  /\ Trunc(h) \in Around(h) /\ Rounded(h) \in Around(h)
         /\ \A m \in Nat : Around(h) \subseteq -m .. m - 1 <=> h \in 2 * (-m) .. 2 * (m - 1)
  <1>1. Trunc(h) \in Around(h)
    BY DEF Trunc, Around
  <1>2. Rounded(h) \in Around(h)
    BY DEF Rounded, Around
  <1>3. ASSUME NEW m \in Nat PROVE Around(h) \subseteq -m .. m - 1 <=> h \in 2 * (-m) .. 2 * (m - 1)
    <2>1. h \div 2 \in Int /\ -((-h) \div 2) \in Int
      OBVIOUS
    <2>2. h \div 2 \in -m .. m - 1 /\ -((-h) \div 2) \in -m .. m - 1 <=> h \in 2 * (-m) .. 2 * (m - 1)
      OBVIOUS
    <2> QED BY <2>2 DEF Around
  <1> QED BY <1>1, <1>2, <1>3

\* A double to a timestamp (_stmt_param_copy_double_sql_timestamp).
LEMMA RealTimestampRight ==
  ASSUME NEW e, e.conv = "ts", Kinds(e), e.v = "DOUBLE", NEW x, IsValue("DOUBLE", x), NEW errno0, NEW csize, NEW stride
  PROVE  Right(e, x, csize, stride, CheckDouble(e.p, x), ConvTimestamp(CheckDouble(e.p, x), errno0), errno0)
  <1>1. e.p = "TIMESTAMP" /\ e.t = "TIMESTAMP"
    BY DEF Kinds
  <1>2. x = <<"d", x[2]>> /\ x[2] \in Int /\ x # Null /\ x # Garbage /\ x[1] = "d"
    BY ValueParts DEF CTypes
  <1> DEFINE d == CheckDouble(e.p, x)
             c == ConvTimestamp(d, errno0)
             y == Int64(Rounded(x[2]))
  <1>3. d.ok /\ c = Made(y, errno0)
    BY <1>1 DEF CheckDouble, Set, ConvTimestamp, Member
  <1>4. c.ok /\ c.x = y /\ c.errno = errno0
    BY <1>3 DEF Made
  <1>5. y # Null /\ Taken(e.t, y) = y
    BY <1>1 DEF Int64, Null, Garbage, Taken
  <1>6. Spans("TIMESTAMP", x[2]) => y \in Means(e.p, e.t, x)
    <2> SUFFICES ASSUME Spans("TIMESTAMP", x[2]) PROVE y \in Means(e.p, e.t, x)
      OBVIOUS
    <2>1. Rounded(x[2]) \in Around(x[2])
      BY <1>2, Halves
    <2>2. Rounded(x[2]) \in Signed(8)
      BY <2>1, Domains DEF Spans
    <2>3. y = <<"i", Rounded(x[2])>>
      BY <2>2 DEF Int64
    <2>4. Means(e.p, e.t, x) = RealMeans(e.t, x[2])
      BY <1>2 DEF Means
    <2>5. RealMeans(e.t, x[2]) = Instants(x[2])
      BY <1>1 DEF RealMeans
    <2> QED BY <2>1, <2>3, <2>4, <2>5 DEF Instants
  <1>7. ~Spans("TIMESTAMP", x[2]) => UndefinedCast(x, e.t)
    BY <1>1, <1>2 DEF UndefinedCast
  <1> HIDE DEF d, c, y
  <1>8. Faithful(e, x, c.x)
    BY <1>4, <1>5, <1>6, <1>7 DEF Faithful
  <1>9. Right(e, x, csize, stride, d, c, errno0)
    BY <1>3, <1>4, <1>8 DEF Right
  <1> QED BY <1>9 DEF d, c

\* A double converted where it is (_stmt_param_conv_sql_double_to_tsdb_timestamp, _float, _int).
LEMMA InPlaceRight ==
  ASSUME NEW e, e.conv = "double", Kinds(e), NEW x, IsValue("DOUBLE", x), NEW errno0, NEW csize, NEW stride
  PROVE  Right(e, x, csize, stride, CheckDouble(e.p, x), ConvDouble(e.t, CheckDouble(e.p, x), errno0), errno0)
  <1>1. e.v = "DOUBLE" /\ e.p = "DOUBLE" /\ e.t \in {"TIMESTAMP", "FLOAT", "INT"}
    BY DEF Kinds
  <1>2. x = <<"d", x[2]>> /\ x[2] \in Int /\ x # Null /\ x # Garbage /\ x[1] = "d"
    BY ValueParts DEF CTypes
  <1> DEFINE h == x[2]
             d == CheckDouble(e.p, x)
             c == ConvDouble(e.t, d, errno0)
  <1> SUFFICES Right(e, x, csize, stride, d, c, errno0)
    OBVIOUS
  <1>3. d.ok /\ Member(d, "dbl") = x
    BY <1>1 DEF CheckDouble, Set, Member
  <1>4. Means(e.p, e.t, x) = RealMeans(e.t, h)
    BY <1>2 DEF Means
  <1>5. Half(4) \in Nat /\ Half(8) \in Nat /\ Signed(4) = -Half(4) .. Half(4) - 1 /\ Signed(8) = -Half(8) .. Half(8) - 1
    BY HalfIsHalf DEF Signed
  <1>6. CASE e.t = "TIMESTAMP"
    <2> DEFINE y == Int64(Trunc(h))
    <2>1. c = Made(y, errno0)
      BY <1>2, <1>3, <1>6 DEF ConvDouble
    <2>2. c.ok /\ c.x = y /\ c.errno = errno0
      BY <2>1 DEF Made
    <2>3. y # Null /\ Taken(e.t, y) = y
      BY <1>6 DEF Int64, Null, Garbage, Taken
    <2>4. CASE Spans("TIMESTAMP", h)
      <3>1. Trunc(h) \in Around(h) /\ Trunc(h) \in Signed(8)
        BY <1>2, <2>4, Halves, Domains DEF Spans
      <3>2. y = <<"i", Trunc(h)>>
        BY <3>1 DEF Int64
      <3>3. RealMeans(e.t, h) = Instants(h)
        BY <1>6, <2>4 DEF RealMeans
      <3>4. y \in Means(e.p, e.t, x)
        BY <1>4, <3>1, <3>2, <3>3 DEF Instants
      <3>5. IsValue("SBIGINT", y) /\ Encoded(e.t) = "SBIGINT"
        BY <1>6, <3>1, <3>2, ValueParts, Widths, Domains DEF CTypes, Integral
      <3> HIDE DEF y, d, c
      <3>6. Faithful(e, x, c.x)
        BY <2>2, <2>3, <3>4, <3>5 DEF Faithful
      <3> QED BY <1>3, <2>2, <3>6 DEF Right
    <2>5. CASE ~Spans("TIMESTAMP", h)
      <3>1. UndefinedCast(x, e.t)
        BY <1>2, <1>6, <2>5 DEF UndefinedCast
      <3>2. y = Garbage \/ (y = <<"i", Trunc(h)>> /\ Trunc(h) \in Signed(8))
        BY DEF Int64
      <3>3. y = Garbage \/ (IsValue("SBIGINT", y) /\ Encoded(e.t) = "SBIGINT")
        BY <1>6, <3>2, ValueParts, Widths, Domains DEF CTypes, Integral
      <3> HIDE DEF y, d, c
      <3>4. Faithful(e, x, c.x)
        BY <2>2, <2>3, <3>1, <3>3 DEF Faithful
      <3> QED BY <1>3, <2>2, <3>4 DEF Right
    <2> QED BY <2>4, <2>5
  <1>7. CASE e.t = "FLOAT"
    <2>0. FltMax \in Nat
      BY ConvAssumption
    <2>1. c = IF h > 0 /\ h <= FltMax THEN Made(<<"f", h>>, errno0) ELSE Not(errno0)
      BY <1>2, <1>3, <1>7 DEF ConvDouble
    <2>2. Means(e.p, e.t, x) = IF h \in -FltMax..FltMax THEN {<<"f", h>>} ELSE {}
      BY <1>4, <1>7 DEF RealMeans
    <2>3. CASE h > 0 /\ h <= FltMax
      <3>1. c.ok /\ c.x = <<"f", h>> /\ c.errno = errno0
        BY <2>1, <2>3 DEF Made
      <3>2. h \in -FltMax..FltMax
        BY <1>2, <2>0, <2>3
      <3>3. IsValue("FLOAT", <<"f", h>>) /\ Encoded(e.t) = "FLOAT"
        BY <1>7, <3>2, ValueParts, Domains DEF CTypes
      <3>4. Taken(e.t, c.x) = c.x /\ c.x # Null
        BY <1>7, <3>1 DEF Taken, Null
      <3> HIDE DEF d, c
      <3>5. Faithful(e, x, c.x)
        BY <2>2, <3>1, <3>2, <3>3, <3>4 DEF Faithful
      <3> QED BY <1>3, <3>1, <3>5 DEF Right
    <2>4. CASE ~(h > 0 /\ h <= FltMax)
      <3>1. ~c.ok
        BY <2>1, <2>4 DEF Not
      <3>2. h <= 0 \/ h \notin -FltMax..FltMax
        BY <1>2, <2>0, <2>4
      <3>3. Justified(e, x, csize, stride)
        BY <1>1, <1>7, <2>2, <3>2 DEF Justified
      <3> HIDE DEF d, c
      <3> QED BY <3>1, <3>3 DEF Right
    <2> QED BY <2>3, <2>4
  <1>8. CASE e.t = "INT"
    <2>1. c = IF h \in 2 * (-Half(4)) .. 2 * (Half(4) - 1) THEN Made(<<"i", Trunc(h)>>, errno0) ELSE Not(errno0)
      BY <1>2, <1>3, <1>8 DEF ConvDouble
    <2>2. Spans("INT", h) <=> h \in 2 * (-Half(4)) .. 2 * (Half(4) - 1)
      BY <1>2, <1>5, Halves, Domains DEF Spans
    <2>3. Means(e.p, e.t, x) = IF Spans("INT", h) THEN {<<"i", Trunc(h)>>} ELSE {}
      BY <1>4, <1>8 DEF RealMeans
    <2>4. CASE Spans("INT", h)
      <3>1. c.ok /\ c.x = <<"i", Trunc(h)>> /\ c.errno = errno0
        BY <2>1, <2>2, <2>4 DEF Made
      <3>2. Trunc(h) \in Signed(4)
        BY <1>2, <2>4, Halves, Domains DEF Spans
      <3>3. IsValue("SLONG", <<"i", Trunc(h)>>) /\ Encoded(e.t) = "SLONG"
        BY <1>8, <3>2, ValueParts, Widths, Domains DEF CTypes, Integral
      <3>4. Taken(e.t, c.x) = c.x /\ c.x # Null
        BY <1>8, <3>1 DEF Taken, Null
      <3> HIDE DEF d, c
      <3>5. Faithful(e, x, c.x)
        BY <2>3, <2>4, <3>1, <3>3, <3>4 DEF Faithful
      <3> QED BY <1>3, <3>1, <3>5 DEF Right
    <2>5. CASE ~Spans("INT", h)
      <3>1. ~c.ok
        BY <2>1, <2>2, <2>5 DEF Not
      <3>2. Justified(e, x, csize, stride)
        BY <2>3, <2>5 DEF Justified
      <3> HIDE DEF d, c
      <3> QED BY <3>1, <3>2 DEF Right
    <2> QED BY <2>4, <2>5
  <1> QED BY <1>1, <1>6, <1>7, <1>8

\* A double to a float of the driver's buffer (_stmt_param_check_sqlc_double_sql_real).
LEMMA RealRight ==
  ASSUME NEW e, e.conv = "real", Kinds(e), NEW x, IsValue("DOUBLE", x), NEW errno0, NEW csize, NEW stride
  PROVE  Right(e, x, csize, stride, CheckDouble(e.p, x), Made(Member(CheckDouble(e.p, x), "flt"), errno0), errno0)
  <1>1. e.v = "DOUBLE" /\ e.p = "REAL" /\ e.t = "FLOAT"
    BY DEF Kinds
  <1>2. x = <<"d", x[2]>> /\ x # Null /\ x # Garbage /\ x[1] = "d"
    BY ValueParts DEF CTypes
  <1> DEFINE h == x[2]
             d == CheckDouble(e.p, x)
             c == Made(Member(d, "flt"), errno0)
  <1> SUFFICES Right(e, x, csize, stride, d, c, errno0)
    OBVIOUS
  <1>3. d = IF h \in -FltMax..FltMax THEN Set("flt", <<"f", h>>) ELSE Refused
    BY <1>1 DEF CheckDouble
  <1>4. Means(e.p, e.t, x) = IF h \in -FltMax..FltMax THEN {<<"f", h>>} ELSE {}
    BY <1>1, <1>2 DEF Means, RealMeans
  <1>5. CASE h \in -FltMax..FltMax
    <2>1. d.ok /\ c.ok /\ c.x = <<"f", h>> /\ c.errno = errno0
      BY <1>3, <1>5 DEF Set, Member, Made
    <2>2. Taken(e.t, c.x) = c.x /\ c.x # Null
      BY <1>1, <2>1 DEF Taken, Null
    <2> HIDE DEF d, c
    <2>3. Faithful(e, x, c.x)
      BY <1>4, <1>5, <2>1, <2>2 DEF Faithful
    <2> QED BY <2>1, <2>3 DEF Right
  <1>6. CASE h \notin -FltMax..FltMax
    <2>1. ~d.ok
      BY <1>3, <1>6 DEF Refused
    <2>2. Justified(e, x, csize, stride)
      BY <1>4, <1>6 DEF Justified
    <2> HIDE DEF d, c
    <2> QED BY <2>1, <2>2 DEF Right
  <1> QED BY <1>5, <1>6

\* What a text is.
LEMMA TextParts ==
  ASSUME NEW v \in Texts, NEW x, IsValue(v, x)
  PROVE  /\ x = <<"t", x[2]>> /\ x # Null /\ x # Garbage /\ x[1] = "t"
         /\ x[2].k \in {"num", "date", "alien", "empty"} /\ x[2].n \in Int /\ x[2].len \in Nat
         /\ (x[2].k = "empty" => x[2].n = 0)
         /\ \A p, t : Means(p, t, x) = TextMeans(t, x[2])
  <1>1. x = <<"t", x[2]>> /\ x # Null /\ x # Garbage /\ x[1] = "t" /\ IsText(x[2])
    BY ValueParts DEF CTypes
  <1>2. x[2].k \in {"num", "date", "alien", "empty"} /\ x[2].n \in Int /\ x[2].len \in Nat
        /\ (x[2].k = "empty" => x[2].n = 0)
    <2> DEFINE txt == x[2]
    <2>1. IsText(txt)
      BY <1>1
    <2> HIDE DEF txt
    <2>2. txt.k \in {"num", "date", "alien", "empty"} /\ txt.n \in Int /\ txt.len \in Nat
          /\ (txt.k = "empty" => txt.n = 0)
      BY <2>1 DEF IsText
    <2> QED BY <2>2 DEF txt
  <1>3. \A p, t : Means(p, t, x) = TextMeans(t, x[2])
    BY <1>1 DEF Means
  <1> QED BY <1>1, <1>2, <1>3

\* A number of texts and what it means as a timestamp.
LEMMA TimestampMeans ==
  ASSUME NEW txt, txt.k \in {"num", "date", "alien", "empty"}
  PROVE  TextMeans("TIMESTAMP", txt) =
           CASE txt.k = "num"  -> IF txt.n \in Signed(8) THEN {<<"i", txt.n>>} ELSE {}
             [] txt.k = "date" -> Instants(txt.n)
             [] txt.k \in {"alien", "empty"} -> {}
  <1>1. "TIMESTAMP" \notin VarTypes
    BY DEF VarTypes
  <1>2. NumberMeans("TIMESTAMP", txt.n) = IF txt.n \in Signed(8) THEN {<<"i", txt.n>>} ELSE {}
    BY Domains DEF NumberMeans, Within
  <1> QED BY <1>1, <1>2 DEF TextMeans

\* A text to a timestamp: strtoll, or the parser of dates (_stmt_param_copy_to_sql_timestamp).
LEMMA TextTimestampRight ==
  ASSUME NEW e, e.conv = "ts", Kinds(e), e.v = "CHAR", NEW x, IsValue("CHAR", x), NEW errno0, NEW csize, NEW stride
  PROVE  Right(e, x, csize, stride, CopyToTimestamp(x[2]), ConvTimestamp(CopyToTimestamp(x[2]), errno0), errno0)
  <1>1. e.p = "TIMESTAMP" /\ e.t = "TIMESTAMP"
    BY DEF Kinds
  <1> DEFINE txt == x[2]
             d == CopyToTimestamp(txt)
             c == ConvTimestamp(d, errno0)
  <1> SUFFICES Right(e, x, csize, stride, d, c, errno0)
    OBVIOUS
  <1>2. x[1] = "t" /\ txt.k \in {"num", "date", "alien", "empty"} /\ txt.n \in Int
        /\ Means(e.p, e.t, x) = TextMeans("TIMESTAMP", txt)
    BY <1>1, TextParts DEF Texts
  <1>3. CASE txt.k = "num" /\ txt.n \in Signed(8)
    <2>1. d = Set("ts", <<"i", txt.n>>)
      BY <1>3 DEF CopyToTimestamp
    <2>2. d.ok /\ c.ok /\ c.x = <<"i", txt.n>> /\ c.errno = errno0
      BY <2>1 DEF Set, ConvTimestamp, Member, Made
    <2>3. c.x \in Means(e.p, e.t, x) /\ Taken(e.t, c.x) = c.x /\ c.x # Null
      BY <1>1, <1>2, <1>3, <2>2, TimestampMeans DEF Taken, Null
    <2> HIDE DEF d, c
    <2>4. Faithful(e, x, c.x)
      BY <2>3 DEF Faithful
    <2> QED BY <2>2, <2>4 DEF Right
  <1>4. CASE txt.k = "date"
    <2>1. d = Set("ts", <<"h", txt.n>>)
      BY <1>4 DEF CopyToTimestamp
    <2>2. d.ok /\ c.ok /\ c.x = <<"i", (txt.n + 1) \div 2>> /\ c.errno = errno0
      BY <2>1 DEF Set, ConvTimestamp, Member, Made
    <2>3. (txt.n + 1) \div 2 \in Around(txt.n)
      <3>1. \A n \in Int : (n + 1) \div 2 \in {n \div 2, -((-n) \div 2)}
        OBVIOUS
      <3> QED BY <1>2, <3>1 DEF Around
    <2>4. c.x \in Means(e.p, e.t, x) /\ Taken(e.t, c.x) = c.x /\ c.x # Null
      BY <1>1, <1>2, <1>4, <2>2, <2>3, TimestampMeans DEF Taken, Null, Instants
    <2> HIDE DEF d, c
    <2>5. Faithful(e, x, c.x)
      BY <2>4 DEF Faithful
    <2> QED BY <2>2, <2>5 DEF Right
  <1>5. CASE ~(txt.k = "num" /\ txt.n \in Signed(8)) /\ txt.k # "date"
    <2>1. ~d.ok
      BY <1>5 DEF CopyToTimestamp, Refused
    <2>2. Means(e.p, e.t, x) = {}
      BY <1>2, <1>5, TimestampMeans
    <2>3. Justified(e, x, csize, stride)
      BY <2>2 DEF Justified
    <2> HIDE DEF d, c
    <2> QED BY <2>1, <2>3 DEF Right
  <1> QED BY <1>3, <1>4, <1>5

\* The check of a text bound as a text: kept as it is, or refused.
LEMMA TextChecked ==
  ASSUME NEW v \in Texts, NEW p \in {"VARCHAR", "WVARCHAR"}, NEW csize, NEW txt
  PROVE  LET d == CheckText(v, p, csize, txt)
         IN  \/ d = Set("str", <<"t", txt>>)
             \/ d = Refused /\ (txt.k = "alien" \/ (p = "WVARCHAR" /\ txt.len > csize))
  <1>1. CASE v = "WCHAR" /\ p = "VARCHAR"
    <2>1. CheckText(v, p, csize, txt) = CopyText("VARCHAR", csize, txt)
      BY <1>1 DEF CheckText, CheckTextInteger, CheckTextSmall
    <2> QED BY <2>1 DEF CopyText
  <1>2. CASE v = "CHAR" /\ p = "VARCHAR"
    BY <1>2 DEF CheckText, CheckTextInteger, CheckTextSmall
  <1>3. CASE p = "WVARCHAR"
    <2>1. CheckText(v, p, csize, txt) = CopyText(p, csize, txt)
      BY <1>3 DEF CheckText, CheckTextInteger, CheckTextSmall
    <2> QED BY <2>1, <1>3 DEF CopyText
  <1> QED BY <1>1, <1>2, <1>3 DEF Texts

\* A text to a timestamp, without its check (_stmt_sql_c_char_to_tsdb_timestamp).
LEMMA TextToTimestampRight ==
  ASSUME NEW e, e.conv = "text_ts", Kinds(e), NEW x, IsValue("CHAR", x), NEW errno0, NEW csize, NEW stride,
         NEW d, d.ok \/ (x[2].k = "alien" \/ (e.p = "WVARCHAR" /\ x[2].len > csize)), d.ok \in BOOLEAN
  PROVE  Right(e, x, csize, stride, d, ConvTextTimestamp(x, errno0), errno0)
  <1>1. e.v = "CHAR" /\ e.p \in {"VARCHAR", "WVARCHAR"} /\ e.t = "TIMESTAMP"
    BY DEF Kinds
  <1> DEFINE txt == x[2]
             c == ConvTextTimestamp(x, errno0)
  <1> SUFFICES Right(e, x, csize, stride, d, c, errno0)
    OBVIOUS
  <1>2. x[1] = "t" /\ txt.k \in {"num", "date", "alien", "empty"} /\ txt.n \in Int
        /\ Means(e.p, e.t, x) = TextMeans("TIMESTAMP", txt)
    BY <1>1, TextParts DEF Texts
  <1>0. CASE ~d.ok
    <2>1. txt.k = "alien" => Means(e.p, e.t, x) = {}
      BY <1>2, TimestampMeans
    <2>2. Justified(e, x, csize, stride)
      BY <1>0, <2>1 DEF Justified
    <2> HIDE DEF c
    <2> QED BY <1>0, <2>2 DEF Right
  <1>3. CASE txt.k = "num" /\ txt.n \in Signed(8)
    <2>1. CopyToTimestamp(txt) = Set("ts", <<"i", txt.n>>)
      BY <1>3 DEF CopyToTimestamp
    <2>2. c.ok /\ c.x = <<"i", txt.n>> /\ c.errno = "0"
      BY <1>3, <2>1 DEF Set, ConvTextTimestamp, Made
    <2>3. c.x \in Means(e.p, e.t, x) /\ Taken(e.t, c.x) = c.x /\ c.x # Null
      BY <1>1, <1>2, <1>3, <2>2, TimestampMeans DEF Taken, Null
    <2> HIDE DEF c
    <2>4. Faithful(e, x, c.x)
      BY <2>3 DEF Faithful
    <2> QED BY <1>0, <2>2, <2>4 DEF Right
  <1>4. CASE txt.k = "date"
    <2>1. CopyToTimestamp(txt) = Set("ts", <<"h", txt.n>>)
      BY <1>4 DEF CopyToTimestamp
    <2>2. c.ok /\ c.x = <<"i", txt.n \div 2>> /\ c.errno = errno0
      BY <1>4, <2>1 DEF Set, ConvTextTimestamp, Made
    <2>3. c.x \in Means(e.p, e.t, x) /\ Taken(e.t, c.x) = c.x /\ c.x # Null
      BY <1>1, <1>2, <1>4, <2>2, TimestampMeans DEF Taken, Null, Instants, Around
    <2> HIDE DEF c
    <2>4. Faithful(e, x, c.x)
      BY <2>3 DEF Faithful
    <2> QED BY <1>0, <2>2, <2>4 DEF Right
  <1>5. CASE ~(txt.k = "num" /\ txt.n \in Signed(8)) /\ txt.k # "date"
    <2>1. ~c.ok
      BY <1>5 DEF CopyToTimestamp, Refused, ConvTextTimestamp, Not
    <2>2. Means(e.p, e.t, x) = {}
      BY <1>2, <1>5, TimestampMeans
    <2>3. Justified(e, x, csize, stride)
      BY <2>2 DEF Justified
    <2> HIDE DEF c
    <2> QED BY <2>1, <2>3 DEF Right
  <1> QED BY <1>3, <1>4, <1>5

\* A text to a text of the server (_stmt_conv_param_data_from_sqlc_char_tsdb_varchar).
LEMMA TextRight ==
  ASSUME NEW e, e.conv = "text", Kinds(e), NEW x, IsValue(e.v, x), NEW errno0, NEW csize, NEW stride,
         NEW d, d.ok \/ (x[2].k = "alien" \/ (e.p = "WVARCHAR" /\ x[2].len > csize)), d.ok \in BOOLEAN
  PROVE  Right(e, x, csize, stride, d, ConvText(x, stride, errno0), errno0)
  <1>1. e.v \in Texts /\ e.p \in {"VARCHAR", "WVARCHAR"} /\ e.t \in {"VARCHAR", "NCHAR", "JSON"}
    BY DEF Kinds
  <1> DEFINE txt == x[2]
             c == ConvText(x, stride, errno0)
  <1> SUFFICES Right(e, x, csize, stride, d, c, errno0)
    OBVIOUS
  <1>2. x = <<"t", txt>> /\ x # Null /\ Means(e.p, e.t, x) = TextMeans(e.t, txt)
    BY <1>1, TextParts
  <1>3. Means(e.p, e.t, x) = (IF txt.k = "alien" THEN {} ELSE {x}) /\ e.t \in VarTypes
    BY <1>1, <1>2 DEF TextMeans, VarTypes
  <1>4. CASE d.ok /\ ~(txt.k = "alien" \/ txt.len > stride)
    <2>1. c.ok /\ c.x = x /\ c.errno = errno0
      BY <1>4 DEF ConvText, Made
    <2>2. Taken(e.t, c.x) = c.x
      BY <1>1, <2>1 DEF Taken
    <2> HIDE DEF c
    <2>3. Faithful(e, x, c.x)
      BY <1>2, <1>3, <1>4, <2>1, <2>2 DEF Faithful
    <2> QED BY <1>4, <2>1, <2>3 DEF Right
  <1>5. CASE txt.k = "alien" \/ txt.len > stride
    <2>1. ~c.ok
      BY <1>5 DEF ConvText, Not
    <2>2. Justified(e, x, csize, stride)
      BY <1>3, <1>5 DEF Justified
    <2> HIDE DEF c
    <2> QED BY <2>1, <2>2 DEF Right
  <1>6. CASE ~d.ok
    <2>1. Justified(e, x, csize, stride)
      BY <1>3, <1>6 DEF Justified
    <2> HIDE DEF c
    <2> QED BY <1>6, <2>1 DEF Right
  <1> QED BY <1>4, <1>5, <1>6

\* Bytes to bytes (_stmt_conv_param_data_from_sqlc_binary_tsdb_varbinary, _geometry).
LEMMA BinaryRight ==
  ASSUME NEW e, e.conv = "binary", Kinds(e), NEW x, IsValue("BINARY", x), NEW errno0, NEW csize, NEW stride
  PROVE  Right(e, x, csize, stride, Set("str", x), ConvBinary(x, stride, errno0), errno0)
  <1>1. e.p = "VARBINARY" /\ e.t \in {"VARBINARY", "GEOMETRY"}
    BY DEF Kinds
  <1> DEFINE d == Set("str", x)
             c == ConvBinary(x, stride, errno0)
  <1> SUFFICES Right(e, x, csize, stride, d, c, errno0)
    OBVIOUS
  <1>2. x[1] = "b" /\ x # Null
    BY ValueParts DEF CTypes
  <1>3. Means(e.p, e.t, x) = {x} /\ e.t \in VarTypes
    BY <1>1, <1>2 DEF Means, VarTypes
  <1>4. d.ok
    BY DEF Set
  <1>5. CASE ~(x[2].len > stride)
    <2>1. c.ok /\ c.x = x /\ c.errno = errno0
      BY <1>5 DEF ConvBinary, Made
    <2>2. Taken(e.t, c.x) = c.x
      BY <1>1, <2>1 DEF Taken
    <2> HIDE DEF c, d
    <2>3. Faithful(e, x, c.x)
      BY <1>2, <1>3, <2>1, <2>2 DEF Faithful
    <2> QED BY <1>4, <2>1, <2>3 DEF Right
  <1>6. CASE x[2].len > stride
    <2>1. ~c.ok
      BY <1>6 DEF ConvBinary, Not
    <2>2. Justified(e, x, csize, stride)
      BY <1>3, <1>6 DEF Justified
    <2> HIDE DEF c, d
    <2> QED BY <2>1, <2>2 DEF Right
  <1> QED BY <1>5, <1>6

\* A conversion c of text txt to a number of type t: what the text means, or a reason.
Numbered(t, txt, c, errno0) ==
  /\ c.ok => /\ c.x[1] \in {"i", "f", "d"} /\ (t = "BOOL" => Taken(t, c.x) = c.x)
             /\ c.x \in TextMeans(t, txt) \/ (t = "UBIGINT" /\ txt.n < 0)
  /\ errno0 = "0" => IF c.ok THEN c.errno = "0" ELSE TextMeans(t, txt) = {}

IsTxt(txt) == txt.k \in {"num", "date", "alien", "empty"} /\ txt.n \in Int /\ (txt.k = "empty" => txt.n = 0)

\* strtoll and the range of the type (_stmt_param_conv_sqlc_char_to_tsdb_tinyint .. _bigint).
LEMMA IntegerTextRight ==
  ASSUME NEW txt, IsTxt(txt), NEW t \in NumberTypes, NEW errno0
  PROVE  Numbered(t, txt, TextToInteger(t, txt, errno0), errno0)
  <1> DEFINE e == After(txt.k = "num" /\ txt.n \notin Signed(8), errno0)
             c == TextToInteger(t, txt, errno0)
  <1> SUFFICES Numbered(t, txt, c, errno0)
    OBVIOUS
  <1>1. t \notin VarTypes /\ t # "BOOL" /\ t # "FLOAT" /\ t # "DOUBLE" /\ t # "TIMESTAMP" /\ t # "UBIGINT"
    BY DEF NumberTypes, VarTypes
  <1>2. TextMeans(t, txt) = IF txt.k \in {"num", "empty"} THEN Within(t, txt.n) ELSE {}
    <2>1. \A n : NumberMeans(t, n) = Within(t, n)
      BY <1>1 DEF NumberMeans
    <2> QED BY <1>1, <2>1 DEF TextMeans, IsTxt
  <1>3. txt.n \in Domain(t) => txt.n \in Signed(8)
    <2> SUFFICES ASSUME txt.n \in Domain(t) PROVE txt.n \in Signed(8)
      OBVIOUS
    <2>1. CASE t = "BIGINT"
      BY <2>1, Domains
    <2>2. CASE t # "BIGINT"
      <3>1. Encoded(t) \in {"SLONG", "SHORT", "STINYINT"}
        BY <2>2 DEF Encoded, NumberTypes
      <3>2. PICK w \in {1, 2, 4} : w = Width[Encoded(t)]
        BY <3>1, Widths
      <3>3. Domain(t) = IF t \in Unsigned THEN 0 .. 4^w - 1 ELSE Signed(w)
        BY <3>2 DEF Domain
      <3>4. Half(w) \in Nat \ {0} /\ 4^w = 2 * Half(w)
        BY HalfIsHalf
      <3>5. Half(8) \in Nat \ {0} /\ 2 * Half(w) <= Half(8)
        <4>1. 4^1 = 4 * 4^0 /\ 4^2 = 4 * 4^1 /\ 4^3 = 4 * 4^2 /\ 4^4 = 4 * 4^3
          BY SMT
        <4>2. 4^5 = 4 * 4^4 /\ 4^6 = 4 * 4^5 /\ 4^7 = 4 * 4^6 /\ 4^8 = 4 * 4^7
          BY SMT
        <4>3. 2 * Half(1) = 4 /\ 2 * Half(2) = 16 /\ 2 * Half(4) = 256 /\ 2 * Half(8) = 65536
          <5>1. Half(1) = 2 /\ Half(2) = 8 /\ Half(4) = 128 /\ Half(8) = 32768
            <6>1. 4^1 = 4 /\ 4^2 = 16 /\ 4^4 = 256 /\ 4^8 = 65536
              OBVIOUS
            <6> QED BY <6>1 DEF Half
          <5> QED BY <5>1
        <4> QED BY <4>3, HalfIsHalf
      <3>6. \A h, k : h \in Nat /\ k \in Nat /\ 2 * h <= k => 0 .. 2 * h - 1 \subseteq -k .. k - 1 /\ -h .. h - 1 \subseteq -k .. k - 1
        OBVIOUS
      <3> QED BY <3>3, <3>4, <3>5, <3>6 DEF Signed
    <2> QED BY <2>1, <2>2
  <1>4. c = IF Numeric(txt) /\ e # "ERANGE" /\ txt.n \in Domain(t) THEN Made(<<"i", txt.n>>, e) ELSE Not(e)
    BY DEF TextToInteger
  <1>5. CASE Numeric(txt) /\ e # "ERANGE" /\ txt.n \in Domain(t)
    <2>1. c.ok /\ c.x = <<"i", txt.n>> /\ c.errno = e
      BY <1>4, <1>5 DEF Made
    <2>2. errno0 = "0" => e = "0"
      BY <1>5 DEF After
    <2> HIDE DEF c, e
    <2> QED BY <1>1, <1>2, <1>5, <2>1, <2>2 DEF Numbered, Numeric, Within
  <1>6. CASE ~(Numeric(txt) /\ e # "ERANGE" /\ txt.n \in Domain(t))
    <2>1. ~c.ok
      BY <1>4, <1>6 DEF Not
    <2>2. errno0 = "0" => TextMeans(t, txt) = {}
      BY <1>2, <1>3, <1>6 DEF Numeric, After, Within
    <2> HIDE DEF c, e
    <2> QED BY <2>1, <2>2 DEF Numbered
  <1> QED BY <1>5, <1>6

LEMMA BoolTextRight ==
  ASSUME NEW txt, IsTxt(txt), NEW errno0
  PROVE  Numbered("BOOL", txt, TextToBool(txt, errno0), errno0)
  <1> DEFINE e == After(txt.k = "num" /\ txt.n \notin Signed(8), errno0)
             c == TextToBool(txt, errno0)
             y == <<"i", IF txt.n = 0 THEN 0 ELSE 1>>
  <1> SUFFICES Numbered("BOOL", txt, c, errno0)
    OBVIOUS
  <1>1. TextMeans("BOOL", txt) = IF txt.k = "empty" \/ (txt.k = "num" /\ txt.n \in Signed(8)) THEN {y} ELSE {}
    BY DEF TextMeans, NumberMeans, VarTypes, IsTxt
  <1>2. c = IF Numeric(txt) /\ e # "ERANGE" THEN Made(y, e) ELSE Not(e)
    BY DEF TextToBool
  <1>3. CASE Numeric(txt) /\ e # "ERANGE"
    <2>1. c.ok /\ c.x = y /\ c.errno = e
      BY <1>2, <1>3 DEF Made
    <2>2. y \in TextMeans("BOOL", txt) /\ (errno0 = "0" => e = "0")
      BY <1>1, <1>3 DEF After, Numeric
    <2>3. Taken("BOOL", y) = y
      BY DEF Taken
    <2> HIDE DEF c, e
    <2> QED BY <2>1, <2>2, <2>3 DEF Numbered
  <1>4. CASE ~(Numeric(txt) /\ e # "ERANGE")
    <2>1. ~c.ok
      BY <1>2, <1>4 DEF Not
    <2>2. errno0 = "0" => TextMeans("BOOL", txt) = {}
      BY <1>1, <1>4 DEF Numeric, After
    <2> HIDE DEF c, e
    <2> QED BY <2>1, <2>2 DEF Numbered
  <1> QED BY <1>3, <1>4

LEMMA UBigintTextRight ==
  ASSUME NEW txt, IsTxt(txt), NEW errno0
  PROVE  Numbered("UBIGINT", txt, TextToUBigint(txt, errno0), errno0)
  <1> DEFINE e == After(txt.k = "num" /\ txt.n \notin -(4^8 - 1) .. 4^8 - 1, errno0)
             c == TextToUBigint(txt, errno0)
  <1> SUFFICES Numbered("UBIGINT", txt, c, errno0)
    OBVIOUS
  <1>0. PICK p \in Nat \ {0} : p = 4^8
    BY HalfIsHalf
  <1>1. TextMeans("UBIGINT", txt) = IF txt.k \in {"num", "empty"} THEN Within("UBIGINT", txt.n) ELSE {}
    BY DEF TextMeans, NumberMeans, VarTypes, IsTxt
  <1>2. Within("UBIGINT", txt.n) = IF txt.n \in 0 .. p - 1 THEN {<<"i", txt.n>>} ELSE {}
    BY <1>0, Domains DEF Within
  <1>3. c = (IF Numeric(txt) /\ e # "ERANGE" THEN Made(<<"i", txt.n % p>>, e) ELSE Not(e))
        /\ e = After(txt.k = "num" /\ txt.n \notin -(p - 1) .. p - 1, errno0)
    BY <1>0 DEF TextToUBigint
  <1> HIDE DEF e
  <1>4. CASE Numeric(txt) /\ e # "ERANGE"
    <2>1. c.ok /\ c.x = <<"i", txt.n % p>> /\ c.errno = e
      BY <1>3, <1>4 DEF Made
    <2>2. errno0 = "0" => e = "0"
      BY <1>3, <1>4 DEF After
    <2>3. txt.n \in -(p - 1) .. p - 1
      BY <1>3, <1>4 DEF After, IsTxt, Numeric
    <2>4. txt.n < 0 \/ (txt.n \in 0 .. p - 1 /\ txt.n % p = txt.n)
      <3>1. \A n, m : m \in Nat \ {0} /\ n \in 0 .. m - 1 => n % m = n
        OBVIOUS
      <3>2. txt.n < 0 \/ txt.n \in 0 .. p - 1
        BY <2>3
      <3> QED BY <3>1, <3>2
    <2>5. c.x \in TextMeans("UBIGINT", txt) \/ txt.n < 0
      BY <1>1, <1>2, <1>4, <2>1, <2>4 DEF Numeric
    <2> HIDE DEF c
    <2> QED BY <2>1, <2>2, <2>5 DEF Numbered
  <1>5. CASE ~(Numeric(txt) /\ e # "ERANGE")
    <2>1. ~c.ok
      BY <1>3, <1>5 DEF Not
    <2>2. errno0 = "0" => TextMeans("UBIGINT", txt) = {}
      <3>1. txt.n \notin -(p - 1) .. p - 1 => txt.n \notin 0 .. p - 1
        OBVIOUS
      <3> QED BY <1>1, <1>2, <1>3, <1>5, <3>1 DEF Numeric, After
    <2> HIDE DEF c
    <2> QED BY <2>1, <2>2 DEF Numbered
  <1> QED BY <1>4, <1>5

LEMMA RealTextRight ==
  ASSUME NEW txt, IsTxt(txt), NEW t \in {"FLOAT", "DOUBLE"}, NEW errno0
  PROVE  Numbered(t, txt, TextToReal(t, txt, errno0), errno0)
  <1> DEFINE over == t = "FLOAT" /\ 2 * txt.n \notin -FltMax .. FltMax
             e == After(txt.k = "num" /\ over, errno0)
             c == TextToReal(t, txt, errno0)
             y == <<IF t = "FLOAT" THEN "f" ELSE "d", 2 * txt.n>>
  <1> SUFFICES Numbered(t, txt, c, errno0)
    OBVIOUS
  <1>0. FltMax \in Nat
    BY ConvAssumption
  <1>1. NumberMeans(t, txt.n) = IF over THEN {} ELSE {y}
    BY DEF NumberMeans
  <1>2. TextMeans(t, txt) = IF txt.k \in {"num", "empty"} THEN NumberMeans(t, txt.n) ELSE {}
    BY DEF TextMeans, VarTypes, IsTxt
  <1>3. c = IF Numeric(txt) /\ ~(e = "ERANGE" /\ (over \/ txt.n = 0)) THEN Made(y, e) ELSE Not(e)
    BY DEF TextToReal
  <1>4. txt.k = "empty" => ~over
    BY <1>0 DEF IsTxt
  <1>5. CASE Numeric(txt) /\ ~(e = "ERANGE" /\ (over \/ txt.n = 0))
    <2>1. c.ok /\ c.x = y /\ c.errno = e
      BY <1>3, <1>5 DEF Made
    <2>2. (errno0 = "0" => e = "0") /\ ~over
      BY <1>4, <1>5 DEF After, Numeric
    <2>3. y \in TextMeans(t, txt) /\ y[1] \in {"i", "f", "d"}
      BY <1>1, <1>2, <1>5, <2>2 DEF Numeric
    <2> HIDE DEF c, e, over, y
    <2> QED BY <2>1, <2>2, <2>3 DEF Numbered
  <1>6. CASE ~(Numeric(txt) /\ ~(e = "ERANGE" /\ (over \/ txt.n = 0)))
    <2>1. ~c.ok
      BY <1>3, <1>6 DEF Not
    <2>2. errno0 = "0" => TextMeans(t, txt) = {}
      BY <1>1, <1>2, <1>4, <1>6 DEF Numeric, After
    <2> HIDE DEF c, e, over, y
    <2> QED BY <2>1, <2>2 DEF Numbered
  <1> QED BY <1>5, <1>6

\* A text to a number (_stmt_param_conv_sqlc_char_to_tsdb_*).
LEMMA NumberRight ==
  ASSUME NEW e, e.conv = "number", Kinds(e), NEW x, IsValue("CHAR", x), NEW errno0, NEW csize, NEW stride
  PROVE  Right(e, x, csize, stride, Set("str", x), ConvNumber(e.t, Set("str", x), errno0), errno0)
  <1>1. e.t \in {"BOOL", "UBIGINT", "FLOAT", "DOUBLE"} \cup NumberTypes
    BY DEF Kinds
  <1> DEFINE txt == x[2]
             d == Set("str", x)
             c == ConvNumber(e.t, d, errno0)
  <1> SUFFICES Right(e, x, csize, stride, d, c, errno0)
    OBVIOUS
  <1>2. x # Garbage /\ x[1] = "t" /\ Means(e.p, e.t, x) = TextMeans(e.t, txt) /\ IsTxt(txt)
    BY TextParts DEF Texts, IsTxt
  <1>3. d.ok /\ Member(d, "str") = x
    BY DEF Set, Member
  <1>4. c = (CASE e.t = "BOOL" -> TextToBool(txt, errno0)
               [] e.t = "UBIGINT" -> TextToUBigint(txt, errno0)
               [] e.t \in {"FLOAT", "DOUBLE"} -> TextToReal(e.t, txt, errno0)
               [] OTHER -> TextToInteger(e.t, txt, errno0))
    BY <1>2, <1>3 DEF ConvNumber
  <1> HIDE DEF c, d, txt
  <1>5. Numbered(e.t, txt, c, errno0)
    <2>1. CASE e.t = "BOOL"
      BY <1>2, <1>4, <2>1, BoolTextRight
    <2>2. CASE e.t = "UBIGINT"
      <3>1. c = TextToUBigint(txt, errno0)
        BY <1>4, <2>2
      <3> QED BY <1>2, <2>2, <3>1, UBigintTextRight
    <2>3. CASE e.t \in {"FLOAT", "DOUBLE"}
      <3>1. c = TextToReal(e.t, txt, errno0)
        BY <1>4, <2>3
      <3> QED BY <1>2, <2>3, <3>1, RealTextRight
    <2>4. CASE e.t \in NumberTypes
      <3>1. c = TextToInteger(e.t, txt, errno0)
        BY <1>4, <2>4 DEF NumberTypes
      <3> QED BY <1>2, <2>4, <3>1, IntegerTextRight
    <2> QED BY <1>1, <2>1, <2>2, <2>3, <2>4
  <1>6. CASE c.ok
    <2>1. c.x # Null
      BY <1>5, <1>6 DEF Numbered, Null
    <2>2. Taken(e.t, c.x) = c.x
      BY <1>5, <1>6 DEF Numbered, Taken
    <2>3. c.x \in Means(e.p, e.t, x) \/ NegativeText(x, e.t)
      BY <1>2, <1>5, <1>6 DEF Numbered, NegativeText, txt
    <2>4. Faithful(e, x, c.x)
      BY <2>1, <2>2, <2>3 DEF Faithful
    <2> QED BY <1>3, <1>5, <1>6, <2>4 DEF Right, Numbered
  <1>7. CASE ~c.ok
    <2>1. errno0 = "0" => Means(e.p, e.t, x) = {}
      BY <1>2, <1>5, <1>7 DEF Numbered
    <2> QED BY <1>7, <2>1 DEF Right, Justified
  <1> QED BY <1>6, <1>7

\* A value that is not converted.
LEMMA DummyRight ==
  ASSUME NEW e, e.conv = "dummy", Kinds(e), NEW x, IsValue(e.v, x), NEW errno0, NEW csize, NEW stride,
         NEW before, before.ok
  PROVE  Right(e, x, csize, stride, Check(<<e.v, e.p>>, csize, x, before), Made(Garbage, errno0), errno0)
  <1>1. <<e.v, e.p>> \in {<<"SBIGINT", "TIMESTAMP">>, <<"SBIGINT", "BIGINT">>, <<"SBIGINT", "VARCHAR">>,
                          <<"DOUBLE", "DOUBLE">>, <<"DOUBLE", "VARCHAR">>, <<"FLOAT", "REAL">>,
                          <<"SLONG", "INTEGER">>, <<"SLONG", "VARCHAR">>, <<"LONG", "INTEGER">>,
                          <<"SHORT", "SMALLINT">>, <<"SHORT", "BIT">>, <<"STINYINT", "TINYINT">>,
                          <<"STINYINT", "VARCHAR">>}
    BY DEF Kinds
  <1>2. x # Garbage
    BY <1>1, ValueParts DEF CTypes, Integral
  <1> DEFINE d == Check(<<e.v, e.p>>, csize, x, before)
             c == Made(Garbage, errno0)
  <1> SUFFICES Right(e, x, csize, stride, d, c, errno0)
    OBVIOUS
  <1>3. d.ok
    <2>1. CASE <<e.v, e.p>> \in {<<"SBIGINT", "TIMESTAMP">>, <<"SBIGINT", "BIGINT">>, <<"SLONG", "INTEGER">>,
                                 <<"LONG", "INTEGER">>, <<"SHORT", "SMALLINT">>, <<"SHORT", "BIT">>,
                                 <<"STINYINT", "TINYINT">>}
      BY <2>1 DEF Check, IsDummy, Pairs
    <2>2. CASE <<e.v, e.p>> \in {<<"SBIGINT", "VARCHAR">>, <<"SLONG", "VARCHAR">>, <<"STINYINT", "VARCHAR">>}
      <3>1. ~IsDummy(<<e.v, e.p>>)
        BY <2>2 DEF IsDummy, Pairs
      <3>2. d = Set("str", Garbage)
        BY <1>2, <2>2, <3>1 DEF Check, Texts
      <3> QED BY <3>2 DEF Set
    <2>3. CASE <<e.v, e.p>> \in {<<"DOUBLE", "DOUBLE">>, <<"DOUBLE", "VARCHAR">>}
      <3>1. ~IsDummy(<<e.v, e.p>>)
        BY <2>3 DEF IsDummy, Pairs
      <3>2. d = CheckDouble(e.p, x)
        BY <1>2, <2>3, <3>1 DEF Check, Texts
      <3> QED BY <2>3, <3>2 DEF Set, CheckDouble
    <2>4. CASE <<e.v, e.p>> = <<"FLOAT", "REAL">>
      <3>1. ~IsDummy(<<e.v, e.p>>)
        BY <2>4 DEF IsDummy, Pairs
      <3>2. d = Set("flt", x)
        BY <1>2, <2>4, <3>1 DEF Check, Texts
      <3> QED BY <3>2 DEF Set
    <2> QED BY <1>1, <2>1, <2>2, <2>3, <2>4
  <1>4. c.ok /\ c.x = Garbage /\ c.errno = errno0
    BY DEF Made
  <1> HIDE DEF d, c
  <1>5. Faithful(e, x, c.x)
    BY <1>4 DEF Faithful
  <1> QED BY <1>3, <1>4, <1>5 DEF Right

\* A value of a row, whatever the entry.
LEMMA RowRight ==
  ASSUME NEW e, Kinds(e), NEW x, IsValue(e.v, x), NEW errno0, NEW csize, NEW stride, NEW before, before.ok
  PROVE  Right(e, x, csize, stride, Check(<<e.v, e.p>>, csize, x, before),
               _stmt_param_conv(e, x, Check(<<e.v, e.p>>, csize, x, before), stride, errno0), errno0)
  <1> DEFINE d == Check(<<e.v, e.p>>, csize, x, before)
             c == _stmt_param_conv(e, x, d, stride, errno0)
  <1> SUFFICES Right(e, x, csize, stride, d, c, errno0)
    OBVIOUS
  <1>0. x # Garbage
    <2>1. e.v \in CTypes
      BY DEF Kinds, CTypes, Integral, Texts
    <2> QED BY <2>1, ValueParts
  <1>1. CASE e.conv = "dummy"
    <2>1. c = Made(Garbage, errno0)
      BY <1>1 DEF _stmt_param_conv
    <2> HIDE DEF c
    <2> QED BY <1>1, <2>1, DummyRight
  <1>2. CASE e.conv = "int"
    <2>1. e.v = "SBIGINT" /\ e.p \in {"INTEGER", "SMALLINT", "TINYINT"}
      BY <1>2 DEF Kinds
    <2>2. ~IsDummy(<<e.v, e.p>>)
      BY <2>1 DEF IsDummy, Pairs
    <2>3. d = NarrowInteger(e.p, x)
      BY <1>0, <2>1, <2>2 DEF Check, Texts
    <2>4. c = ConvInteger(e.t, d, errno0)
      BY <1>2 DEF _stmt_param_conv
    <2> HIDE DEF c, d
    <2>5. IsValue("SBIGINT", x)
      BY <2>1
    <2> QED BY <1>2, <2>3, <2>4, <2>5, NarrowRight
  <1>3. CASE e.conv = "ts" /\ e.v = "DOUBLE"
    <2>1. ~IsDummy(<<e.v, e.p>>)
      BY <1>3 DEF IsDummy, Pairs
    <2>2. d = CheckDouble(e.p, x)
      BY <1>0, <1>3, <2>1 DEF Check, Texts
    <2>3. c = ConvTimestamp(d, errno0)
      BY <1>3 DEF _stmt_param_conv
    <2> HIDE DEF c, d
    <2>4. IsValue("DOUBLE", x)
      BY <1>3
    <2> QED BY <1>3, <2>2, <2>3, <2>4, RealTimestampRight
  <1>4. CASE e.conv = "ts" /\ e.v = "CHAR"
    <2>1. ~IsDummy(<<e.v, e.p>>) /\ e.p = "TIMESTAMP"
      BY <1>4 DEF IsDummy, Pairs, Kinds
    <2>2. d = CheckText(e.v, e.p, csize, x[2])
      BY <1>0, <1>4, <2>1 DEF Check, Texts
    <2>5. d = CopyToTimestamp(x[2])
      BY <2>1, <2>2 DEF CheckText, CheckTextInteger, CheckTextSmall
    <2>3. c = ConvTimestamp(d, errno0)
      BY <1>4 DEF _stmt_param_conv
    <2> HIDE DEF c, d
    <2>4. IsValue("CHAR", x)
      BY <1>4
    <2> QED BY <1>4, <2>3, <2>4, <2>5, TextTimestampRight
  <1>5. CASE e.conv = "double"
    <2>1. e.v = "DOUBLE"
      BY <1>5 DEF Kinds
    <2>2. ~IsDummy(<<e.v, e.p>>)
      BY <2>1 DEF IsDummy, Pairs
    <2>3. d = CheckDouble(e.p, x)
      BY <1>0, <2>1, <2>2 DEF Check, Texts
    <2>4. c = ConvDouble(e.t, d, errno0)
      BY <1>5 DEF _stmt_param_conv
    <2> HIDE DEF c, d
    <2>5. IsValue("DOUBLE", x)
      BY <2>1
    <2> QED BY <1>5, <2>3, <2>4, <2>5, InPlaceRight
  <1>6. CASE e.conv = "real"
    <2>1. e.v = "DOUBLE"
      BY <1>6 DEF Kinds
    <2>2. ~IsDummy(<<e.v, e.p>>)
      BY <2>1 DEF IsDummy, Pairs
    <2>3. d = CheckDouble(e.p, x)
      BY <1>0, <2>1, <2>2 DEF Check, Texts
    <2>4. c = Made(Member(d, "flt"), errno0)
      BY <1>6 DEF _stmt_param_conv
    <2> HIDE DEF c, d
    <2>5. IsValue("DOUBLE", x)
      BY <2>1
    <2> QED BY <1>6, <2>3, <2>4, <2>5, RealRight
  <1>7. CASE e.conv = "number"
    <2>1. e.v = "CHAR" /\ e.p = "VARCHAR"
      BY <1>7 DEF Kinds
    <2>2. ~IsDummy(<<e.v, e.p>>)
      BY <2>1 DEF IsDummy, Pairs
    <2>3. d = CheckText(e.v, e.p, csize, x[2])
      BY <1>0, <2>1, <2>2 DEF Check, Texts
    <2>4. CheckText(e.v, e.p, csize, x[2]) = Set("str", <<"t", x[2]>>)
      BY <2>1 DEF CheckText, CheckTextInteger, CheckTextSmall
    <2>5. IsValue("CHAR", x)
      BY <2>1
    <2>6. x = <<"t", x[2]>>
      BY <2>5, TextParts DEF Texts
    <2>7. c = ConvNumber(e.t, d, errno0)
      BY <1>7 DEF _stmt_param_conv
    <2> HIDE DEF c, d
    <2>8. d = Set("str", x)
      BY <2>3, <2>4, <2>6
    <2> QED BY <1>7, <2>5, <2>7, <2>8, NumberRight
  <1>8. CASE e.conv \in {"text_ts", "text"}
    <2>1. e.v \in Texts /\ e.p \in {"VARCHAR", "WVARCHAR"} /\ (e.conv = "text_ts" => e.v = "CHAR")
      BY <1>8 DEF Kinds, Texts
    <2>2. ~IsDummy(<<e.v, e.p>>)
      BY <2>1 DEF IsDummy, Pairs, Texts
    <2>3. d = CheckText(e.v, e.p, csize, x[2])
      <3>1. CASE e.v = "CHAR"
        BY <1>0, <2>2, <3>1 DEF Check, Texts
      <3>2. CASE e.v = "WCHAR"
        BY <1>0, <2>2, <3>2 DEF Check, Texts
      <3> QED BY <2>1, <3>1, <3>2 DEF Texts
    <2>4. x[1] = "t" /\ x = <<"t", x[2]>>
      BY <2>1, TextParts
    <2>5. e.conv = "text_ts" => c = ConvTextTimestamp(x, errno0)
      BY <2>4 DEF _stmt_param_conv
    <2>6. e.conv = "text" => c = ConvText(x, stride, errno0)
      BY <2>4 DEF _stmt_param_conv
    <2> HIDE DEF c, d
    <2>7. d = Set("str", <<"t", x[2]>>) \/ (d = Refused /\ (x[2].k = "alien" \/ (e.p = "WVARCHAR" /\ x[2].len > csize)))
      BY <2>1, <2>3, TextChecked
    <2>8. d.ok \in BOOLEAN /\ (d.ok \/ (x[2].k = "alien" \/ (e.p = "WVARCHAR" /\ x[2].len > csize)))
      <3>1. \A y : Set("str", y).ok = TRUE
        BY DEF Set
      <3>2. Refused.ok = FALSE
        BY DEF Refused
      <3> QED BY <2>7, <3>1, <3>2
    <2>9. CASE e.conv = "text"
      BY <2>6, <2>8, <2>9, TextRight
    <2>10. CASE e.conv = "text_ts"
      <3>1. IsValue("CHAR", x)
        BY <2>1, <2>10
      <3> QED BY <2>5, <2>8, <2>10, <3>1, TextToTimestampRight
    <2> QED BY <1>8, <2>9, <2>10
  <1>9. CASE e.conv = "binary"
    <2>1. e.v = "BINARY"
      BY <1>9 DEF Kinds
    <2>2. ~IsDummy(<<e.v, e.p>>)
      BY <2>1 DEF IsDummy, Pairs
    <2>3. d = Set("str", x)
      BY <1>0, <2>1, <2>2 DEF Check, Texts
    <2>4. IsValue("BINARY", x) /\ x[1] = "b"
      BY <2>1, ValueParts DEF CTypes
    <2>5. c = ConvBinary(x, stride, errno0)
      BY <1>9, <2>4 DEF _stmt_param_conv
    <2> HIDE DEF c, d
    <2> QED BY <1>9, <2>3, <2>4, <2>5, BinaryRight
  <1>10. e.conv = "ts" => e.v \in {"DOUBLE", "CHAR"}
    BY DEF Kinds
  <1>11. e.conv \in {"dummy", "int", "ts", "double", "real", "number", "text_ts", "text", "binary"}
    BY DEF Kinds
  <1> QED BY <1>1, <1>2, <1>3, <1>4, <1>5, <1>6, <1>7, <1>8, <1>9, <1>10, <1>11

-----------------------------------------------------------------------------
(* Row after row.                                                          *)

\* What the rows of an array start from, and one more row.
Start(rec, errno0) == [mem |-> rec.mem, own |-> <<>>, errno |-> errno0, d |-> Set("none", Garbage), bad |-> FALSE]
Further(meta0, rec, csize, e, field, s, i) ==
  IF s.bad THEN s ELSE _stmt_param_check_and_conv(meta0, rec, csize, e, field, s, i)

\* f is what the rows lead to, one after the other.
Chained(f, meta0, rec, csize, e, field, rows, errno0) ==
  /\ f[0] = Start(rec, errno0)
  /\ \A k \in 1..rows : f[k] = Further(meta0, rec, csize, e, field, f[k - 1], k)
  /\ _stmt_prepare_col_data(meta0, rec, csize, e, field, rows, errno0) = f[rows]

\* The rows are what a chain of such steps leads to.
LEMMA RowByRow ==
  ASSUME NEW meta0, NEW rec, NEW csize, NEW e, NEW field, NEW rows \in Nat, NEW errno0
  PROVE  \E f : Chained(f, meta0, rec, csize, e, field, rows, errno0)
  <1> DEFINE start == Start(rec, errno0)
             Next1(s, k) == Further(meta0, rec, csize, e, field, s, k)
             Good(f, n) == f = [k \in 0..n |-> IF k = 0 THEN start ELSE Next1(f[k - 1], k)]
             S == {n \in Nat : \E f : Good(f, n)}
  <1>1. 0 \in S
    <2>1. Good([k \in 0..0 |-> start], 0)
      OBVIOUS
    <2> QED BY <2>1
  <1>2. ASSUME NEW n \in Nat, NEW f, Good(f, n) PROVE \E g : Good(g, n + 1)
    <2> HIDE DEF Next1, start
    <2> DEFINE g == [k \in 0..(n + 1) |-> IF k = n + 1 THEN Next1(f[n], k) ELSE f[k]]
    <2>1. \A k \in 0..n : g[k] = f[k]
      OBVIOUS
    <2>2. ASSUME NEW k \in 0..(n + 1) PROVE g[k] = IF k = 0 THEN start ELSE Next1(g[k - 1], k)
      <3>1. CASE k = 0
        <4>1. f[0] = start
          BY <1>2
        <4> QED BY <2>1, <3>1, <4>1
      <3>2. CASE k = n + 1
        <4>1. k - 1 = n /\ n \in 0..n /\ k # 0
          BY <3>2
        <4> QED BY <2>1, <3>2, <4>1
      <3>3. CASE k \in 1..n
        <4>1. k - 1 \in 0..n /\ k # 0 /\ k \in 0..n
          BY <3>3
        <4>2. f[k] = Next1(f[k - 1], k)
          BY <1>2, <4>1
        <4> QED BY <2>1, <4>1, <4>2
      <3> QED BY <3>1, <3>2, <3>3
    <2>3. Good(g, n + 1)
      BY <2>2
    <2> QED BY <2>3
  <1>3. rows \in S
    <2> HIDE DEF Good
    <2>1. \A n \in S : n + 1 \in S
      BY <1>2
    <2>2. S \subseteq Nat
      OBVIOUS
    <2> HIDE DEF S
    <2> QED BY <1>1, <2>1, <2>2, Induct
  <1> DEFINE after == CHOOSE f : Good(f, rows)
  <1>4. Good(after, rows)
    <2> HIDE DEF Good
    <2> QED BY <1>3
  <1>5. after[0] = start /\ \A k \in 1..rows : after[k] = Next1(after[k - 1], k)
    <2> HIDE DEF after, Next1, start
    <2> QED BY <1>4
  <1>6. _stmt_prepare_col_data(meta0, rec, csize, e, field, rows, errno0) = after[rows]
    BY DEF _stmt_prepare_col_data, Start, Further
  <1> HIDE DEF after
  <1> QED BY <1>5, <1>6 DEF Chained

\* What the rows have left, as a record.
Shape(s) == DOMAIN s = {"mem", "own", "errno", "d", "bad"}

\* Only a conversion in place writes to the array of the application.
LEMMA ArrayKept ==
  ASSUME NEW meta0, NEW rec, NEW csize, NEW e, NEW field, NEW rows \in Nat, NEW errno0, e.conv # "double"
  PROVE  _stmt_prepare_col_data(meta0, rec, csize, e, field, rows, errno0).mem = rec.mem
  <1>0. PICK f : Chained(f, meta0, rec, csize, e, field, rows, errno0)
    BY RowByRow
  <1>1. /\ f[0] = Start(rec, errno0)
        /\ \A k \in 1..rows : f[k] = Further(meta0, rec, csize, e, field, f[k - 1], k)
        /\ _stmt_prepare_col_data(meta0, rec, csize, e, field, rows, errno0) = f[rows]
    BY <1>0 DEF Chained
  <1> DEFINE Kept(s) == Shape(s) /\ s.mem = rec.mem
             S == {n \in Nat : n <= rows => Kept(f[n])}
  <1>2. 0 \in S
    <2>1. Kept(Start(rec, errno0))
      BY DEF Start, Shape
    <2> QED BY <1>1, <2>1
  <1>3. ASSUME NEW s, Kept(s), NEW i PROVE Kept(Further(meta0, rec, csize, e, field, s, i))
    <2> DEFINE x == _stmt_param_get(meta0, [rec EXCEPT !.mem = s.mem], i)
               d == Check(meta0, csize, x, s.d)
               c == _stmt_param_conv(e, x, d, Stride(field), s.errno)
               r == Further(meta0, rec, csize, e, field, s, i)
    <2>1. \/ r = s
          \/ r = [s EXCEPT !.own = Append(@, Null)]
          \/ r = [s EXCEPT !.bad = TRUE]
          \/ r = [s EXCEPT !.bad = TRUE, !.errno = c.errno, !.d = d]
          \/ r = [s EXCEPT !.own = Append(@, c.x), !.errno = c.errno, !.d = d, !.mem = @]
      BY DEF Further, _stmt_param_check_and_conv
    <2> HIDE DEF x, d, c, r
    <2>2. Kept(r)
      BY <1>3, <2>1 DEF Shape
    <2> QED BY <2>2 DEF r
  <1>4. ASSUME NEW n \in S PROVE n + 1 \in S
    <2> SUFFICES ASSUME n + 1 <= rows PROVE Kept(f[n + 1])
      OBVIOUS
    <2>1. n \in Nat /\ n <= rows /\ n + 1 \in 1..rows /\ (n + 1) - 1 = n
      OBVIOUS
    <2>2. f[n + 1] = Further(meta0, rec, csize, e, field, f[n], n + 1)
      BY <1>1, <2>1
    <2> HIDE DEF Kept
    <2>3. Kept(f[n])
      BY <2>1
    <2> QED BY <1>3, <2>2, <2>3
  <1>5. rows \in S
    <2>1. S \subseteq Nat
      OBVIOUS
    <2> HIDE DEF S
    <2> QED BY <1>2, <1>4, <2>1, Induct
  <1> QED BY <1>1, <1>5

\* What has been written over a part of an array.
LEMMA OverPart ==
  ASSUME NEW mem \in Seq(Cells), NEW off \in Nat, NEW bs \in Seq(Cells)
  PROVE  /\ Overwrite(mem, off, bs) \in Seq(Cells) /\ Len(Overwrite(mem, off, bs)) = Len(mem)
         /\ \A k \in 1..Len(mem) : Overwrite(mem, off, bs)[k] =
              IF k > off /\ k <= off + Len(bs) THEN bs[k - off] ELSE mem[k]
  <1>1. DOMAIN mem = 1..Len(mem) /\ DOMAIN bs = 1..Len(bs) /\ Len(mem) \in Nat /\ Len(bs) \in Nat
    OBVIOUS
  <1>2. \A k \in 1..Len(mem) : k - off \in DOMAIN bs <=> k > off /\ k <= off + Len(bs)
    BY <1>1
  <1> DEFINE f == Overwrite(mem, off, bs)
  <1>3. f = [k \in 1..Len(mem) |-> IF k - off \in DOMAIN bs THEN bs[k - off] ELSE mem[k]]
    BY <1>1 DEF Overwrite
  <1>4. \A k \in 1..Len(mem) : (IF k - off \in DOMAIN bs THEN bs[k - off] ELSE mem[k]) \in Cells
    BY <1>1
  <1>5. f \in [1..Len(mem) -> Cells]
    BY <1>3, <1>4
  <1>6. \A k \in 1..Len(mem) : f[k] = IF k > off /\ k <= off + Len(bs) THEN bs[k - off] ELSE mem[k]
    BY <1>2, <1>3
  <1> HIDE DEF f
  <1>7. f \in Seq(Cells) /\ Len(f) = Len(mem)
    BY <1>1, <1>5
  <1> QED BY <1>6, <1>7 DEF f

\* What row j has to have left, the value y and the array mem.
Delivered(e, rec, mem, j, y) ==
  IF rec.ind[j] THEN y = Null
  ELSE /\ Faithful(e, AppValue(rec, j), y)
       /\ e.conv = "double" /\ y # Garbage => Read(Encoded(e.t), mem, (j - 1) * Width[Encoded(e.t)]) = y

\* What rows 1 to i have to have left, in s.
Rowed(e, rec, csize, stride, errno0, i, s) ==
  /\ Shape(s) /\ s.bad \in BOOLEAN /\ s.d.ok
  /\ (\E T : s.own \in Seq(T)) /\ IF s.bad THEN Len(s.own) < i ELSE Len(s.own) = i
  /\ s.mem \in Seq(Cells) /\ Len(s.mem) = Len(rec.mem)
  /\ \A k \in 1..Len(rec.mem) : k > i * Width[e.v] => s.mem[k] = rec.mem[k]
  /\ \A j \in 1..Len(s.own) : Delivered(e, rec, s.mem, j, s.own[j])
  /\ errno0 = "0" => IF s.bad THEN /\ ~rec.ind[Len(s.own) + 1]
                                   /\ Justified(e, AppValue(rec, Len(s.own) + 1), csize, stride)
                     ELSE s.errno = "0"

\* A sequence one longer.
LEMMA OneMore ==
  ASSUME NEW own, NEW T, own \in Seq(T), NEW y
  PROVE  /\ Append(own, y) \in Seq(T \cup {y}) /\ Len(Append(own, y)) = Len(own) + 1 /\ Len(own) \in Nat
         /\ \A j \in 1..Len(own) : Append(own, y)[j] = own[j]
         /\ Append(own, y)[Len(own) + 1] = y
  <1>1. own \in Seq(T \cup {y}) /\ Len(own) \in Nat
    OBVIOUS
  <1> QED BY <1>1

\* The rows after row i leave what row i has left: they write beyond it.
LEMMA Beyond ==
  ASSUME NEW w \in {1, 2, 4, 8}, NEW i \in Nat \ {0}, NEW j \in 1..(i - 1)
  PROVE  (j - 1) * w \in Nat /\ (j - 1) * w + w <= (i - 1) * w
  <1>1. CASE w = 1
    BY <1>1
  <1>2. CASE w = 2
    BY <1>2
  <1>3. CASE w = 4
    BY <1>3
  <1>4. CASE w = 8
    BY <1>4
  <1> QED BY <1>1, <1>2, <1>3, <1>4

\* An array has a double i.
HasDouble(mem, i) == i \in Nat \ {0} /\ (i - 1) * 8 + 8 <= Len(mem)

\* new is mem after value y of type v has been written to its place i.
Wrote(v, y, mem, i, new) == new = Overwrite(mem, (i - 1) * Len(Bytes(v, y)), Bytes(v, y))

\* It is read there, and neither the places before it nor what comes after i doubles changes.
Stands(v, y, mem, i, new) ==
  /\ new \in Seq(Cells) /\ Len(new) = Len(mem)
  /\ \A k \in 1..Len(mem) : k > i * 8 => new[k] = mem[k]
  /\ y # Garbage => Read(v, new, (i - 1) * Width[v]) = y
  /\ \A j \in 1..(i - 1) : Read(v, new, (j - 1) * Width[v]) = Read(v, mem, (j - 1) * Width[v])

\* A conversion in place: what it writes is read, what rows before it have
\* written is not touched, nor what rows after it will read.
LEMMA WrittenInPlace ==
  ASSUME NEW v \in {"SBIGINT", "SLONG", "FLOAT"}, NEW y, y = Garbage \/ IsValue(v, y), NEW mem \in Seq(Cells),
         NEW i, HasDouble(mem, i),
         NEW new, Wrote(v, y, mem, i, new)
  PROVE  Stands(v, y, mem, i, new)
  <1> DEFINE bs == Bytes(v, y)
             w == Width[v]
             off == (i - 1) * w
  <1>1. v \in CTypes /\ w \in {4, 8}
    BY Widths DEF CTypes, Integral
  <1>2. bs \in Seq(Cells) /\ Len(bs) = w
    BY <1>1, BytesAreCells
  <1> HIDE DEF bs, w
  <1>0. i \in Nat \ {0} /\ (i - 1) * 8 + 8 <= Len(mem)
    BY DEF HasDouble
  <1>3. off \in Nat /\ off + w = i * w /\ i * w <= i * 8 /\ off + w <= Len(mem) /\ Len(mem) \in Nat
    <2>1. CASE w = 4
      BY <1>0, <2>1
    <2>2. CASE w = 8
      BY <1>0, <2>2
    <2> QED BY <1>1, <2>1, <2>2
  <1>4. new = Overwrite(mem, off, bs)
    BY <1>2 DEF bs, Wrote
  <1> HIDE DEF off
  <1>5. /\ new \in Seq(Cells) /\ Len(new) = Len(mem)
        /\ \A k \in 1..Len(mem) : new[k] = IF k > off /\ k <= off + w THEN bs[k - off] ELSE mem[k]
    BY <1>2, <1>3, <1>4, OverPart
  <1>6. \A k \in 1..Len(mem) : k > i * 8 => new[k] = mem[k]
    <2> SUFFICES ASSUME NEW k \in 1..Len(mem), k > i * 8 PROVE new[k] = mem[k]
      OBVIOUS
    <2>1. PICK a \in Int, b \in Int : a = off + w /\ b = i * 8 /\ a <= b
      BY <1>0, <1>1, <1>3
    <2>2. ~(k <= off + w)
      BY <2>1
    <2> QED BY <1>5, <2>2
  <1>7. y # Garbage => Read(v, new, off) = y
    <2> SUFFICES ASSUME y # Garbage PROVE Read(v, new, off) = y
      OBVIOUS
    <2>1. \A k \in 1..w : new[off + k] = bs[k]
      <3> TAKE k \in 1..w
      <3>1. off + k \in 1..Len(mem) /\ off + k > off /\ off + k <= off + w /\ (off + k) - off = k
        BY <1>1, <1>3
      <3> QED BY <1>5, <3>1
    <2>2. IsValue(v, y) /\ new \in Seq(Cells) /\ off + Width[v] <= Len(new)
      BY <1>3, <1>5 DEF w
    <2>3. \A k \in 1..Width[v] : new[off + k] = Bytes(v, y)[k]
      BY <2>1 DEF w, bs
    <2>4. off \in Nat
      BY <1>3
    <2>5. Holds(new, off, v, y)
      BY <2>2, <2>3, <2>4 DEF Holds
    <2> QED BY <2>2, <2>5, WrittenIsRead
  <1>8. ASSUME NEW j \in 1..(i - 1) PROVE Read(v, new, (j - 1) * w) = Read(v, mem, (j - 1) * w)
    <2>1. (j - 1) * w \in Nat /\ (j - 1) * w + w <= off
      BY <1>0, <1>1, Beyond DEF off
    <2>2. PICK at \in Nat : at = (j - 1) * w
      BY <2>1
    <2>3. \A k \in 1..Len(new) : k > at /\ k <= at + w => new[k] = mem[k]
      BY <1>1, <1>3, <1>5, <2>1, <2>2
    <2>4. Read(v, new, at) = Read(v, mem, at)
      BY <1>1, <1>5, <2>3, ReadIsLocal DEF w
    <2> QED BY <2>2, <2>4
  <1> QED BY <1>5, <1>6, <1>7, <1>8 DEF Stands, off, w

\* One more row.
LEMMA FurtherRow ==
  ASSUME NEW e, Kinds(e), NEW rec, Record(rec), rec.v = e.v, rec.mem \in Seq(Cells), NEW csize, NEW field, NEW errno0,
         NEW i \in Nat \ {0}, rec.ind[i] \in BOOLEAN, AppValue(rec, i) # Garbage, NEW s,
         Rowed(e, rec, csize, Stride(field), errno0, i - 1, s)
  PROVE  Rowed(e, rec, csize, Stride(field), errno0, i, Further(<<e.v, e.p>>, rec, csize, e, field, s, i))
  <1> DEFINE stride == Stride(field)
             meta0 == <<e.v, e.p>>
             w == Width[e.v]
             x == _stmt_param_get(meta0, [rec EXCEPT !.mem = s.mem], i)
             d == Check(meta0, csize, x, s.d)
             c == _stmt_param_conv(e, x, d, stride, s.errno)
             bs == Bytes(Encoded(e.t), c.x)
             r == Further(meta0, rec, csize, e, field, s, i)
  <1>1. /\ Shape(s) /\ s.bad \in BOOLEAN /\ s.d.ok
        /\ (IF s.bad THEN Len(s.own) < i - 1 ELSE Len(s.own) = i - 1)
        /\ s.mem \in Seq(Cells) /\ Len(s.mem) = Len(rec.mem)
        /\ \A k \in 1..Len(rec.mem) : k > (i - 1) * w => s.mem[k] = rec.mem[k]
        /\ \A j \in 1..Len(s.own) : Delivered(e, rec, s.mem, j, s.own[j])
        /\ errno0 = "0" => IF s.bad THEN /\ ~rec.ind[Len(s.own) + 1]
                                         /\ Justified(e, AppValue(rec, Len(s.own) + 1), csize, stride)
                           ELSE s.errno = "0"
    BY DEF Rowed
  <1>2. PICK T : s.own \in Seq(T)
    BY DEF Rowed
  <1>3. e.v \in CTypes /\ w \in {1, 2, 4, 8} /\ Len(s.own) \in Nat /\ Len(rec.mem) \in Nat
    <2>1. e.v \in CTypes
      BY DEF Kinds, CTypes, Texts, Integral
    <2> QED BY <1>2, <2>1, Widths
  <1>4. (i - 1) * w \in Nat /\ i * w = (i - 1) * w + w /\ (i - 1) * w < i * w
    <2>1. CASE w = 1
      BY <2>1
    <2>2. CASE w = 2
      BY <2>2
    <2>3. CASE w = 4
      BY <2>3
    <2>4. CASE w = 8
      BY <2>4
    <2> HIDE DEF w
    <2> QED BY <1>3, <2>1, <2>2, <2>3, <2>4
  <1> HIDE DEF w
  <1>5. \A k \in 1..Len(rec.mem) : k > i * w => s.mem[k] = rec.mem[k]
    <2> SUFFICES ASSUME NEW k \in 1..Len(rec.mem), k > i * w PROVE s.mem[k] = rec.mem[k]
      OBVIOUS
    <2>1. PICK a \in Nat, b \in Nat : a = (i - 1) * w /\ b = i * w /\ a < b
      BY <1>3, <1>4
    <2>2. k > (i - 1) * w
      BY <2>1
    <2> QED BY <1>1, <2>2
  <1> SUFFICES Rowed(e, rec, csize, stride, errno0, i, r)
    BY DEF r, stride, meta0
  <1>6. CASE s.bad
    <2>1. r = s
      BY <1>6 DEF Further
    <2> HIDE DEF r
    <2>2. Len(s.own) < i
      BY <1>1, <1>3, <1>6
    <2> QED BY <1>1, <1>2, <1>5, <1>6, <2>1, <2>2 DEF Rowed, w
  <1>7. CASE ~s.bad /\ rec.ind[i]
    <2>1. r = [s EXCEPT !.own = Append(@, Null)]
      BY <1>7 DEF Further, _stmt_param_check_and_conv
    <2> HIDE DEF r
    <2> DEFINE o == Append(s.own, Null)
    <2>2. r.own = o /\ r.mem = s.mem /\ r.errno = s.errno /\ r.d = s.d /\ r.bad = s.bad /\ Shape(r)
      BY <1>1, <2>1 DEF Shape
    <2>3. /\ o \in Seq(T \cup {Null}) /\ Len(o) = i /\ Len(s.own) = i - 1
          /\ (\A j \in 1..(i - 1) : o[j] = s.own[j]) /\ o[i] = Null
      BY <1>1, <1>2, <1>7, OneMore
    <2> HIDE DEF o
    <2>4. \A j \in 1..Len(r.own) : Delivered(e, rec, r.mem, j, r.own[j])
      <3> SUFFICES ASSUME NEW j \in 1..i PROVE Delivered(e, rec, s.mem, j, o[j])
        BY <2>2, <2>3
      <3>1. CASE j = i
        BY <1>7, <2>3, <3>1 DEF Delivered
      <3>2. CASE j # i
        <4>1. j \in 1..(i - 1)
          BY <3>2
        <4> QED BY <1>1, <2>3, <4>1
      <3> QED BY <3>1, <3>2
    <2> QED BY <1>1, <1>5, <1>7, <2>2, <2>3, <2>4 DEF Rowed, w
  <1>8. CASE ~s.bad /\ ~rec.ind[i]
    <2>1. x = AppValue(rec, i)
      <3>1. x = Read(e.v, s.mem, (i - 1) * w)
        BY DEF _stmt_param_get, Record, w
      <3>2. AppValue(rec, i) = Read(e.v, rec.mem, (i - 1) * w)
        BY <1>8 DEF AppValue, w
      <3>3. PICK off \in Nat : off = (i - 1) * w
        BY <1>4
      <3>4. Read(e.v, s.mem, off) = Read(e.v, rec.mem, off)
        BY <1>1, <1>3, <3>3, ReadIsLocal
      <3> QED BY <3>1, <3>2, <3>3, <3>4
    <2>2. IsValue(e.v, x)
      <3>1. AppValue(rec, i) = Read(e.v, rec.mem, (i - 1) * w)
        BY <1>8 DEF AppValue, w
      <3> QED BY <1>3, <1>4, <2>1, <3>1, ReadIsValue
    <2>3. Right(e, x, csize, stride, d, c, s.errno)
      <3> HIDE DEF x, stride
      <3> QED BY <1>1, <2>2, RowRight
    <2>4. r = (IF ~d.ok THEN [s EXCEPT !.bad = TRUE]
               ELSE IF ~c.ok THEN [s EXCEPT !.bad = TRUE, !.errno = c.errno, !.d = d]
               ELSE [s EXCEPT !.own = Append(@, c.x), !.errno = c.errno, !.d = d,
                              !.mem = IF e.conv = "double" THEN Overwrite(@, (i - 1) * Len(bs), bs) ELSE @])
      BY <1>8 DEF Further, _stmt_param_check_and_conv
    <2> HIDE DEF r, bs, d, c, x
    <2>5. CASE ~(d.ok /\ c.ok)
      <3>1. r.own = s.own /\ r.mem = s.mem /\ r.bad = TRUE /\ r.d.ok /\ Shape(r)
        <4>1. CASE ~d.ok
          BY <1>1, <2>4, <4>1 DEF Shape
        <4>2. CASE d.ok /\ ~c.ok
          BY <1>1, <2>4, <4>2 DEF Shape
        <4> QED BY <2>5, <4>1, <4>2
      <3>2. Len(s.own) = i - 1 /\ Len(s.own) < i /\ Len(s.own) + 1 = i
        BY <1>1, <1>8
      <3>3. errno0 = "0" => Justified(e, AppValue(rec, i), csize, stride)
        BY <1>1, <1>8, <2>1, <2>3, <2>5 DEF Right
      <3> QED BY <1>1, <1>2, <1>5, <1>8, <3>1, <3>2, <3>3 DEF Rowed, w
    <2>6. CASE d.ok /\ c.ok
      <3> DEFINE o == Append(s.own, c.x)
                 m == IF e.conv = "double" THEN Overwrite(s.mem, (i - 1) * Len(bs), bs) ELSE s.mem
      <3>1. r.own = o /\ r.mem = m /\ r.bad = FALSE /\ r.d = d /\ r.errno = c.errno /\ Shape(r)
        BY <1>1, <1>8, <2>4, <2>6 DEF Shape
      <3>2. /\ o \in Seq(T \cup {c.x}) /\ Len(o) = i /\ Len(s.own) = i - 1
            /\ (\A j \in 1..(i - 1) : o[j] = s.own[j]) /\ o[i] = c.x
        BY <1>1, <1>2, <1>8, OneMore
      <3>3. Faithful(e, AppValue(rec, i), c.x)
        BY <2>1, <2>3, <2>6 DEF Right
      <3>4. errno0 = "0" => c.errno = "0"
        BY <1>1, <1>8, <2>3, <2>6 DEF Right
      <3> HIDE DEF o
      <3>5. CASE e.conv # "double"
        <4>1. r.mem = s.mem
          BY <3>1, <3>5
        <4>2. \A j \in 1..Len(r.own) : Delivered(e, rec, r.mem, j, r.own[j])
          <5> SUFFICES ASSUME NEW j \in 1..i PROVE Delivered(e, rec, s.mem, j, o[j])
            BY <3>1, <3>2, <4>1
          <5>1. CASE j = i
            BY <1>8, <3>2, <3>3, <3>5, <5>1 DEF Delivered
          <5>2. CASE j # i
            <6>1. j \in 1..(i - 1)
              BY <5>2
            <6> QED BY <1>1, <3>2, <6>1
          <5> QED BY <5>1, <5>2
        <4>3. \A k \in 1..Len(rec.mem) : k > i * w => r.mem[k] = rec.mem[k]
          BY <1>5, <4>1
        <4>4. r.mem \in Seq(Cells) /\ Len(r.mem) = Len(rec.mem)
          BY <1>1, <4>1
        <4>5. (\E U : r.own \in Seq(U)) /\ Len(r.own) = i /\ r.d.ok /\ r.bad = FALSE
          BY <2>6, <3>1, <3>2
        <4> QED BY <3>1, <3>4, <4>2, <4>3, <4>4, <4>5 DEF Rowed, w
      <3>6. CASE e.conv = "double"
        <4> DEFINE v == Encoded(e.t)
        <4>1. e.v = "DOUBLE" /\ w = 8 /\ v \in {"SBIGINT", "SLONG", "FLOAT"}
          <5>1. e.v = "DOUBLE" /\ e.t \in {"TIMESTAMP", "FLOAT", "INT"}
            BY <3>6 DEF Kinds
          <5> QED BY <5>1, Widths, Domains DEF w
        <4>2. c.x = Garbage \/ IsValue(v, c.x)
          BY <3>3, <3>6 DEF Faithful
        <4>3. (i - 1) * 8 + 8 <= Len(s.mem)
          <5>1. AppValue(rec, i) = Read("DOUBLE", rec.mem, (i - 1) * 8)
            BY <1>8, <4>1 DEF AppValue, w
          <5>2. ~((i - 1) * 8 + 8 > Len(rec.mem))
            BY <5>1, Widths DEF Read
          <5> QED BY <1>1, <1>3, <5>2
        <4>4. m = Overwrite(s.mem, (i - 1) * Len(Bytes(v, c.x)), Bytes(v, c.x))
          BY <3>6 DEF bs
        <4> HIDE DEF m, v
        <4>5. /\ m \in Seq(Cells) /\ Len(m) = Len(s.mem)
              /\ \A k \in 1..Len(s.mem) : k > i * 8 => m[k] = s.mem[k]
              /\ c.x # Garbage => Read(v, m, (i - 1) * Width[v]) = c.x
              /\ \A j \in 1..(i - 1) : Read(v, m, (j - 1) * Width[v]) = Read(v, s.mem, (j - 1) * Width[v])
          <5>1. PICK mem \in Seq(Cells) : mem = s.mem
            BY <1>1
          <5>2. HasDouble(mem, i)
            BY <4>3, <5>1 DEF HasDouble
          <5>3. Wrote(v, c.x, mem, i, m)
            BY <4>4, <5>1 DEF Wrote
          <5>4. Stands(v, c.x, mem, i, m)
            BY <4>1, <4>2, <5>1, <5>2, <5>3, WrittenInPlace
          <5> QED BY <5>1, <5>4 DEF Stands
        <4>6. \A k \in 1..Len(rec.mem) : k > i * w => r.mem[k] = rec.mem[k]
          BY <1>1, <1>5, <3>1, <4>1, <4>5
        <4>7. \A j \in 1..Len(r.own) : Delivered(e, rec, r.mem, j, r.own[j])
          <5> SUFFICES ASSUME NEW j \in 1..i PROVE Delivered(e, rec, m, j, o[j])
            BY <3>1, <3>2
          <5>1. CASE j = i
            BY <1>8, <3>2, <3>3, <4>5, <5>1 DEF Delivered, v
          <5>2. CASE j # i
            <6>1. j \in 1..(i - 1)
              BY <5>2
            <6>2. Delivered(e, rec, s.mem, j, s.own[j])
              BY <1>1, <3>2, <6>1
            <6>3. Read(v, m, (j - 1) * Width[v]) = Read(v, s.mem, (j - 1) * Width[v])
              BY <4>5, <6>1
            <6> QED BY <3>2, <6>1, <6>2, <6>3 DEF Delivered, v
          <5> QED BY <5>1, <5>2
        <4>8. r.mem \in Seq(Cells) /\ Len(r.mem) = Len(rec.mem)
          BY <1>1, <3>1, <4>5
        <4>9. (\E U : r.own \in Seq(U)) /\ Len(r.own) = i /\ r.d.ok /\ r.bad = FALSE
          BY <2>6, <3>1, <3>2
        <4> QED BY <3>1, <3>4, <4>6, <4>7, <4>8, <4>9 DEF Rowed, w
      <3> QED BY <3>5, <3>6
    <2> QED BY <2>5, <2>6
  <1> QED BY <1>1, <1>6, <1>7, <1>8

\* All the rows.
LEMMA RowsRight ==
  ASSUME NEW e, Kinds(e), NEW rec, Record(rec), rec.v = e.v, rec.mem \in Seq(Cells), NEW csize, NEW field, NEW errno0,
         NEW rows \in Nat, \A i \in 1..rows : rec.ind[i] \in BOOLEAN /\ AppValue(rec, i) # Garbage
  PROVE  Rowed(e, rec, csize, Stride(field), errno0, rows,
               _stmt_prepare_col_data(<<e.v, e.p>>, rec, csize, e, field, rows, errno0))
  <1>1. PICK both : both = <<e.v, e.p>>
    OBVIOUS
  <1>2. PICK f : Chained(f, both, rec, csize, e, field, rows, errno0)
    BY RowByRow
  <1>3. /\ f[0] = Start(rec, errno0)
        /\ \A k \in 1..rows : f[k] = Further(both, rec, csize, e, field, f[k - 1], k)
        /\ _stmt_prepare_col_data(both, rec, csize, e, field, rows, errno0) = f[rows]
    BY <1>2 DEF Chained
  <1> DEFINE R(i, s) == Rowed(e, rec, csize, Stride(field), errno0, i, s)
             S == {n \in Nat : n <= rows => R(n, f[n])}
  <1>4. 0 \in S
    <2> DEFINE s == Start(rec, errno0)
    <2>1. /\ s.mem = rec.mem /\ s.own = <<>> /\ s.errno = errno0 /\ s.d.ok /\ s.bad = FALSE /\ Shape(s)
      BY DEF Start, Shape, Set
    <2> HIDE DEF s
    <2>2. <<>> \in Seq({}) /\ Len(<<>>) = 0 /\ 1..0 = {}
      OBVIOUS
    <2>3. R(0, s)
      BY <2>1, <2>2 DEF Rowed
    <2> QED BY <1>3, <2>3 DEF s
  <1>5. ASSUME NEW n \in S PROVE n + 1 \in S
    <2> SUFFICES ASSUME n + 1 <= rows PROVE R(n + 1, f[n + 1])
      OBVIOUS
    <2>1. n \in Nat /\ n <= rows /\ n + 1 \in 1..rows /\ n + 1 \in Nat \ {0} /\ (n + 1) - 1 = n
      OBVIOUS
    <2>2. f[n + 1] = Further(<<e.v, e.p>>, rec, csize, e, field, f[n], n + 1)
      BY <1>1, <1>3, <2>1
    <2>3. R((n + 1) - 1, f[n])
      BY <2>1
    <2> HIDE DEF S
    <2>4. rec.ind[n + 1] \in BOOLEAN /\ AppValue(rec, n + 1) # Garbage
      BY <2>1
    <2>5. PICK i \in Nat \ {0} : i = n + 1
      BY <2>1
    <2>6. R(i, Further(<<e.v, e.p>>, rec, csize, e, field, f[n], i))
      BY <2>3, <2>4, <2>5, FurtherRow
    <2> QED BY <2>2, <2>5, <2>6
  <1>6. rows \in S
    <2>1. S \subseteq Nat
      OBVIOUS
    <2> HIDE DEF S
    <2> QED BY <1>4, <1>5, <2>1, Induct
  <1> QED BY <1>1, <1>3, <1>6

\* A value the server reads where the application has put it.
LEMMA DummyMeans ==
  ASSUME NEW e, Kinds(e), e.conv = "dummy", ~MisStrided(e.v, e.t), NEW mem, NEW off
  PROVE  /\ Width[Encoded(e.t)] = Width[e.v] /\ Read(Encoded(e.t), mem, off) = Read(e.v, mem, off)
         /\ \A x : IsValue(e.v, x) => Taken(e.t, x) = x /\ x \in Means(e.p, e.t, x)
  <1>1. \/ <<e.v, e.p, e.t>> \in {<<"SBIGINT", "TIMESTAMP", "TIMESTAMP">>, <<"SBIGINT", "TIMESTAMP", "BIGINT">>,
                                  <<"SBIGINT", "BIGINT", "TIMESTAMP">>, <<"SBIGINT", "BIGINT", "BIGINT">>,
                                  <<"SBIGINT", "VARCHAR", "BIGINT">>}
        \/ <<e.v, e.p, e.t>> \in {<<"DOUBLE", "DOUBLE", "DOUBLE">>, <<"DOUBLE", "VARCHAR", "DOUBLE">>}
        \/ <<e.v, e.p, e.t>> = <<"FLOAT", "REAL", "FLOAT">>
        \/ <<e.v, e.p, e.t>> \in {<<"SLONG", "INTEGER", "INT">>, <<"SLONG", "VARCHAR", "INT">>,
                                  <<"LONG", "INTEGER", "INT">>}
        \/ <<e.v, e.p, e.t>> = <<"SHORT", "SMALLINT", "SMALLINT">>
        \/ <<e.v, e.p, e.t>> = <<"STINYINT", "TINYINT", "TINYINT">>
    BY DEF Kinds, MisStrided
  <1>2. \/ Encoded(e.t) = e.v \/ (e.v = "LONG" /\ Encoded(e.t) = "SLONG")
    BY <1>1, Domains
  <1>3. Width[Encoded(e.t)] = Width[e.v] /\ Read(Encoded(e.t), mem, off) = Read(e.v, mem, off)
    <2>1. CASE Encoded(e.t) = e.v
      BY <2>1
    <2>2. CASE e.v = "LONG" /\ Encoded(e.t) = "SLONG"
      <3>1. Width["LONG"] = Width["SLONG"]
        BY Widths
      <3>2. \A bs : Decoded("LONG", bs) = Decoded("SLONG", bs)
        BY DEF Decoded, Integral, Texts
      <3> QED BY <2>2, <3>1, <3>2, Zenon DEF Read
    <2> QED BY <1>2, <2>1, <2>2
  <1>4. ASSUME NEW x, IsValue(e.v, x) PROVE Taken(e.t, x) = x /\ x \in Means(e.p, e.t, x)
    <2>1. Taken(e.t, x) = x
      BY <1>1 DEF Taken
    <2>2. CASE e.v \in Integral
      <3>1. e.v \in CTypes /\ x \in {"i"} \X Signed(Width[e.v])
        BY <1>4, <2>2, ValueParts DEF CTypes
      <3>2. x = <<"i", x[2]>> /\ x[2] \in Signed(Width[e.v]) /\ x # Null /\ x[1] = "i"
        BY <3>1 DEF Null
      <3>3. /\ e.p \in {"TIMESTAMP", "BIGINT", "VARCHAR"}
               \/ <<e.p, Width[e.v]>> \in {<<"INTEGER", 4>>, <<"SMALLINT", 2>>, <<"TINYINT", 1>>}
            /\ Domain(e.t) = Signed(Width[e.v])
        <4>1. Width[e.v] = CASE e.v = "SBIGINT" -> 8 [] e.v \in {"SLONG", "LONG"} -> 4 [] e.v = "SHORT" -> 2
                             [] e.v = "STINYINT" -> 1
          BY <2>2, Widths DEF Integral
        <4> QED BY <1>1, <2>2, <4>1, Domains DEF Integral
      <3>4. Declared(e.p, x[2]) /\ x[2] \in Domain(e.t)
        BY <3>2, <3>3 DEF Declared
      <3>5. NumberMeans(e.t, x[2]) = Within(e.t, x[2])
        BY <1>1, <2>2 DEF NumberMeans, Integral
      <3>6. Means(e.p, e.t, x) = {x}
        BY <3>2, <3>4, <3>5 DEF Means, Within
      <3> QED BY <2>1, <3>6
    <2>3. CASE e.v = "DOUBLE"
      <3>1. x = <<"d", x[2]>> /\ x # Null /\ x[1] = "d" /\ e.t = "DOUBLE"
        BY <1>1, <1>4, <2>3, ValueParts DEF CTypes
      <3>2. Means(e.p, e.t, x) = {x}
        BY <3>1 DEF Means, RealMeans
      <3> QED BY <2>1, <3>2
    <2>4. CASE e.v = "FLOAT"
      <3>1. x = <<"f", x[2]>> /\ x # Null /\ x[1] = "f" /\ e.t = "FLOAT" /\ x[2] \in -FltMax..FltMax
        BY <1>1, <1>4, <2>4, ValueParts DEF CTypes
      <3>2. Means(e.p, e.t, x) = {x}
        BY <3>1 DEF Means, RealMeans
      <3> QED BY <2>1, <3>2
    <2> QED BY <1>1, <2>2, <2>3, <2>4 DEF Integral
  <1> QED BY <1>3, <1>4

\* What the server reads at a row that has been delivered.
LEMMA ReadAsMeant ==
  ASSUME NEW e, Kinds(e), NEW rec, rec.v = e.v, rec.mem \in Seq(Cells), NEW done, NEW j \in Nat \ {0},
         rec.ind[j] \in BOOLEAN, AppValue(rec, j) # Garbage,
         e.conv # "double" => done.mem = rec.mem, Delivered(e, rec, done.mem, j, done.own[j])
  PROVE  LET x == AppValue(rec, j)
         IN  \/ MisStrided(e.v, e.t) \/ NegativeText(x, e.t) \/ UndefinedCast(x, e.t)
             \/ ServerReads(e, done, j) \in Means(e.p, e.t, x)
  <1> DEFINE x == AppValue(rec, j)
             y == done.own[j]
             v == Encoded(e.t)
  <1>1. ServerReads(e, done, j) =
          Taken(e.t, IF e.buffer = "own" \/ y = Null THEN y ELSE Read(v, done.mem, (j - 1) * Width[v]))
    BY DEF ServerReads, Taken
  <1>2. CASE rec.ind[j]
    <2>1. y = Null /\ x = Null
      BY <1>2 DEF Delivered, AppValue
    <2>2. Taken(e.t, Null) = Null /\ Means(e.p, e.t, Null) = {Null}
      BY DEF Taken, Null, Means
    <2> QED BY <1>1, <2>1, <2>2
  <1>3. CASE ~rec.ind[j]
    <2>1. Faithful(e, x, y) /\ (e.conv = "double" /\ y # Garbage => Read(v, done.mem, (j - 1) * Width[v]) = y)
      BY <1>3 DEF Delivered
    <2> HIDE DEF x, y, v
    <2>2. CASE e.buffer = "own"
      <3>1. e.conv # "dummy"
        BY <2>2 DEF Kinds
      <3> QED BY <1>1, <2>1, <2>2, <3>1 DEF Faithful, x
    <2>3. CASE e.conv = "double"
      <3>1. v \in CTypes
        <4>1. e.t \in {"TIMESTAMP", "FLOAT", "INT"}
          BY <2>3 DEF Kinds
        <4> QED BY <4>1, Domains DEF v, CTypes, Integral
      <3>2. y = Garbage => UndefinedCast(x, e.t)
        <4>1. (y = Garbage /\ UndefinedCast(x, e.t)) \/ IsValue(v, y)
          BY <2>1, <2>3 DEF Faithful, v
        <4> QED BY <3>1, <4>1, ValueParts
      <3>3. CASE y # Garbage
        BY <1>1, <2>1, <2>3, <3>3 DEF Faithful, x
      <3> QED BY <3>2, <3>3 DEF x
    <2>4. CASE e.conv = "dummy" /\ ~MisStrided(e.v, e.t)
      <3>1. y # Null
        BY <2>1, <2>4 DEF Faithful, Garbage, Null
      <3>2. x = Read(e.v, rec.mem, (j - 1) * Width[e.v])
        BY <1>3 DEF AppValue, x
      <3>3. Width[v] = Width[e.v] /\ Read(v, done.mem, (j - 1) * Width[e.v]) = x
        BY <2>4, <3>2, DummyMeans DEF v
      <3>4. e.v \in CTypes /\ (j - 1) * Width[e.v] \in Nat
        <4>1. e.v \in CTypes
          BY DEF Kinds, CTypes, Texts, Integral
        <4>2. Width[e.v] \in Nat
          BY <4>1, Widths
        <4>3. \A m, n : m \in Nat /\ n \in Nat => m * n \in Nat
          OBVIOUS
        <4> QED BY <4>1, <4>2, <4>3
      <3>5. IsValue(e.v, x)
        BY <3>2, <3>4, ReadIsValue DEF x
      <3>6. Taken(e.t, x) = x /\ x \in Means(e.p, e.t, x)
        BY <2>4, <3>5, DummyMeans
      <3>7. e.buffer # "own"
        BY <2>4 DEF Kinds
      <3> QED BY <1>1, <3>1, <3>3, <3>6, <3>7 DEF x
    <2>5. e.buffer = "own" \/ e.conv \in {"double", "dummy"}
      BY DEF Kinds
    <2> QED BY <2>2, <2>3, <2>4, <2>5
  <1> QED BY <1>2, <1>3

-----------------------------------------------------------------------------
(* The array of the application, and SQLExecute.                           *)

\* The array that is bound is of the type it is bound as.
ArrayOK ==
  trusted => apd[cur].v \in CTypes /\ apd[cur].mem \in Seq(Cells) /\ apd[cur].ind \in [Rows -> BOOLEAN]

LEMMA PointingArray ==
  ASSUME NEW v \in CTypes, NEW buf, NEW xs \in [Rows -> Values[v]]
  PROVE  Pointing(v, buf, xs).mem \in Seq(Cells) /\ Pointing(v, buf, xs).ind \in [Rows -> BOOLEAN]
  <1>1. MaxRows \in Nat /\ Rows = 1..MaxRows
    BY ParamsAssumption DEF Rows
  <1>2. \A i \in 1..MaxRows : xs[i] = Null \/ IsValue(v, xs[i])
    BY <1>1, ParamsAssumption
  <1>3. DOMAIN xs = 1..MaxRows /\ xs = [i \in 1..MaxRows |-> xs[i]]
    BY <1>1
  <1>4. Array(v, xs) \in Seq(Cells)
    BY <1>1, <1>2, <1>3, ArrayWritten
  <1> QED BY <1>4 DEF Pointing

LEMMA DefaultArray ==
  ASSUME NEW v \in CTypes
  PROVE  Default(v) \in [Rows -> Values[v]]
  <1>1. \E x \in SharedValues[v] : x # Null
    BY ParamsAssumption
  <1>2. (CHOOSE x \in SharedValues[v] : x # Null) \in Values[v]
    BY <1>1, ParamsAssumption
  <1> QED BY <1>2 DEF Default

\* The entry of the table that SQLExecute takes, and what its rows leave.
Entry(stmt, rows) == CHOOSE e \in Lookup(apd[cur].v, ipd.p, Fields(stmt, rows).t) : TRUE
Done(stmt, rows) ==
  _stmt_prepare_col_data(meta, apd[cur], ipd.csize, Entry(stmt, rows), Fields(stmt, rows), rows, errno)

LEMMA Executing ==
  ASSUME IInv, NEW stmt \in Statements, NEW rows \in Rows, SQLExecute(stmt, rows)
  PROVE  LET e == Entry(stmt, rows)
             done == Done(stmt, rows)
         IN  /\ Kinds(e) /\ e.v = apd[cur].v /\ e.p = ipd.p /\ e.t = Fields(stmt, rows).t
             /\ apd' = [apd EXCEPT ![cur].mem = done.mem]
             /\ sent' = [i \in 1..Len(done.own) |-> ServerReads(e, done, i)]
             /\ call'.t = e.t /\ call'.rows = rows /\ call'.stmt = stmt
             /\ UNCHANGED <<cur, ipd, meta, trusted>>
             /\ \A i \in Rows : AppValue(apd[cur], i) # Garbage
  <1> DEFINE e == Entry(stmt, rows)
             done == Done(stmt, rows)
  <1>1. Lookup(apd[cur].v, ipd.p, Fields(stmt, rows).t) # {}
    BY DEF SQLExecute, Refuses
  <1>2. e \in Lookup(apd[cur].v, ipd.p, Fields(stmt, rows).t)
    BY <1>1 DEF Entry
  <1>3. Kinds(e) /\ e.v = apd[cur].v /\ e.p = ipd.p /\ e.t = Fields(stmt, rows).t
    BY <1>2, EntryKinds DEF Lookup
  <1>4. /\ apd' = [apd EXCEPT ![cur].mem = done.mem]
        /\ sent' = [i \in 1..Len(done.own) |-> ServerReads(e, done, i)]
        /\ call' = [stmt |-> stmt, rows |-> rows, t |-> Fields(stmt, rows).t,
                    ret |-> IF Len(done.own) = 0 THEN "error" ELSE "ok"]
        /\ UNCHANGED <<cur, ipd, meta, trusted>> /\ Intact
    BY DEF SQLExecute, Entry, Done
  <1> HIDE DEF e, done
  <1>5. call'.t = e.t /\ call'.rows = rows /\ call'.stmt = stmt
    BY <1>3, <1>4
  <1> QED BY <1>3, <1>4, <1>5 DEF e, done, Intact

\* The rows of a parameter that is bound rightly.
LEMMA RowsExecuted ==
  ASSUME IInv, ArrayOK, trusted, NEW stmt \in Statements, NEW rows \in Rows, SQLExecute(stmt, rows)
  PROVE  LET e == Entry(stmt, rows)
         IN  /\ Rowed(e, apd[cur], ipd.csize, Stride(Fields(stmt, rows)), errno, rows, Done(stmt, rows))
             /\ e.conv # "double" => Done(stmt, rows).mem = apd[cur].mem
  <1> DEFINE e == Entry(stmt, rows)
  <1>1. Kinds(e) /\ e.v = apd[cur].v /\ e.p = ipd.p /\ \A i \in Rows : AppValue(apd[cur], i) # Garbage
    BY Executing
  <1>2. meta = <<e.v, e.p>>
    BY <1>1 DEF IInv, BindingAgrees
  <1>3. Record(apd[cur]) /\ apd[cur].mem \in Seq(Cells) /\ apd[cur].ind \in [Rows -> BOOLEAN]
    BY TypeParts DEF IInv, ArrayOK
  <1>4. rows \in Nat /\ 1..rows \subseteq Rows
    BY ParamsAssumption DEF Rows
  <1>5. PICK rec, field, csize : rec = apd[cur] /\ field = Fields(stmt, rows) /\ csize = ipd.csize
    OBVIOUS
  <1> HIDE DEF e
  <1>6. Rowed(e, rec, csize, Stride(field), errno, rows,
              _stmt_prepare_col_data(<<e.v, e.p>>, rec, csize, e, field, rows, errno))
    <2>1. \A i \in 1..rows : rec.ind[i] \in BOOLEAN /\ AppValue(rec, i) # Garbage
      BY <1>1, <1>3, <1>4, <1>5
    <2>2. Kinds(e) /\ Record(rec) /\ rec.v = e.v /\ rec.mem \in Seq(Cells)
      BY <1>1, <1>3, <1>5
    <2> QED BY <1>4, <2>1, <2>2, RowsRight
  <1>7. Done(stmt, rows) = _stmt_prepare_col_data(<<e.v, e.p>>, rec, csize, e, field, rows, errno)
    BY <1>2, <1>5 DEF Done, e
  <1>8. e.conv # "double" => Done(stmt, rows).mem = rec.mem
    <2>1. PICK both : both = <<e.v, e.p>>
      OBVIOUS
    <2>2. e.conv # "double" => _stmt_prepare_col_data(both, rec, csize, e, field, rows, errno).mem = rec.mem
      BY <1>4, ArrayKept
    <2> QED BY <1>7, <2>1, <2>2
  <1> QED BY <1>5, <1>6, <1>7, <1>8 DEF e

THEOREM ArraySound == Spec => []ArrayOK
  <1>1. Init => ArrayOK
    BY DEF Init, ArrayOK
  <1>2. IInv /\ ArrayOK /\ [Next]_vars => ArrayOK'
    <2> SUFFICES ASSUME IInv, ArrayOK, [Next]_vars PROVE ArrayOK'
      OBVIOUS
    <2>1. DOMAIN apd = Descs /\ cur \in Descs /\ \A d \in Descs : Record(apd[d])
      BY TypeParts DEF IInv
    <2>2. ASSUME apd'[cur] = apd[cur], cur' = cur, trusted' => trusted PROVE ArrayOK'
      BY <2>2 DEF ArrayOK
    <2>3. CASE Bind
      <3>1. PICK v, p, size, fails : SQLBindParameter(v, p, size, fails)
        BY <2>3 DEF Bind
      <3> SUFFICES ASSUME trusted' PROVE ArrayOK'
        BY DEF ArrayOK
      <3>2. v \in CTypes /\ apd' = [set_APD_record(v, size) EXCEPT ![cur].n = 1] /\ cur' = cur
        BY <3>1, Pairing DEF SQLBindParameter
      <3> DEFINE r == Pointing(v, size[1], Default(v))
      <3>3. r.mem \in Seq(Cells) /\ r.ind \in [Rows -> BOOLEAN] /\ r.v = v /\ DOMAIN r = {"n", "v", "buf", "mem", "ind"}
        <4>1. r.mem \in Seq(Cells) /\ r.ind \in [Rows -> BOOLEAN]
          BY <3>2, PointingArray, DefaultArray
        <4>2. r.v = v /\ DOMAIN r = {"n", "v", "buf", "mem", "ind"}
          BY DEF Pointing
        <4> QED BY <4>1, <4>2
      <3>4. apd'[cur] = [[r EXCEPT !.n = apd[cur].n] EXCEPT !.n = 1]
        BY <2>1, <3>2 DEF set_APD_record
      <3> HIDE DEF r
      <3>5. apd'[cur].mem = r.mem /\ apd'[cur].ind = r.ind /\ apd'[cur].v = r.v
        BY <3>3, <3>4
      <3> QED BY <3>2, <3>3, <3>5 DEF ArrayOK
    <2>4. CASE _stmt_reset_params \/ \E d \in Descs : SetAPD(d)
      <3>1. trusted' = FALSE
        BY <2>4 DEF _stmt_reset_params, SetAPD
      <3> QED BY <3>1 DEF ArrayOK
    <2>5. CASE OtherStmtResets \/ \E v \in CTypes : OtherStmtBinds(v)
      <3>1. cur' = cur /\ trusted' = (trusted /\ cur # "D")
        BY <2>5 DEF OtherStmtResets, OtherStmtBinds
      <3>2. cur # "D" => apd'[cur] = apd[cur]
        BY <2>1, <2>5 DEF OtherStmtResets, OtherStmtBinds
      <3> QED BY <3>1, <3>2 DEF ArrayOK
    <2>6. ASSUME trusted, NEW xs \in [Rows -> ValuesOf(apd[cur].v)], Refill(xs) PROVE ArrayOK'
      <3> DEFINE v == apd[cur].v
                 r == Pointing(v, apd[cur].buf, xs)
      <3>1. v \in CTypes
        BY <2>6 DEF ArrayOK
      <3>2. xs \in [Rows -> Values[v]]
        <4>1. ValuesOf(v) \subseteq Values[v]
          BY <3>1, ParamsAssumption DEF ValuesOf
        <4> QED BY <2>6, <4>1
      <3>3. r.mem \in Seq(Cells) /\ r.ind \in [Rows -> BOOLEAN] /\ r.v = v
        <4>1. r.mem \in Seq(Cells) /\ r.ind \in [Rows -> BOOLEAN]
          BY <3>1, <3>2, PointingArray
        <4>2. r.v = v
          BY DEF Pointing
        <4> QED BY <4>1, <4>2
      <3>4. apd'[cur] = r /\ cur' = cur
        BY <2>1, <2>6 DEF Refill
      <3> HIDE DEF r, v
      <3> QED BY <3>1, <3>3, <3>4 DEF ArrayOK
    <2>7. CASE ErrnoLeft \/ NextCall \/ UNCHANGED vars
      BY <2>2, <2>7 DEF ErrnoLeft, NextCall, vars
    <2>8. ASSUME NEW stmt \in Statements, NEW rows \in Rows, SQLExecuteRefused(stmt, rows)
          PROVE  ArrayOK'
      BY <2>2, <2>8 DEF SQLExecuteRefused
    <2>9. CASE Execute
      <3>1. PICK stmt \in Statements, rows \in Rows : SQLExecute(stmt, rows)
        BY <2>9 DEF Execute
      <3>2. apd' = [apd EXCEPT ![cur].mem = Done(stmt, rows).mem] /\ UNCHANGED <<cur, ipd, meta, trusted>>
        BY <3>1, Executing
      <3> SUFFICES ASSUME trusted PROVE ArrayOK'
        BY <3>2 DEF ArrayOK
      <3>3. Done(stmt, rows).mem \in Seq(Cells)
        BY <3>1, RowsExecuted DEF Rowed
      <3>4. apd'[cur] = [apd[cur] EXCEPT !.mem = Done(stmt, rows).mem]
        BY <2>1, <3>2
      <3>5. Record(apd[cur])
        BY <2>1
      <3>6. apd'[cur].v = apd[cur].v /\ apd'[cur].ind = apd[cur].ind /\ apd'[cur].mem = Done(stmt, rows).mem
        BY <3>4, <3>5 DEF Record
      <3> QED BY <3>2, <3>3, <3>6 DEF ArrayOK
    <2> QED BY <2>3, <2>4, <2>5, <2>6, <2>7, <2>8, <2>9 DEF Next
  <1> QED BY <1>1, <1>2, Invariance, PTL DEF Spec

\* Only SQLExecute executes.
LEMMA OnlyExecute ==
  ASSUME [Next]_vars, Executed
  PROVE  \E stmt \in Statements, rows \in Rows : SQLExecute(stmt, rows)
  <1>1. call = NoCall /\ call'.t # "none"
    BY DEF Executed
  <1>2. call' # call /\ call' # NoCall /\ call' # [NoCall EXCEPT !.ret = "error"]
    BY <1>1 DEF NoCall
  <1>3. ~Bind /\ ~_stmt_reset_params /\ ~(\E d \in Descs : SetAPD(d)) /\ ~(\E v \in CTypes : OtherStmtBinds(v))
    BY <1>2 DEF Bind, SQLBindParameter, _stmt_reset_params, SetAPD, OtherStmtBinds, results
  <1>4. ~OtherStmtResets /\ ~(\E xs \in [Rows -> ValuesOf(apd[cur].v)] : Refill(xs)) /\ ~ErrnoLeft /\ ~NextCall
        /\ ~UNCHANGED vars
    BY <1>2 DEF OtherStmtResets, Refill, ErrnoLeft, NextCall, results, vars
  <1>5. ~(\E stmt \in Statements, rows \in Rows : SQLExecuteRefused(stmt, rows))
    BY <1>2 DEF SQLExecuteRefused
  <1> QED BY <1>3, <1>4, <1>5 DEF Next, Execute

\* SQLExecute leaves the application's array as it is, except where the table
\* converts a double in its place (_stmt_param_conv_sql_double_to_tsdb_*).
THEOREM ArrayIsKept == Spec => InputKept
  <1>1. IInv /\ [Next]_vars =>
          (Executed => apd'[cur].mem = apd[cur].mem \/ InPlace(apd[cur].v, ipd.p, call'.t))
    <2> SUFFICES ASSUME IInv, [Next]_vars, Executed
                 PROVE  apd'[cur].mem = apd[cur].mem \/ InPlace(apd[cur].v, ipd.p, call'.t)
      OBVIOUS
    <2>1. PICK stmt \in Statements, rows \in Rows : SQLExecute(stmt, rows)
      BY OnlyExecute
    <2> DEFINE e == Entry(stmt, rows)
    <2>2. /\ Kinds(e) /\ e.v = apd[cur].v /\ e.p = ipd.p /\ call'.t = e.t
          /\ apd' = [apd EXCEPT ![cur].mem = Done(stmt, rows).mem]
      BY <2>1, Executing
    <2>3. rows \in Nat
      BY ParamsAssumption DEF Rows
    <2> HIDE DEF e
    <2>4. CASE e.conv = "double"
      <3>1. InPlace(e.v, e.p, e.t)
        BY <2>2, <2>4 DEF Kinds, InPlace
      <3> QED BY <2>2, <3>1
    <2>5. CASE e.conv # "double"
      <3>1. PICK rec, field, csize : rec = apd[cur] /\ field = Fields(stmt, rows) /\ csize = ipd.csize
        OBVIOUS
      <3>2. _stmt_prepare_col_data(meta, rec, csize, e, field, rows, errno).mem = rec.mem
        BY <2>3, <2>5, ArrayKept
      <3>3. Done(stmt, rows).mem = apd[cur].mem
        BY <3>1, <3>2 DEF Done, e
      <3>4. apd'[cur].mem = Done(stmt, rows).mem
        <4>1. DOMAIN apd = Descs /\ cur \in Descs /\ Record(apd[cur])
          BY TypeParts DEF IInv
        <4> QED BY <2>2, <4>1 DEF Record
      <3> QED BY <3>3, <3>4
    <2> QED BY <2>4, <2>5
  <1> QED BY <1>1, Invariance, PTL DEF Spec, InputKept

\* What is sent of a row means what the application's value means
\* (_stmt_prepare_col_data, through the table's checks and conversions).
THEOREM SentMeansBound == Spec => SentIsBound
  <1> DEFINE Sent(i) == LET x == AppValue(apd[cur], i)
                        IN  \/ MisStrided(apd[cur].v, call'.t) \/ NegativeText(x, call'.t) \/ UndefinedCast(x, call'.t)
                            \/ sent'[i] \in Means(ipd.p, call'.t, x)
  <1>1. IInv /\ ArrayOK /\ [Next]_vars => (trusted /\ Executed => \A i \in DOMAIN sent' : Sent(i))
    <2> SUFFICES ASSUME IInv, ArrayOK, [Next]_vars, trusted, Executed, NEW j \in DOMAIN sent'
                 PROVE  Sent(j)
      OBVIOUS
    <2>1. PICK stmt \in Statements, rows \in Rows : SQLExecute(stmt, rows)
      BY OnlyExecute
    <2> DEFINE e == Entry(stmt, rows)
               done == Done(stmt, rows)
    <2>3. /\ Kinds(e) /\ e.v = apd[cur].v /\ e.p = ipd.p /\ call'.t = e.t
          /\ sent' = [i \in 1..Len(done.own) |-> ServerReads(e, done, i)]
          /\ \A i \in Rows : AppValue(apd[cur], i) # Garbage
      BY <2>1, Executing
    <2> HIDE DEF e, done
    <2>4. /\ Rowed(e, apd[cur], ipd.csize, Stride(Fields(stmt, rows)), errno, rows, done)
          /\ e.conv # "double" => done.mem = apd[cur].mem
      BY <2>1, RowsExecuted DEF e, done
    <2>5. Len(done.own) \in Nat /\ Len(done.own) <= rows /\ rows \in Nat /\ 1..rows \subseteq Rows
      <3>1. rows \in Nat /\ 1..rows \subseteq Rows
        BY ParamsAssumption DEF Rows
      <3>2. PICK T : done.own \in Seq(T)
        BY <2>4 DEF Rowed
      <3>3. Len(done.own) \in Nat
        BY <3>2
      <3>4. IF done.bad THEN Len(done.own) < rows ELSE Len(done.own) = rows
        BY <2>4 DEF Rowed
      <3> QED BY <3>1, <3>3, <3>4
    <2>6. j \in 1..Len(done.own) /\ j \in Nat \ {0} /\ j \in Rows /\ sent'[j] = ServerReads(e, done, j)
      BY <2>3, <2>5
    <2>7. Delivered(e, apd[cur], done.mem, j, done.own[j])
      BY <2>4, <2>6 DEF Rowed
    <2>8. apd[cur].mem \in Seq(Cells) /\ apd[cur].ind[j] \in BOOLEAN
      BY <2>6 DEF ArrayOK
    <2>9. PICK rec : rec = apd[cur]
      OBVIOUS
    <2>10. LET x == AppValue(rec, j)
           IN  \/ MisStrided(e.v, e.t) \/ NegativeText(x, e.t) \/ UndefinedCast(x, e.t)
               \/ ServerReads(e, done, j) \in Means(e.p, e.t, x)
      BY <2>3, <2>4, <2>6, <2>7, <2>8, <2>9, ReadAsMeant
    <2> QED BY <2>3, <2>6, <2>9, <2>10
  <1> QED BY <1>1, Invariance, ArraySound, PTL DEF Spec, SentIsBound

\* A row is refused only if its value does not fit, or is longer than declared
\* (_stmt_prepare_col_data's early return), as long as errno was clear.
THEOREM RefusedDoesNotFit == Spec => FitsIsAccepted
  <1> DEFINE Fits(i) == LET x == AppValue(apd[cur], i)
                        IN  \/ Means(ipd.p, call'.t, x) = {}
                            \/ OverStrict(x, call'.stmt, call'.t, call'.rows)
  <1>1. IInv /\ ArrayOK /\ [Next]_vars =>
          (trusted /\ errno = "0" /\ Executed /\ Len(sent') < call'.rows => Fits(Len(sent') + 1))
    <2> SUFFICES ASSUME IInv, ArrayOK, [Next]_vars, trusted, errno = "0", Executed, Len(sent') < call'.rows
                 PROVE  Fits(Len(sent') + 1)
      OBVIOUS
    <2>1. PICK stmt \in Statements, rows \in Rows : SQLExecute(stmt, rows)
      BY OnlyExecute
    <2> DEFINE e == Entry(stmt, rows)
               done == Done(stmt, rows)
               stride == Stride(Fields(stmt, rows))
    <2>3. /\ Kinds(e) /\ e.v = apd[cur].v /\ e.p = ipd.p /\ call'.t = e.t /\ call'.rows = rows /\ call'.stmt = stmt
          /\ sent' = [i \in 1..Len(done.own) |-> ServerReads(e, done, i)]
      BY <2>1, Executing
    <2> HIDE DEF e, done
    <2>4. Rowed(e, apd[cur], ipd.csize, stride, errno, rows, done)
      BY <2>1, RowsExecuted DEF e, done
    <2>5. Len(sent') = Len(done.own)
      <3>1. PICK T : done.own \in Seq(T)
        BY <2>4 DEF Rowed
      <3>2. Len(done.own) \in Nat
        BY <3>1
      <3> QED BY <2>3, <3>2
    <2>6. Justified(e, AppValue(apd[cur], Len(sent') + 1), ipd.csize, stride)
      BY <2>3, <2>4, <2>5 DEF Rowed
    <2> QED BY <2>3, <2>6 DEF Justified, OverStrict
  <1> QED BY <1>1, Invariance, ArraySound, PTL DEF Spec, FitsIsAccepted
=============================================================================
