------------------------------- MODULE Folding -------------------------------
(***************************************************************************)
(* Induction over numbers and sequences, with the induction hypothesis a   *)
(* set, and what FoldLeft computes for an operator Op: a module that folds *)
(* takes an instance of this one with its operator for Op.                 *)
(***************************************************************************)
EXTENDS Integers, SequencesExt, SequenceTheorems, WellFoundedInduction, TLAPS

CONSTANT Op(_, _)

Fold(base, s) == FoldLeft(Op, base, s)

-----------------------------------------------------------------------------

LEMMA LeastNumber ==
    ASSUME NEW S \in SUBSET Nat, S # {}
    PROVE  \E x \in S : \A y \in S : x <= y
<1>1. IsWellFoundedOn(OpToRel(<, Nat), Nat)
  BY NatLessThanWellFounded
<1>2. \E x \in S : \A y \in S : ~(<<y, x>> \in OpToRel(<, Nat))
  BY <1>1, WFMin, Zenon
<1>3. \E x \in S : \A y \in S : ~(y < x)
  BY <1>2, Zenon DEF OpToRel
<1> QED
  BY <1>3

LEMMA NumberInduction ==
    ASSUME NEW S, 0 \in S, \A n \in Nat : n \in S => n + 1 \in S
    PROVE  Nat \subseteq S
<1> SUFFICES ASSUME NEW k \in Nat, k \notin S
             PROVE  FALSE
  OBVIOUS
<1> DEFINE T == {n \in Nat : n \notin S}
<1>1. PICK n \in T : \A m \in T : n <= m
  BY LeastNumber
<1>2. n - 1 \in Nat /\ (n - 1) + 1 = n
  BY <1>1
<1>3. n - 1 \in S
  BY <1>1, <1>2
<1> QED
  BY <1>1, <1>2, <1>3

LEMMA SequenceInduction ==
    ASSUME NEW X, NEW S, <<>> \in S,
           \A s \in Seq(X), x \in X : s \in S => Append(s, x) \in S
    PROVE  Seq(X) \subseteq S
<1> DEFINE T == {n \in Nat : \A s \in Seq(X) : Len(s) = n => s \in S}
<1>1. 0 \in T
  <2>1. \A s \in Seq(X) : Len(s) = 0 => s = <<>>
    BY EmptySeq
  <2> QED
    BY <2>1
<1>2. ASSUME NEW n \in T
      PROVE  n + 1 \in T
  <2> SUFFICES ASSUME NEW s \in Seq(X), Len(s) = n + 1
               PROVE  s \in S
    OBVIOUS
  <2> DEFINE r == [i \in 1 .. n |-> s[i]]
  <2>1. n \in Nat /\ s[n + 1] \in X
    OBVIOUS
  <2>2. r \in Seq(X) /\ Len(r) = n
    OBVIOUS
  <2>3. s = Append(r, s[n + 1])
    BY <2>1, <2>2
  <2>4. r \in S
    BY <2>2
  <2> HIDE DEF r
  <2> QED
    BY <2>1, <2>2, <2>3, <2>4
<1>3. Nat \subseteq T
  BY <1>1, <1>2, NumberInduction
<1> QED
  BY <1>3

-----------------------------------------------------------------------------
(* FoldLeft is defined with the help of a function on sets of positions,   *)
(* of which only the first n positions, for each n, matter.                *)

Folds(g, base, s) ==
    g = [S \in SUBSET DOMAIN s |->
           IF S = {} THEN base ELSE Op(g[S \ {Max(S)}], s[Max(S)])]

LEMMA Largest ==
    ASSUME NEW n \in Nat, NEW S \in SUBSET (1 .. n), S # {}
    PROVE  Max(S) \in S /\ \A x \in S : x <= Max(S)
<1> DEFINE T == {k \in Nat : \A R \in SUBSET (1 .. k) :
                                R # {} => \E x \in R : \A y \in R : x >= y}
<1>1. 0 \in T
  <2>1. 1 .. 0 = {}
    OBVIOUS
  <2> QED
    BY <2>1
<1>2. ASSUME NEW k \in Nat, k \in T
      PROVE  k + 1 \in T
  <2> SUFFICES ASSUME NEW R \in SUBSET (1 .. k + 1), R # {}
               PROVE  \E x \in R : \A y \in R : x >= y
    OBVIOUS
  <2>1. CASE k + 1 \in R
    BY <2>1
  <2>2. CASE k + 1 \notin R
    <3>1. R \in SUBSET (1 .. k)
      BY <2>2
    <3> QED
      BY <1>2, <3>1
  <2> QED
    BY <2>1, <2>2
<1> HIDE DEF T
<1>3. n \in T
  BY <1>1, <1>2, NumberInduction
<1>4. \E x \in S : \A y \in S : x >= y
  BY <1>3 DEF T
<1>5. PICK x \in S : \A y \in S : x >= y
  BY <1>4
<1>6. Max(S) \in S /\ \A y \in S : Max(S) >= y
  BY <1>5 DEF Max
<1> QED
  BY <1>6

LEMMA FoldExists ==
    ASSUME NEW X, NEW base, NEW s \in Seq(X)
    PROVE  \E g : Folds(g, base, s)
<1> DEFINE step(g, S) == IF S = {} THEN base ELSE Op(g[S \ {Max(S)}], s[Max(S)])
           T == {n \in Nat : \E g : g = [S \in SUBSET (1 .. n) |-> step(g, S)]}
<1>1. 0 \in T
  <2>1. 1 .. 0 = {}
    OBVIOUS
  <2> DEFINE g == [S \in {{}} |-> base]
  <2>2. g = [S \in SUBSET {} |-> step(g, S)]
    <3>1. SUBSET {} = {{}}
      OBVIOUS
    <3> QED
      BY <3>1
  <2> HIDE DEF g, step
  <2> QED
    BY <2>1, <2>2
<1>2. ASSUME NEW n \in Nat, n \in T
      PROVE  n + 1 \in T
  <2>1. PICK g : g = [S \in SUBSET (1 .. n) |-> step(g, S)]
    BY <1>2
  <2> DEFINE h == [S \in SUBSET (1 .. n + 1) |-> step(g, S)]
  <2>2. \A S \in SUBSET (1 .. n) : h[S] = g[S]
    <3>1. \A S \in SUBSET (1 .. n) : g[S] = step(g, S)
      BY <2>1
    <3>2. \A S \in SUBSET (1 .. n) : S \in SUBSET (1 .. n + 1)
      OBVIOUS
    <3>3. \A S \in SUBSET (1 .. n) : h[S] = step(g, S)
      BY <3>2
    <3> QED
      BY <3>1, <3>3
  <2> HIDE DEF h
  <2>3. ASSUME NEW S \in SUBSET (1 .. n + 1), S # {}
        PROVE  step(g, S) = step(h, S)
    <3>1. Max(S) \in S /\ \A x \in S : x <= Max(S)
      BY <2>3, n + 1 \in Nat, Largest
    <3>2. ASSUME NEW x \in S \ {Max(S)}
          PROVE  x \in 1 .. n
      <4>1. x \in 1 .. n + 1 /\ Max(S) \in 1 .. n + 1 /\ x <= Max(S) /\ x # Max(S)
        BY <3>1
      <4> QED
        BY <4>1
    <3>3. h[S \ {Max(S)}] = g[S \ {Max(S)}]
      BY <2>2, <3>2
    <3> QED
      BY <3>3
  <2>4. step(g, {}) = step(h, {})
    OBVIOUS
  <2> HIDE DEF step
  <2>5. h = [S \in SUBSET (1 .. n + 1) |-> step(h, S)]
    BY <2>3, <2>4 DEF h
  <2> QED
    BY <2>5
<1> HIDE DEF T
<1>3. Len(s) \in T
  BY <1>1, <1>2, NumberInduction
<1>4. DOMAIN s = 1 .. Len(s)
  OBVIOUS
<1> QED
  BY <1>3, <1>4 DEF T, Folds

LEMMA FoldIs ==
    ASSUME NEW base, NEW s
    PROVE  Fold(base, s) = (CHOOSE g : Folds(g, base, s))[DOMAIN s]
BY DEF Fold, FoldLeft, MapThenFoldSet, Folds

LEMMA FoldStep ==
    ASSUME NEW X, NEW base, NEW s \in Seq(X), NEW g, Folds(g, base, s)
    PROVE  /\ g[1 .. 0] = base
           /\ \A n \in 1 .. Len(s) : g[1 .. n] = Op(g[1 .. n - 1], s[n])
<1>1. DOMAIN s = 1 .. Len(s) /\ Len(s) \in Nat
  OBVIOUS
<1>2. g[{}] = base
  BY DEF Folds
<1>3. ASSUME NEW n \in 1 .. Len(s)
      PROVE  g[1 .. n] = Op(g[1 .. n - 1], s[n])
  <2>1. Max(1 .. n) = n
    <3>1. 1 .. n \in SUBSET (1 .. n) /\ n \in 1 .. n /\ n \in Nat
      OBVIOUS
    <3>2. Max(1 .. n) \in 1 .. n /\ \A x \in 1 .. n : x <= Max(1 .. n)
      BY <3>1, Largest
    <3> QED
      BY <3>1, <3>2
  <2>2. (1 .. n) \ {n} = 1 .. n - 1
    OBVIOUS
  <2>3. 1 .. n \in SUBSET DOMAIN s /\ 1 .. n # {}
    BY <1>1
  <2>4. g[1 .. n] = Op(g[(1 .. n) \ {Max(1 .. n)}], s[Max(1 .. n)])
    BY <2>3 DEF Folds
  <2> QED
    BY <2>1, <2>2, <2>4
<1>4. 1 .. 0 = {}
  OBVIOUS
<1> QED
  BY <1>2, <1>3, <1>4

LEMMA FoldEmpty ==
    ASSUME NEW base
    PROVE  Fold(base, <<>>) = base
<1>1. <<>> \in Seq({}) /\ DOMAIN <<>> = 1 .. 0
  OBVIOUS
<1> DEFINE g == CHOOSE g : Folds(g, base, <<>>)
<1>2. Folds(g, base, <<>>)
  BY <1>1, FoldExists
<1>3. Fold(base, <<>>) = g[DOMAIN <<>>]
  BY FoldIs
<1> HIDE DEF g
<1> QED
  BY <1>1, <1>2, <1>3, FoldStep

LEMMA FoldAppend ==
    ASSUME NEW X, NEW base, NEW s \in Seq(X), NEW x \in X
    PROVE  Fold(base, Append(s, x)) = Op(Fold(base, s), x)
<1> DEFINE r == Append(s, x)
           N == Len(s)
           g == CHOOSE g : Folds(g, base, s)
           h == CHOOSE h : Folds(h, base, r)
<1>1. r \in Seq(X) /\ Len(r) = N + 1 /\ N \in Nat /\ r[N + 1] = x
  OBVIOUS
<1>2. \A i \in 1 .. N : r[i] = s[i]
  OBVIOUS
<1>3. Folds(g, base, s)
  BY FoldExists
<1>4. Folds(h, base, r)
  BY <1>1, FoldExists
<1>5. Fold(base, s) = g[1 .. N]
  BY FoldIs, DOMAIN s = 1 .. N
<1>6. Fold(base, r) = h[1 .. N + 1]
  BY <1>1, FoldIs, DOMAIN r = 1 .. N + 1
<1> HIDE DEF g, h, r
<1>7. /\ g[1 .. 0] = base
      /\ \A n \in 1 .. N : g[1 .. n] = Op(g[1 .. n - 1], s[n])
  BY <1>3, FoldStep
<1>8. /\ h[1 .. 0] = base
      /\ \A n \in 1 .. N + 1 : h[1 .. n] = Op(h[1 .. n - 1], r[n])
  BY <1>1, <1>4, FoldStep
<1> HIDE DEF N
<1> DEFINE T == {n \in Nat : n <= N => h[1 .. n] = g[1 .. n]}
<1>9. 0 \in T
  BY <1>7, <1>8
<1>10. ASSUME NEW n \in Nat, n \in T
       PROVE  n + 1 \in T
  <2> SUFFICES ASSUME n + 1 <= N
               PROVE  h[1 .. n + 1] = g[1 .. n + 1]
    OBVIOUS
  <2>1. n + 1 \in 1 .. N /\ n + 1 \in 1 .. N + 1 /\ (n + 1) - 1 = n /\ n <= N
    BY <1>1
  <2>2. h[1 .. n] = g[1 .. n]
    BY <1>10, <2>1
  <2>3. r[n + 1] = s[n + 1]
    BY <1>2, <2>1
  <2>4. g[1 .. n + 1] = Op(g[1 .. n], s[n + 1])
    BY <1>7, <2>1
  <2>5. h[1 .. n + 1] = Op(h[1 .. n], r[n + 1])
    BY <1>8, <2>1
  <2> QED
    BY <2>2, <2>3, <2>4, <2>5
<1> HIDE DEF T
<1>11. N \in T
  BY <1>1, <1>9, <1>10, NumberInduction
<1>12. h[1 .. N] = g[1 .. N]
  BY <1>1, <1>11 DEF T
<1>13. N + 1 \in 1 .. N + 1 /\ (N + 1) - 1 = N
  BY <1>1
<1>14. h[1 .. N + 1] = Op(h[1 .. N], r[N + 1])
  BY <1>8, <1>13
<1> QED
  BY <1>1, <1>5, <1>6, <1>12, <1>14 DEF r

(* What holds at the start and is kept by every step holds of the fold.    *)
LEMMA FoldKeeps ==
    ASSUME NEW X, NEW base, NEW V, base \in V,
           \A v \in V, x \in X : Op(v, x) \in V,
           NEW s \in Seq(X)
    PROVE  Fold(base, s) \in V
<1> DEFINE S == {r \in Seq(X) : Fold(base, r) \in V}
<1>1. <<>> \in S
  BY FoldEmpty
<1>2. ASSUME NEW r \in Seq(X), NEW x \in X, r \in S
      PROVE  Append(r, x) \in S
  <2>1. Fold(base, Append(r, x)) = Op(Fold(base, r), x)
    BY FoldAppend
  <2>2. Append(r, x) \in Seq(X)
    OBVIOUS
  <2> QED
    BY <1>2, <2>1, <2>2
<1> HIDE DEF S
<1>3. Seq(X) \subseteq S
  BY <1>1, <1>2, SequenceInduction
<1> QED
  BY <1>3 DEF S
=============================================================================
