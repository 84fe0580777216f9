-------------------------------- MODULE Sums --------------------------------
(***************************************************************************)
(* Lemmas about least numbers, finite sets and sums.  The community's       *)
(* SumFunctionOnSet adds up f over a set by choosing its elements in some   *)
(* order: there is one such fold, its result does not depend on the order,  *)
(* and it adds up.                                                          *)
(***************************************************************************)
EXTENDS Integers, FiniteSets, Functions, FiniteSetTheorems, WellFoundedInduction, TLAPS

\* A set of naturals that is not empty has a least element.
LEMMA LeastIn ==
    ASSUME NEW S \in SUBSET Nat, S # {}
    PROVE  \E m \in S : \A k \in S : m <= k
  <1>. DEFINE less == {p \in Nat \X Nat : p[1] < p[2]}
  <1>1. IsWellFoundedOn(less, Nat)
    BY NatLessThanWellFounded DEF OpToRel
  <1>. HIDE DEF less
  <1>2. PICK m \in S : \A k \in S : ~ (<<k, m>> \in less)
    BY <1>1, WFMin
  <1>3. \A k \in S : ~ (k < m)
    BY <1>2 DEF less
  <1>. QED  BY <1>3

AnyOf(s)      == CHOOSE x \in s : TRUE
Fold(f, g, s) == IF s = {} THEN 0 ELSE f[AnyOf(s)] + g[s \ {AnyOf(s)}]
Folds(f, S, g) == g = [s \in SUBSET S |-> Fold(f, g, s)]

\* What is left of a finite set without one of its elements.
LEMMA Without ==
    ASSUME NEW S, IsFiniteSet(S), NEW s \in SUBSET S, s # {}
    PROVE  /\ AnyOf(s) \in s /\ s \ {AnyOf(s)} \in SUBSET S
           /\ Cardinality(s) \in Nat \ {0}
           /\ Cardinality(s \ {AnyOf(s)}) = Cardinality(s) - 1
  <1>1. AnyOf(s) \in s
    BY DEF AnyOf
  <1>2. IsFiniteSet(s)
    BY FS_Subset
  <1>3. Cardinality(s \ {AnyOf(s)}) = Cardinality(s) - 1 /\ Cardinality(s) \in Nat
    BY <1>1, <1>2, FS_RemoveElement, FS_CardinalityType
  <1>4. Cardinality(s) # 0
    BY <1>2, FS_EmptySet
  <1>. QED  BY <1>1, <1>3, <1>4

\* Two folds of one function agree.
LEMMA FoldUnique ==
    ASSUME NEW S, IsFiniteSet(S), NEW f, NEW g, NEW h, Folds(f, S, g), Folds(f, S, h)
    PROVE  g = h
  <1>. DEFINE N == {n \in Nat : \E s \in SUBSET S : Cardinality(s) = n /\ g[s] # h[s]}
  <1>1. \A s \in SUBSET S : g[s] = Fold(f, g, s) /\ h[s] = Fold(f, h, s)
    BY DEF Folds
  <1>2. \A s \in SUBSET S : g[s] = h[s]
    <2>. SUFFICES ASSUME NEW s \in SUBSET S, g[s] # h[s] PROVE FALSE
      OBVIOUS
    <2>1. Cardinality(s) \in N
      BY FS_Subset, FS_CardinalityType
    <2>2. PICK n \in N : \A k \in N : n <= k
      <3>1. N \in SUBSET Nat /\ N # {}
        BY <2>1
      <3>. HIDE DEF N
      <3>. QED  BY <3>1, LeastIn
    <2>3. PICK r \in SUBSET S : Cardinality(r) = n /\ g[r] # h[r]
      BY <2>2
    <2>4. r # {}
      BY <1>1, <2>3 DEF Fold
    <2>5. PICK q : q = r \ {AnyOf(r)}
      OBVIOUS
    <2>6. q \in SUBSET S /\ Cardinality(q) = n - 1 /\ n \in Nat \ {0}
      BY <2>3, <2>4, <2>5, Without
    <2>7. g[q] # h[q]
      BY <1>1, <2>3, <2>4, <2>5 DEF Fold
    <2>8. n - 1 \in N
      BY <2>6, <2>7
    <2>. QED  BY <2>2, <2>6, <2>8
  <1>. QED  BY <1>2 DEF Folds

\* Every function has a fold.
LEMMA FoldExists ==
    ASSUME NEW S, IsFiniteSet(S), NEW f
    PROVE  \E g : Folds(f, S, g)
  <1>. DEFINE Upto(n, g) == /\ g = [s \in SUBSET S |-> g[s]]
                            /\ \A s \in SUBSET S : Cardinality(s) <= n => g[s] = Fold(f, g, s)
              N == {n \in Nat : ~ \E g : Upto(n, g)}
  <1>1. ASSUME NEW n \in N PROVE FALSE
    <2>1. PICK m \in N : \A k \in N : m <= k
      <3>1. N \in SUBSET Nat /\ N # {}
        BY <1>1
      <3>. HIDE DEF N
      <3>. QED  BY <3>1, LeastIn
    <2>2. m # 0
      <3>1. PICK g : g = [s \in SUBSET S |-> 0]
        OBVIOUS
      <3>2. \A s \in SUBSET S : Cardinality(s) <= 0 => s = {}
        <4>. SUFFICES ASSUME NEW s \in SUBSET S, s # {} PROVE ~ (Cardinality(s) <= 0)
          OBVIOUS
        <4>1. Cardinality(s) \in Nat \ {0}
          BY Without
        <4>. QED  BY <4>1
      <3>3. Upto(0, g)
        BY <3>1, <3>2 DEF Fold
      <3>. QED  BY <3>3
    <2>3. m - 1 \in Nat /\ m - 1 \notin N
      <3>1. m \in Nat
        OBVIOUS
      <3>2. m - 1 \in Nat /\ ~ (m <= m - 1)
        BY ONLY <2>2, <3>1
      <3>. HIDE DEF N
      <3>. QED  BY <2>1, <3>2
    <2>4. PICK g : Upto(m - 1, g)
      BY <2>3
    <2>5. PICK h : h = [s \in SUBSET S |-> Fold(f, g, s)]
      OBVIOUS
    <2>6. \A s \in SUBSET S : Cardinality(s) \in Nat
      BY FS_Subset, FS_CardinalityType
    <2>7. \A s \in SUBSET S : Cardinality(s) <= m - 1 => h[s] = g[s]
      BY <2>4, <2>5
    <2>8. ASSUME NEW s \in SUBSET S, Cardinality(s) <= m PROVE h[s] = Fold(f, h, s)
      <3>1. CASE s = {}
        BY <2>5, <3>1 DEF Fold
      <3>2. CASE s # {}
        <4>1. PICK q : q = s \ {AnyOf(s)}
          OBVIOUS
        <4>2. q \in SUBSET S /\ Cardinality(q) <= m - 1
          BY <2>1, <2>8, <3>2, <4>1, Without
        <4>3. h[q] = g[q]
          BY <2>7, <4>2
        <4>. QED  BY <2>5, <3>2, <4>1, <4>3 DEF Fold
      <3>. QED  BY <3>1, <3>2
    <2>9. Upto(m, h)
      BY <2>5, <2>8
    <2>. QED  BY <2>1, <2>9
  <1>2. Cardinality(S) \in Nat /\ \A s \in SUBSET S : Cardinality(s) <= Cardinality(S)
    BY FS_Subset, FS_CardinalityType
  <1>3. PICK g : Upto(Cardinality(S), g)
    BY <1>1, <1>2
  <1>4. Folds(f, S, g)
    BY <1>2, <1>3 DEF Folds
  <1>. QED  BY <1>4

LEMMA SumIs ==
    ASSUME NEW S, IsFiniteSet(S), NEW f, DOMAIN f = S, NEW g, Folds(f, S, g)
    PROVE  SumFunction(f) = g[S]
  <1>1. g = [s \in SUBSET S |-> IF s = {} THEN 0 ELSE LET x == CHOOSE x \in s : TRUE
                                                   IN  f[x] + g[s \ {x}]]
    BY DEF Folds, Fold, AnyOf
  <1>2. ASSUME NEW h,
               h = [s \in SUBSET S |-> IF s = {} THEN 0 ELSE LET x == CHOOSE x \in s : TRUE
                                                       IN  f[x] + h[s \ {x}]]
        PROVE  h = g
    <2>1. Folds(f, S, h)
      BY <1>2 DEF Folds, Fold, AnyOf
    <2>. QED  BY <2>1, FoldUnique
  <1>. QED  BY <1>1, <1>2 DEF SumFunction, SumFunctionOnSet, FoldFunctionOnSet, MapThenFoldSet

\* A fold of naturals is one.
LEMMA FoldNat ==
    ASSUME NEW S, IsFiniteSet(S), NEW f \in [S -> Nat], NEW g, Folds(f, S, g)
    PROVE  \A s \in SUBSET S : g[s] \in Nat
  <1>. DEFINE N == {n \in Nat : \E s \in SUBSET S : Cardinality(s) = n /\ g[s] \notin Nat}
  <1>1. \A s \in SUBSET S : g[s] = Fold(f, g, s)
    BY DEF Folds
  <1>. SUFFICES ASSUME NEW s \in SUBSET S, g[s] \notin Nat PROVE FALSE
    OBVIOUS
  <1>2. Cardinality(s) \in N
    BY FS_Subset, FS_CardinalityType
  <1>3. PICK n \in N : \A k \in N : n <= k
    <2>1. N \in SUBSET Nat /\ N # {}
      BY <1>2
    <2>. HIDE DEF N
    <2>. QED  BY <2>1, LeastIn
  <1>4. PICK r \in SUBSET S : Cardinality(r) = n /\ g[r] \notin Nat
    BY <1>3
  <1>5. r # {}
    <2>1. g[{}] = 0
      BY <1>1 DEF Fold
    <2>. QED  BY <1>4, <2>1
  <1>6. PICK q : q = r \ {AnyOf(r)}
    OBVIOUS
  <1>7. q \in SUBSET S /\ Cardinality(q) = n - 1 /\ n \in Nat \ {0} /\ AnyOf(r) \in S
    BY <1>4, <1>5, <1>6, Without
  <1>8. g[r] = f[AnyOf(r)] + g[q]
    BY <1>1, <1>5, <1>6 DEF Fold
  <1>9. g[q] \notin Nat
    BY <1>4, <1>7, <1>8
  <1>10. n - 1 \in N
    BY <1>7, <1>9
  <1>. QED  BY <1>3, <1>7, <1>10

\* One more of one element is one more in all.
LEMMA FoldOneMore ==
    ASSUME NEW S, IsFiniteSet(S), NEW f \in [S -> Nat], NEW c \in S,
           NEW e \in [S -> Nat], e[c] = f[c] + 1, \A x \in S : x # c => e[x] = f[x],
           NEW g, Folds(f, S, g), NEW h, Folds(e, S, h)
    PROVE  \A s \in SUBSET S : h[s] = IF c \in s THEN g[s] + 1 ELSE g[s]
  <1>. DEFINE Right(s) == h[s] = IF c \in s THEN g[s] + 1 ELSE g[s]
              N == {n \in Nat : \E s \in SUBSET S : Cardinality(s) = n /\ ~ Right(s)}
  <1>1. \A s \in SUBSET S : g[s] = Fold(f, g, s) /\ h[s] = Fold(e, h, s) /\ g[s] \in Nat
    BY FoldNat DEF Folds
  <1>. SUFFICES ASSUME NEW s \in SUBSET S, ~ Right(s) PROVE FALSE
    OBVIOUS
  <1>2. Cardinality(s) \in N
    BY FS_Subset, FS_CardinalityType
  <1>3. PICK n \in N : \A k \in N : n <= k
    <2>1. N \in SUBSET Nat /\ N # {}
      BY <1>2
    <2>. HIDE DEF N
    <2>. QED  BY <2>1, LeastIn
  <1>4. PICK r \in SUBSET S : Cardinality(r) = n /\ ~ Right(r)
    BY <1>3
  <1>5. r # {}
    BY <1>1, <1>4 DEF Fold
  <1>6. PICK x : x = AnyOf(r)
    OBVIOUS
  <1>7. PICK q : q = r \ {x}
    OBVIOUS
  <1>8. q \in SUBSET S /\ Cardinality(q) = n - 1 /\ n \in Nat \ {0} /\ x \in r /\ x \in S
    BY <1>4, <1>5, <1>6, <1>7, Without
  <1>9. g[r] = f[x] + g[q] /\ h[r] = e[x] + h[q]
    BY <1>1, <1>5, <1>6, <1>7 DEF Fold
  <1>10. Right(q)
    <2>1. n - 1 \notin N
      BY <1>3, <1>8
    <2>2. n - 1 \in Nat
      BY <1>8
    <2>. QED  BY <1>8, <2>1, <2>2
  <1>11. g[q] \in Nat /\ f[x] \in Nat
    BY <1>1, <1>8
  <1>12. CASE x = c
    <2>1. c \notin q /\ c \in r /\ e[x] = f[x] + 1
      BY <1>7, <1>8, <1>12
    <2>2. h[r] = (f[x] + 1) + g[q]
      BY <1>9, <1>10, <2>1
    <2>3. h[r] = g[r] + 1
      BY <1>9, <1>11, <2>2
    <2>. QED  BY <1>4, <2>1, <2>3
  <1>13. CASE x # c
    <2>1. (c \in q <=> c \in r) /\ e[x] = f[x]
      BY <1>7, <1>8, <1>13
    <2>2. h[r] = IF c \in r THEN f[x] + (g[q] + 1) ELSE g[r]
      BY <1>9, <1>10, <2>1
    <2>3. Right(r)
      BY <1>9, <1>11, <2>2
    <2>. QED  BY <1>4, <2>3
  <1>. QED  BY <1>12, <1>13

LEMMA SumOneMore ==
    ASSUME NEW S, IsFiniteSet(S), NEW f \in [S -> Nat], NEW c \in S,
           NEW e \in [S -> Nat], e[c] = f[c] + 1, \A x \in S : x # c => e[x] = f[x]
    PROVE  SumFunction(e) = SumFunction(f) + 1
  <1>1. PICK g : Folds(f, S, g)
    BY FoldExists
  <1>2. PICK h : Folds(e, S, h)
    BY FoldExists
  <1>3. SumFunction(f) = g[S] /\ SumFunction(e) = h[S]
    BY <1>1, <1>2, SumIs
  <1>4. \A s \in SUBSET S : h[s] = IF c \in s THEN g[s] + 1 ELSE g[s]
    BY <1>1, <1>2, FoldOneMore
  <1>5. S \in SUBSET S
    OBVIOUS
  <1>. QED  BY ONLY <1>3, <1>4, <1>5, c \in S

LEMMA SumNat ==
    ASSUME NEW S, IsFiniteSet(S), NEW f \in [S -> Nat]
    PROVE  SumFunction(f) \in Nat
  <1>1. PICK g : Folds(f, S, g)
    BY FoldExists
  <1>. QED  BY <1>1, SumIs, FoldNat

LEMMA SumZero ==
    ASSUME NEW S, IsFiniteSet(S)
    PROVE  SumFunction([x \in S |-> 0]) = 0
  <1>1. PICK f : f = [x \in S |-> 0]
    OBVIOUS
  <1>2. PICK g : g = [s \in SUBSET S |-> 0]
    OBVIOUS
  <1>3. Folds(f, S, g)
    <2>1. \A s \in SUBSET S : g[s] = Fold(f, g, s)
      <3>. SUFFICES ASSUME NEW s \in SUBSET S PROVE g[s] = Fold(f, g, s)
        OBVIOUS
      <3>1. CASE s = {}
        BY <1>2, <3>1 DEF Fold
      <3>2. CASE s # {}
        <4>1. AnyOf(s) \in S /\ s \ {AnyOf(s)} \in SUBSET S
          BY <3>2, Without
        <4>. QED  BY <1>1, <1>2, <3>2, <4>1 DEF Fold
      <3>. QED  BY <3>1, <3>2
    <2>. QED  BY <1>2, <2>1 DEF Folds
  <1>. QED  BY <1>1, <1>2, <1>3, SumIs

-----------------------------------------------------------------------------
(* Sums over a set of the domain.                                          *)

\* What holds of the empty set, and of a set with one more element, holds of
\* every finite set.
LEMMA SetInduction ==
    ASSUME NEW S, IsFiniteSet(S), NEW P, {} \in P,
           \A s \in SUBSET S : \A x \in S \ s : s \in P => s \cup {x} \in P
    PROVE  S \in P
  <1>. DEFINE N == {n \in Nat : \E s \in SUBSET S : Cardinality(s) = n /\ s \notin P}
  <1>. SUFFICES ASSUME S \notin P PROVE FALSE
    OBVIOUS
  <1>1. Cardinality(S) \in N
    BY FS_CardinalityType
  <1>2. PICK n \in N : \A k \in N : n <= k
    <2>1. N \in SUBSET Nat /\ N # {}
      BY <1>1
    <2>. HIDE DEF N
    <2>. QED  BY <2>1, LeastIn
  <1>3. PICK r \in SUBSET S : Cardinality(r) = n /\ r \notin P
    BY <1>2
  <1>4. PICK x : x = AnyOf(r)
    OBVIOUS
  <1>5. PICK q : q = r \ {x}
    OBVIOUS
  <1>6. q \in SUBSET S /\ Cardinality(q) = n - 1 /\ n \in Nat \ {0} /\ x \in r
    BY <1>3, <1>4, <1>5, Without
  <1>7. q \in P
    <2>1. n - 1 \notin N
      BY <1>2, <1>6
    <2>. QED  BY <1>6, <2>1
  <1>8. x \in S \ q /\ q \cup {x} = r
    BY <1>5, <1>6
  <1>. QED  BY <1>3, <1>6, <1>7, <1>8

\* The fold of a set gives the sum of each of its subsets.
LEMMA SumOf ==
    ASSUME NEW S, IsFiniteSet(S), NEW f, NEW g, Folds(f, S, g), NEW s \in SUBSET S
    PROVE  SumFunctionOnSet(f, s) = g[s]
  <1>1. PICK h : h = [r \in SUBSET s |-> g[r]]
    OBVIOUS
  <1>2. IsFiniteSet(s)
    BY FS_Subset
  <1>3. Folds(f, s, h)
    <2>1. ASSUME NEW r \in SUBSET s PROVE h[r] = Fold(f, h, r)
      <3>1. g[r] = Fold(f, g, r)
        BY DEF Folds
      <3>2. CASE r = {}
        BY <1>1, <3>1, <3>2 DEF Fold
      <3>3. CASE r # {}
        <4>1. r \ {AnyOf(r)} \in SUBSET s
          OBVIOUS
        <4>. QED  BY <1>1, <3>1, <3>3, <4>1 DEF Fold
      <3>. QED  BY <3>2, <3>3
    <2>. QED  BY <1>1, <2>1 DEF Folds
  <1>4. h = [r \in SUBSET s |-> IF r = {} THEN 0 ELSE LET x == CHOOSE x \in r : TRUE
                                                   IN  f[x] + h[r \ {x}]]
    BY <1>3 DEF Folds, Fold, AnyOf
  <1>5. ASSUME NEW e,
               e = [r \in SUBSET s |-> IF r = {} THEN 0 ELSE LET x == CHOOSE x \in r : TRUE
                                                       IN  f[x] + e[r \ {x}]]
        PROVE  e = h
    <2>1. Folds(f, s, e)
      BY <1>5 DEF Folds, Fold, AnyOf
    <2>. QED  BY <1>2, <1>3, <2>1, FoldUnique
  <1>6. SumFunctionOnSet(f, s) = h[s]
    BY <1>4, <1>5 DEF SumFunctionOnSet, FoldFunctionOnSet, MapThenFoldSet
  <1>. QED  BY <1>1, <1>6

\* The empty sum, and the sum by the element that is chosen.
LEMMA SumChosen ==
    ASSUME NEW S, IsFiniteSet(S), NEW f
    PROVE  /\ SumFunctionOnSet(f, {}) = 0
           /\ S # {} => SumFunctionOnSet(f, S)
                            = f[AnyOf(S)] + SumFunctionOnSet(f, S \ {AnyOf(S)})
  <1>1. PICK g : Folds(f, S, g)
    BY FoldExists
  <1>2. \A s \in SUBSET S : SumFunctionOnSet(f, s) = g[s] /\ g[s] = Fold(f, g, s)
    <2>1. \A s \in SUBSET S : SumFunctionOnSet(f, s) = g[s]
      BY <1>1, SumOf
    <2>2. \A s \in SUBSET S : g[s] = Fold(f, g, s)
      BY <1>1 DEF Folds
    <2>. QED  BY <2>1, <2>2
  <1>3. {} \in SUBSET S /\ S \in SUBSET S /\ S \ {AnyOf(S)} \in SUBSET S
    OBVIOUS
  <1>4. g[{}] = 0
    BY <1>2, <1>3 DEF Fold
  <1>. QED  BY <1>2, <1>3, <1>4 DEF Fold

\* A sum of naturals is one.
LEMMA SumIsNat ==
    ASSUME NEW S, IsFiniteSet(S), NEW f, \A x \in S : f[x] \in Nat
    PROVE  SumFunctionOnSet(f, S) \in Nat
  <1>1. PICK g : Folds(f, S, g)
    BY FoldExists
  <1>2. PICK e : e = [x \in S |-> f[x]]
    OBVIOUS
  <1>3. e \in [S -> Nat]
    BY <1>2
  <1>4. Folds(e, S, g)
    <2>1. \A s \in SUBSET S : Fold(e, g, s) = Fold(f, g, s)
      BY <1>2, Without DEF Fold
    <2>. QED  BY <1>1, <2>1 DEF Folds
  <1>5. S \in SUBSET S
    OBVIOUS
  <1>6. g[S] \in Nat
    BY <1>3, <1>4, <1>5, FoldNat
  <1>. QED  BY <1>1, <1>5, <1>6, SumOf

\* The order does not matter.
LEMMA SumRemove ==
    ASSUME NEW S, IsFiniteSet(S), NEW f, \A x \in S : f[x] \in Nat
    PROVE  \A x \in S : SumFunctionOnSet(f, S) = f[x] + SumFunctionOnSet(f, S \ {x})
  <1>. DEFINE Sum(s) == SumFunctionOnSet(f, s)
              Right(s) == \A x \in s : Sum(s) = f[x] + Sum(s \ {x})
              N == {n \in Nat : \E s \in SUBSET S : Cardinality(s) = n /\ ~ Right(s)}
  <1>. SUFFICES ASSUME ~ Right(S) PROVE FALSE
    OBVIOUS
  <1>1. Cardinality(S) \in N
    BY FS_CardinalityType
  <1>2. PICK n \in N : \A k \in N : n <= k
    <2>1. N \in SUBSET Nat /\ N # {}
      BY <1>1
    <2>. HIDE DEF N
    <2>. QED  BY <2>1, LeastIn
  <1>3. PICK r \in SUBSET S : Cardinality(r) = n /\ ~ Right(r)
    BY <1>2
  <1>4. IsFiniteSet(r) /\ \A x \in r : f[x] \in Nat
    BY FS_Subset
  <1>5. r # {}
    BY <1>3
  <1>6. PICK y : y = AnyOf(r)
    OBVIOUS
  <1>7. y \in r /\ n \in Nat \ {0} /\ Sum(r) = f[y] + Sum(r \ {y})
    BY <1>3, <1>4, <1>5, <1>6, Without, SumChosen
  <1>8. \A s \in SUBSET S : Cardinality(s) = n - 1 => Right(s)
    <2>1. n - 1 \in Nat /\ n - 1 \notin N
      BY <1>2, <1>7
    <2>. QED  BY <2>1
  <1>9. \A x \in r : Right(r \ {x})
    <2>1. \A x \in r : Cardinality(r \ {x}) = n - 1
      BY <1>3, <1>4, FS_RemoveElement
    <2>. HIDE DEF Right
    <2>. QED  BY <1>8, <2>1
  <1>. HIDE DEF Sum, N
  <1>10. ASSUME NEW x \in r, x # y PROVE Sum(r) = f[x] + Sum(r \ {x})
    <2>1. PICK s, a, b : s = (r \ {x}) \ {y} /\ a = f[x] /\ b = f[y]
      OBVIOUS
    <2>2. s = (r \ {y}) \ {x}
      BY <2>1
    <2>3. Sum(r \ {y}) = a + Sum(s) /\ Sum(r \ {x}) = b + Sum(s)
      BY <1>7, <1>9, <1>10, <2>1, <2>2
    <2>4. Sum(s) \in Nat
      <3>1. IsFiniteSet(s) /\ \A z \in s : f[z] \in Nat
        BY <1>4, <2>1, FS_Subset
      <3>. QED  BY <3>1, SumIsNat DEF Sum
    <2>5. a \in Nat /\ b \in Nat
      BY <1>4, <1>7, <1>10, <2>1
    <2>6. Sum(r) = b + (a + Sum(s))
      BY <1>7, <2>1, <2>3
    <2>. QED  BY <2>1, <2>3, <2>4, <2>5, <2>6
  <1>. QED  BY <1>3, <1>7, <1>10

\* One element more.
LEMMA SumAdd ==
    ASSUME NEW S, IsFiniteSet(S), NEW x, x \notin S, NEW f, f[x] \in Nat,
           \A y \in S : f[y] \in Nat
    PROVE  SumFunctionOnSet(f, S \cup {x}) = f[x] + SumFunctionOnSet(f, S)
  <1>1. PICK s : s = S \cup {x}
    OBVIOUS
  <1>2. IsFiniteSet(s) /\ s \ {x} = S /\ x \in s /\ \A y \in s : f[y] \in Nat
    BY <1>1, FS_AddElement
  <1>3. SumFunctionOnSet(f, s) = f[x] + SumFunctionOnSet(f, s \ {x})
    BY <1>2, SumRemove
  <1>. QED  BY <1>1, <1>2, <1>3

\* Two functions that agree on a set have one sum over it.
LEMMA SumAgree ==
    ASSUME NEW S, IsFiniteSet(S), NEW f, NEW e, \A x \in S : e[x] = f[x]
    PROVE  SumFunctionOnSet(e, S) = SumFunctionOnSet(f, S)
  <1>1. PICK g : Folds(f, S, g)
    BY FoldExists
  <1>2. \A s \in SUBSET S : Fold(e, g, s) = Fold(f, g, s)
    BY Without DEF Fold
  <1>3. Folds(e, S, g)
    BY <1>1, <1>2 DEF Folds
  <1>4. S \in SUBSET S
    OBVIOUS
  <1>. QED  BY <1>1, <1>3, <1>4, SumOf

\* The sum over two disjoint sets.
LEMMA SumUnion ==
    ASSUME NEW S, IsFiniteSet(S), NEW T, IsFiniteSet(T), S \cap T = {},
           NEW f, \A x \in S \cup T : f[x] \in Nat
    PROVE  SumFunctionOnSet(f, S \cup T) = SumFunctionOnSet(f, S) + SumFunctionOnSet(f, T)
  <1>. DEFINE Sum(s) == SumFunctionOnSet(f, s)
              P == {t \in SUBSET T : Sum(S \cup t) = Sum(S) + Sum(t)}
  <1>1. \A s \in SUBSET (S \cup T) : IsFiniteSet(s) /\ Sum(s) \in Nat
    BY SumIsNat, FS_Union, FS_Subset
  <1>2. {} \in P
    <2>1. Sum({}) = 0 /\ S \cup {} = S /\ Sum(S) \in Nat
      BY <1>1, SumChosen
    <2>. HIDE DEF Sum
    <2>. QED  BY <2>1
  <1>3. ASSUME NEW t \in SUBSET T, NEW x \in T \ t, t \in P PROVE t \cup {x} \in P
    <2>1. Sum(t \cup {x}) = f[x] + Sum(t)
      BY <1>1, SumAdd
    <2>2. PICK u : u = S \cup t
      OBVIOUS
    <2>3. Sum(u \cup {x}) = f[x] + Sum(u)
      <3>1. IsFiniteSet(u) /\ x \notin u /\ f[x] \in Nat /\ \A y \in u : f[y] \in Nat
        BY <1>1, <2>2
      <3>. QED  BY <3>1, SumAdd
    <2>. HIDE DEF Sum
    <2>4. Sum(u) = Sum(S) + Sum(t) /\ u \cup {x} = S \cup (t \cup {x})
      BY <1>3, <2>2
    <2>5. Sum(S) \in Nat /\ Sum(t) \in Nat /\ f[x] \in Nat
      BY <1>1
    <2>6. Sum(S \cup (t \cup {x})) = Sum(S) + Sum(t \cup {x})
      BY <2>1, <2>3, <2>4, <2>5
    <2>. QED  BY <2>6
  <1>. HIDE DEF Sum
  <1>4. T \in P
    <2>. HIDE DEF P
    <2>. QED  BY <1>2, <1>3, SetInduction
  <1>. QED  BY <1>4 DEF Sum

\* A larger set has a larger sum.
LEMMA SumMonotone ==
    ASSUME NEW T, IsFiniteSet(T), NEW S \in SUBSET T, NEW f, \A x \in T : f[x] \in Nat
    PROVE  SumFunctionOnSet(f, S) <= SumFunctionOnSet(f, T)
  <1>1. PICK R : R = T \ S
    OBVIOUS
  <1>2. IsFiniteSet(S) /\ IsFiniteSet(R) /\ S \cap R = {} /\ S \cup R = T
    BY <1>1, FS_Subset
  <1>3. SumFunctionOnSet(f, T) = SumFunctionOnSet(f, S) + SumFunctionOnSet(f, R)
    BY <1>2, SumUnion
  <1>4. SumFunctionOnSet(f, S) \in Nat /\ SumFunctionOnSet(f, R) \in Nat
    BY <1>2, SumIsNat
  <1>. QED  BY <1>3, <1>4

\* A sum of nothing but 0.
LEMMA SumOfZeros ==
    ASSUME NEW S, IsFiniteSet(S), NEW f, \A x \in S : f[x] = 0
    PROVE  SumFunctionOnSet(f, S) = 0
  <1>1. PICK g : g = [s \in SUBSET S |-> 0]
    OBVIOUS
  <1>2. ASSUME NEW s \in SUBSET S PROVE g[s] = Fold(f, g, s)
    <2>1. CASE s = {}
      BY <1>1, <2>1 DEF Fold
    <2>2. CASE s # {}
      <3>1. AnyOf(s) \in S /\ s \ {AnyOf(s)} \in SUBSET S
        BY <2>2, Without
      <3>. QED  BY <1>1, <2>2, <3>1 DEF Fold
    <2>. QED  BY <2>1, <2>2
  <1>3. Folds(f, S, g) /\ S \in SUBSET S
    BY <1>1, <1>2 DEF Folds
  <1>. QED  BY <1>1, <1>3, SumOf

\* One more at one place is one more in every sum that has the place.
LEMMA SumIncrement ==
    ASSUME NEW S, IsFiniteSet(S), NEW f, NEW e, NEW c,
           \A x \in S : f[x] \in Nat,
           c \in S => e[c] = f[c] + 1,
           \A x \in S : x # c => e[x] = f[x]
    PROVE  /\ c \in S => SumFunctionOnSet(e, S) = SumFunctionOnSet(f, S) + 1
           /\ c \notin S => SumFunctionOnSet(e, S) = SumFunctionOnSet(f, S)
  <1>1. ASSUME c \notin S PROVE SumFunctionOnSet(e, S) = SumFunctionOnSet(f, S)
    <2>1. \A x \in S : e[x] = f[x]
      BY <1>1
    <2>. QED  BY <2>1, SumAgree
  <1>2. ASSUME c \in S PROVE SumFunctionOnSet(e, S) = SumFunctionOnSet(f, S) + 1
    <2>1. PICK r : r = S \ {c}
      OBVIOUS
    <2>2. IsFiniteSet(r) /\ \A x \in r : e[x] = f[x] /\ f[x] \in Nat
      BY <2>1, FS_Subset
    <2>3. PICK n : n = SumFunctionOnSet(f, r)
      OBVIOUS
    <2>4. SumFunctionOnSet(e, r) = n /\ n \in Nat
      BY <2>2, <2>3, SumAgree, SumIsNat
    <2>5. f[c] \in Nat /\ e[c] = f[c] + 1
      BY <1>2
    <2>6. \A x \in S : e[x] \in Nat
      BY <2>1, <2>2, <2>5
    <2>7. SumFunctionOnSet(f, S) = f[c] + n
      BY <1>2, <2>1, <2>3, SumRemove
    <2>8. SumFunctionOnSet(e, S) = (f[c] + 1) + n
      BY <1>2, <2>1, <2>4, <2>5, <2>6, SumRemove
    <2>. QED  BY <2>4, <2>5, <2>7, <2>8
  <1>. QED  BY <1>1, <1>2
=============================================================================
