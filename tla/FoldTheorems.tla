----------------------------- MODULE FoldTheorems -----------------------------
(***************************************************************************)
(* Facts about the folds the models are built from: sums over finite sets  *)
(* (MapThenSumSet) and concatenations (FlattenSeq).                        *)
(*                                                                         *)
(* Both are recursive functions, each a CHOOSE of a function that          *)
(* satisfies its equation.  Induction is over sets of numbers and over     *)
(* sets of subsets, as least elements of well-founded orders: the          *)
(* induction theorems of the library take an operator as a parameter.      *)
(* What is summed is a function q, and each fold is shown once to be       *)
(* SumOver of a function.                                                  *)
(***************************************************************************)
EXTENDS Integers, Sequences, FiniteSets, FiniteSetsExt, SequencesExt,
        WellFoundedInduction, FiniteSetTheorems, SequenceTheorems, TLAPS

-----------------------------------------------------------------------------
(* Induction.                                                              *)

(* A non-empty set of naturals has a least element.                        *)
LEMMA LeastNatural ==
  ASSUME NEW T, T \subseteq Nat, T # {}
  PROVE  \E n \in T : \A m \in T : n <= m
<1> DEFINE R == OpToRel(<, Nat)
<1>1. IsWellFoundedOn(R, Nat)
  BY NatLessThanWellFounded
<1>2. \A m, n \in Nat : m < n => <<m, n>> \in R
  BY DEF OpToRel
<1> HIDE DEF R
<1>3. PICK n \in T : \A m \in T : <<m, n>> \notin R
  BY <1>1, WFMin
<1>4. ASSUME NEW m \in T PROVE n <= m
  <2>1. m \in Nat /\ n \in Nat /\ ~(m < n)
    BY <1>2, <1>3
  <2> QED
    BY <2>1
<1> QED
  BY <1>4

(* Induction over the naturals, for membership in a set.                   *)
LEMMA NaturalSetInduction ==
  ASSUME NEW T, 0 \in T, \A n \in Nat : n \in T => n + 1 \in T
  PROVE  Nat \subseteq T
<1> SUFFICES ASSUME Nat \ T # {} PROVE FALSE
  OBVIOUS
<1>1. PICK n \in Nat \ T : \A m \in Nat \ T : n <= m
  BY LeastNatural
<1>2. n # 0 /\ n - 1 \in Nat
  BY <1>1
<1>3. n - 1 \in T
  BY <1>1, <1>2
<1> QED
  BY <1>1, <1>2, <1>3

(* Of some subsets of a finite set, one includes no other.                 *)
LEMMA MinimalSubset ==
  ASSUME NEW S, IsFiniteSet(S), NEW T, T \subseteq SUBSET S, T # {}
  PROVE  \E X \in T : \A Y \in T : Y \subseteq X => Y = X
<1>1. IsWellFoundedOn(StrictSubsetOrdering(S), SUBSET S)
  BY FS_StrictSubsetOrderingWellFounded, FS_FiniteSubsetsOfFinite
<1>2. PICK X \in T : \A Y \in T : <<Y, X>> \notin StrictSubsetOrdering(S)
  BY <1>1, WFMin
<1> QED
  BY <1>2 DEF StrictSubsetOrdering

(* Induction over the subsets of a finite set, for membership in a set.    *)
LEMMA SubsetInduction ==
  ASSUME NEW S, IsFiniteSet(S), NEW T,
         \A X \in SUBSET S : (\A Y \in SUBSET X : Y # X => Y \in T) => X \in T
  PROVE  SUBSET S \subseteq T
<1> DEFINE Bad == (SUBSET S) \ T
<1> SUFFICES ASSUME Bad # {} PROVE FALSE
  OBVIOUS
<1>1. Bad \subseteq SUBSET S
  OBVIOUS
<1>2. PICK X \in Bad : \A Y \in Bad : Y \subseteq X => Y = X
  <2> HIDE DEF Bad
  <2> QED
    BY <1>1, MinimalSubset
<1>3. \A Y \in SUBSET X : Y # X => Y \in T
  BY <1>2
<1> QED
  BY <1>2, <1>3

-----------------------------------------------------------------------------
(* Sums.                                                                   *)

Pick(s) == CHOOSE x \in s : TRUE

(* f gives every subset of S its sum, in the order of Pick.                *)
IsSum(f, q, S) ==
    f = [s \in SUBSET S |-> IF s = {} THEN 0 ELSE q[Pick(s)] + f[s \ {Pick(s)}]]

SumOver(q, S) == (CHOOSE f : IsSum(f, q, S))[S]

LEMMA PickIsElement == ASSUME NEW s, s # {} PROVE Pick(s) \in s
BY DEF Pick

LEMMA SumExists ==
  ASSUME NEW q, NEW S, IsFiniteSet(S)
  PROVE  \E f : IsSum(f, q, S)
<1> DEFINE Sub(n) == {s \in SUBSET S : Cardinality(s) <= n}
           Part(f, n) == f = [s \in Sub(n) |->
                                IF s = {} THEN 0 ELSE q[Pick(s)] + f[s \ {Pick(s)}]]
           T == {n \in Nat : \E f : Part(f, n)}
<1>1. \A s \in SUBSET S : IsFiniteSet(s) /\ Cardinality(s) \in Nat
  BY FS_Subset, FS_CardinalityType
<1>2. \A n \in Nat : \A s \in Sub(n) : s # {} => n # 0 /\ s \ {Pick(s)} \in Sub(n - 1)
  <2> SUFFICES ASSUME NEW n \in Nat, NEW s \in Sub(n), s # {}
               PROVE  n # 0 /\ s \ {Pick(s)} \in Sub(n - 1)
    OBVIOUS
  <2>1. Pick(s) \in s
    BY PickIsElement
  <2>2. Cardinality(s \ {Pick(s)}) = Cardinality(s) - 1 /\ s \ {Pick(s)} \in SUBSET S
    BY <1>1, <2>1, FS_RemoveElement
  <2>3. Cardinality(s) \in Nat /\ Cardinality(s) <= n /\ Cardinality(s \ {Pick(s)}) \in Nat
    BY <1>1, <2>2
  <2> QED
    BY <2>2, <2>3
<1>3. 0 \in T
  <2> DEFINE f == [s \in Sub(0) |-> 0]
  <2>1. Part(f, 0)
    BY <1>2
  <2> QED
    BY <2>1
<1>4. ASSUME NEW n \in Nat, n \in T PROVE n + 1 \in T
  <2>1. PICK f : Part(f, n)
    BY <1>4
  <2> DEFINE g == [s \in Sub(n + 1) |->
                     IF s = {} THEN 0 ELSE q[Pick(s)] + f[s \ {Pick(s)}]]
  <2>2. \A s \in Sub(n) : s \in Sub(n + 1)
    BY <1>1
  <2>3. \A s \in Sub(n) : g[s] = f[s]
    BY <2>1, <2>2
  <2>4. \A s \in Sub(n + 1) : s # {} => s \ {Pick(s)} \in Sub(n)
    <3>1. n + 1 \in Nat /\ (n + 1) - 1 = n
      OBVIOUS
    <3> QED
      BY <1>2, <3>1
  <2>5. Part(g, n + 1)
    BY <2>3, <2>4
  <2>6. \E h : Part(h, n + 1)
    BY <2>5
  <2> HIDE DEF Part
  <2> QED
    BY <2>6
<1>5. Cardinality(S) \in T
  <2> HIDE DEF T
  <2> QED
    BY <1>1, <1>3, <1>4, NaturalSetInduction
<1>6. PICK f : Part(f, Cardinality(S))
  BY <1>5
<1>7. Sub(Cardinality(S)) = SUBSET S
  BY <1>1, FS_Subset
<1> QED
  BY <1>6, <1>7 DEF IsSum

(* Two such functions agree on the subsets they share.                     *)
LEMMA SumUnique ==
  ASSUME NEW q, NEW S, IsFiniteSet(S), NEW R, NEW f, NEW g, R \subseteq S,
         IsSum(f, q, S), IsSum(g, q, R)
  PROVE  \A s \in SUBSET R : f[s] = g[s]
<1> DEFINE T == {s \in SUBSET R : f[s] = g[s]}
<1>1. IsFiniteSet(R)
  BY FS_Subset
<1>2. \A s \in SUBSET S : f[s] = IF s = {} THEN 0 ELSE q[Pick(s)] + f[s \ {Pick(s)}]
  BY DEF IsSum
<1>3. \A s \in SUBSET R : g[s] = IF s = {} THEN 0 ELSE q[Pick(s)] + g[s \ {Pick(s)}]
  BY DEF IsSum
<1>4. ASSUME NEW s \in SUBSET R, \A t \in SUBSET s : t # s => t \in T
      PROVE  s \in T
  <2>1. CASE s = {}
    BY <1>2, <1>3, <2>1
  <2>2. CASE s # {}
    <3>1. Pick(s) \in s
      BY <2>2, PickIsElement
    <3>2. f[s \ {Pick(s)}] = g[s \ {Pick(s)}]
      BY <1>4, <3>1
    <3> QED
      BY <1>2, <1>3, <2>2, <3>2
  <2> QED
    BY <2>1, <2>2
<1>5. SUBSET R \subseteq T
  <2> HIDE DEF T
  <2> QED
    BY <1>1, <1>4, SubsetInduction
<1> QED
  BY <1>5

(* The sum does not depend on the set it is part of.                       *)
LEMMA SumOfPart ==
  ASSUME NEW q, NEW S, IsFiniteSet(S), NEW f, IsSum(f, q, S), NEW s \in SUBSET S
  PROVE  f[s] = SumOver(q, s)
<1> DEFINE g == CHOOSE g : IsSum(g, q, s)
<1>1. IsSum(g, q, s)
  BY FS_Subset, SumExists
<1> HIDE DEF g
<1>2. f[s] = g[s]
  BY <1>1, SumUnique
<1> QED
  BY <1>2 DEF SumOver, g

LEMMA SumPicks ==
  ASSUME NEW q, NEW S, IsFiniteSet(S)
  PROVE  SumOver(q, S) = IF S = {} THEN 0 ELSE q[Pick(S)] + SumOver(q, S \ {Pick(S)})
<1>1. PICK f : IsSum(f, q, S)
  BY SumExists
<1>2. f[S] = IF S = {} THEN 0 ELSE q[Pick(S)] + f[S \ {Pick(S)}]
  BY <1>1 DEF IsSum
<1>3. \A s \in SUBSET S : f[s] = SumOver(q, s)
  BY <1>1, SumOfPart
<1> QED
  BY <1>2, <1>3

LEMMA SumEmpty == \A q : SumOver(q, {}) = 0
BY SumPicks, FS_EmptySet

(* Only the values on the set count.                                       *)
LEMMA SumSame ==
  ASSUME NEW q, NEW r, NEW S, IsFiniteSet(S), \A x \in S : q[x] = r[x]
  PROVE  SumOver(q, S) = SumOver(r, S)
<1> DEFINE T == {s \in SUBSET S : SumOver(q, s) = SumOver(r, s)}
<1>1. ASSUME NEW s \in SUBSET S, \A t \in SUBSET s : t # s => t \in T
      PROVE  s \in T
  <2>1. IsFiniteSet(s)
    BY FS_Subset
  <2>2. CASE s = {}
    BY <2>2, SumEmpty
  <2>3. CASE s # {}
    <3>1. Pick(s) \in s
      BY <2>3, PickIsElement
    <3>2. s \ {Pick(s)} \in T /\ q[Pick(s)] = r[Pick(s)]
      BY <1>1, <3>1
    <3> QED
      BY <2>1, <2>3, <3>2, SumPicks
  <2> QED
    BY <2>2, <2>3
<1>2. SUBSET S \subseteq T
  <2> HIDE DEF T
  <2> QED
    BY <1>1, SubsetInduction
<1> QED
  BY <1>2

(* A sum of integers is an integer, one of naturals a natural.             *)
LEMMA SumInteger ==
  ASSUME NEW q, NEW S, IsFiniteSet(S), \A x \in S : q[x] \in Int
  PROVE  SumOver(q, S) \in Int
<1> DEFINE T == {s \in SUBSET S : SumOver(q, s) \in Int}
<1>1. ASSUME NEW s \in SUBSET S, \A t \in SUBSET s : t # s => t \in T
      PROVE  s \in T
  <2>1. IsFiniteSet(s)
    BY FS_Subset
  <2>2. CASE s = {}
    BY <2>2, SumEmpty
  <2>3. CASE s # {}
    <3>1. Pick(s) \in s
      BY <2>3, PickIsElement
    <3>2. s \ {Pick(s)} \in T /\ q[Pick(s)] \in Int
      BY <1>1, <3>1
    <3> QED
      BY <2>1, <2>3, <3>2, SumPicks
  <2> QED
    BY <2>2, <2>3
<1>2. SUBSET S \subseteq T
  <2> HIDE DEF T
  <2> QED
    BY <1>1, SubsetInduction
<1> QED
  BY <1>2

LEMMA SumNatural ==
  ASSUME NEW q, NEW S, IsFiniteSet(S), \A x \in S : q[x] \in Nat
  PROVE  SumOver(q, S) \in Nat
<1> DEFINE T == {s \in SUBSET S : SumOver(q, s) \in Nat}
<1>1. ASSUME NEW s \in SUBSET S, \A t \in SUBSET s : t # s => t \in T
      PROVE  s \in T
  <2>1. IsFiniteSet(s)
    BY FS_Subset
  <2>2. CASE s = {}
    BY <2>2, SumEmpty
  <2>3. CASE s # {}
    <3>1. Pick(s) \in s
      BY <2>3, PickIsElement
    <3>2. s \ {Pick(s)} \in T /\ q[Pick(s)] \in Nat
      BY <1>1, <3>1
    <3> QED
      BY <2>1, <2>3, <3>2, SumPicks
  <2> QED
    BY <2>2, <2>3
<1>2. SUBSET S \subseteq T
  <2> HIDE DEF T
  <2> QED
    BY <1>1, SubsetInduction
<1> QED
  BY <1>2

(* Any element can be taken out first.                                     *)
LEMMA SumRemove ==
  ASSUME NEW q, NEW S, IsFiniteSet(S), \A x \in S : q[x] \in Int, NEW x \in S
  PROVE  SumOver(q, S) = q[x] + SumOver(q, S \ {x})
<1> DEFINE T == {s \in SUBSET S :
                   \A y \in s : SumOver(q, s) = q[y] + SumOver(q, s \ {y})}
<1>1. \A s \in SUBSET S : IsFiniteSet(s) /\ SumOver(q, s) \in Int
  BY FS_Subset, SumInteger
<1>2. ASSUME NEW s \in SUBSET S, \A t \in SUBSET s : t # s => t \in T
      PROVE  s \in T
  <2> SUFFICES ASSUME NEW y \in s PROVE SumOver(q, s) = q[y] + SumOver(q, s \ {y})
    OBVIOUS
  <2> DEFINE p == Pick(s)
  <2>1. p \in s /\ SumOver(q, s) = q[p] + SumOver(q, s \ {p})
    BY <1>1, PickIsElement, SumPicks
  <2> HIDE DEF p
  <2>2. CASE y = p
    BY <2>1, <2>2
  <2>3. CASE y # p
    <3>1. s \ {p} \in T /\ s \ {y} \in T
      BY <1>2, <2>1
    <3>2. SumOver(q, s \ {p}) = q[y] + SumOver(q, (s \ {p}) \ {y})
      BY <2>3, <3>1
    <3>3. SumOver(q, s \ {y}) = q[p] + SumOver(q, (s \ {y}) \ {p})
      BY <2>1, <2>3, <3>1
    <3>4. (s \ {p}) \ {y} = (s \ {y}) \ {p}
      OBVIOUS
    <3>5. q[p] \in Int /\ q[y] \in Int /\ SumOver(q, (s \ {y}) \ {p}) \in Int
      BY <1>1, <2>1
    <3> DEFINE rest == SumOver(q, (s \ {y}) \ {p})
    <3>6. /\ SumOver(q, s \ {p}) = q[y] + rest /\ SumOver(q, s \ {y}) = q[p] + rest
          /\ rest \in Int
      BY <3>2, <3>3, <3>4, <3>5
    <3> HIDE DEF rest
    <3>7. q[p] + (q[y] + rest) = q[y] + (q[p] + rest)
      BY <3>5, <3>6
    <3> QED
      BY <2>1, <3>6, <3>7
  <2> QED
    BY <2>2, <2>3
<1>3. SUBSET S \subseteq T
  <2> HIDE DEF T
  <2> QED
    BY <1>2, SubsetInduction
<1> QED
  BY <1>3

LEMMA SumAdd ==
  ASSUME NEW q, NEW S, IsFiniteSet(S), NEW x, x \notin S,
         \A y \in S \cup {x} : q[y] \in Int
  PROVE  SumOver(q, S \cup {x}) = q[x] + SumOver(q, S)
<1>1. IsFiniteSet(S \cup {x}) /\ (S \cup {x}) \ {x} = S
  BY FS_AddElement
<1> QED
  BY <1>1, SumRemove

LEMMA SumZero ==
  ASSUME NEW q, NEW S, IsFiniteSet(S), \A x \in S : q[x] = 0
  PROVE  SumOver(q, S) = 0
<1> DEFINE T == {s \in SUBSET S : SumOver(q, s) = 0}
<1>1. ASSUME NEW s \in SUBSET S, \A t \in SUBSET s : t # s => t \in T
      PROVE  s \in T
  <2>1. CASE s = {}
    BY <2>1, SumEmpty
  <2>2. CASE s # {}
    <3>1. IsFiniteSet(s) /\ Pick(s) \in s
      BY <2>2, FS_Subset, PickIsElement
    <3>2. SumOver(q, s) = q[Pick(s)] + SumOver(q, s \ {Pick(s)})
      BY <2>2, <3>1, SumPicks
    <3>3. s \ {Pick(s)} \in T /\ q[Pick(s)] = 0
      BY <1>1, <3>1
    <3> QED
      BY <3>2, <3>3
  <2> QED
    BY <2>1, <2>2
<1>2. S \in T
  <2> HIDE DEF T
  <2> QED
    BY <1>1, SubsetInduction
<1> QED
  BY <1>2

LEMMA SumDisjoint ==
  ASSUME NEW q, NEW A, NEW B, IsFiniteSet(A), IsFiniteSet(B), A \cap B = {},
         \A y \in A \cup B : q[y] \in Int
  PROVE  SumOver(q, A \cup B) = SumOver(q, A) + SumOver(q, B)
<1> DEFINE T == {s \in SUBSET B : SumOver(q, A \cup s) = SumOver(q, A) + SumOver(q, s)}
<1>1. \A s \in SUBSET B : IsFiniteSet(s) /\ IsFiniteSet(A \cup s)
  BY FS_Subset, FS_Union
<1>2. \A s \in SUBSET B : SumOver(q, s) \in Int
  BY <1>1, SumInteger
<1>3. SumOver(q, A) \in Int
  BY SumInteger
<1>4. ASSUME NEW s \in SUBSET B, \A t \in SUBSET s : t # s => t \in T
      PROVE  s \in T
  <2>1. CASE s = {}
    <3>1. SumOver(q, s) = 0 /\ A \cup s = A
      BY <2>1, SumEmpty
    <3> QED
      BY <1>3, <3>1
  <2>2. CASE s # {}
    <3>1. PICK x : x \in s
      BY <2>2
    <3> DEFINE t == s \ {x}
    <3>2. SumOver(q, A \cup t) = SumOver(q, A) + SumOver(q, t) /\ SumOver(q, t) \in Int
      BY <1>2, <1>4, <3>1
    <3>3. SumOver(q, s) = q[x] + SumOver(q, t)
      <4>1. IsFiniteSet(s) /\ \A y \in s : q[y] \in Int
        BY <1>1
      <4> QED
        BY <3>1, <4>1, SumRemove
    <3>4. SumOver(q, A \cup s) = q[x] + SumOver(q, A \cup t)
      <4>1. (A \cup s) \ {x} = A \cup t
        BY <3>1
      <4> HIDE DEF t
      <4>2. \A y \in A \cup s : q[y] \in Int
        OBVIOUS
      <4> QED
        BY <1>1, <3>1, <4>1, <4>2, SumRemove
    <3>5. q[x] \in Int
      BY <3>1
    <3> HIDE DEF t
    <3> QED
      BY <1>3, <3>2, <3>3, <3>4, <3>5
  <2> QED
    BY <2>1, <2>2
<1>5. SUBSET B \subseteq T
  <2> HIDE DEF T
  <2> QED
    BY <1>4, SubsetInduction
<1> QED
  BY <1>5

(* w sums the values q of D by key: R has one element of each key, and     *)
(* part[r] those of D with the key of r.                                   *)
Grouped(w, R, part, key, q, D) ==
    /\ R \subseteq D
    /\ \A j \in D : \E r \in R : key[j] = key[r]
    /\ \A r, t \in R : key[r] = key[t] => r = t
    /\ \A r \in R : \A j : j \in part[r] <=> j \in D /\ key[j] = key[r]
    /\ \A r \in R : w[r] = SumOver(q, part[r])

(* Each element counts for the only one of R that has its key.             *)
LEMMA SumByKey ==
  ASSUME NEW q, NEW D, IsFiniteSet(D), \A j \in D : q[j] \in Int,
         NEW w, NEW R, NEW part, NEW key, Grouped(w, R, part, key, q, D)
  PROVE  SumOver(w, R) = SumOver(q, D)
<1> USE DEF Grouped
<1> DEFINE Class(r) == {j \in D : key[j] = key[r]}
           Of(s) == {j \in D : \E r \in s : key[j] = key[r]}
           T == {s \in SUBSET R : SumOver(w, s) = SumOver(q, Of(s))}
<1>0. \A r \in R : w[r] = SumOver(q, Class(r))
  <2>1. \A r \in R : part[r] = Class(r)
    OBVIOUS
  <2> HIDE DEF Class
  <2> QED
    BY <2>1
<1>1. IsFiniteSet(R) /\ \A s \in SUBSET R : IsFiniteSet(s)
  BY FS_Subset
<1>2. /\ \A r : IsFiniteSet(Class(r)) /\ SumOver(q, Class(r)) \in Int
      /\ \A s : IsFiniteSet(Of(s))
  <2>1. \A c \in SUBSET D : IsFiniteSet(c) /\ SumOver(q, c) \in Int
    BY FS_Subset, SumInteger
  <2>2. (\A r : Class(r) \in SUBSET D) /\ (\A s : Of(s) \in SUBSET D)
    OBVIOUS
  <2> HIDE DEF Class, Of
  <2> QED
    BY <2>1, <2>2
<1>3. ASSUME NEW s \in SUBSET R, \A t \in SUBSET s : t # s => t \in T
      PROVE  s \in T
  <2>1. CASE s = {}
    <3>1. Of(s) = {}
      BY <2>1
    <3> QED
      BY <2>1, <3>1, SumEmpty
  <2>2. CASE s # {}
    <3>1. PICK r : r \in s
      BY <2>2
    <3> DEFINE t == s \ {r}
    <3>2. SumOver(w, t) = SumOver(q, Of(t))
      BY <1>3, <3>1
    <3>3. Of(s) = Of(t) \cup Class(r) /\ Of(t) \cap Class(r) = {}
      BY <3>1
    <3>4. SumOver(w, s) = w[r] + SumOver(w, t)
      <4>1. \A x \in s : w[x] \in Int
        <5> HIDE DEF Class
        <5> QED
          BY <1>0, <1>2
      <4> QED
        BY <1>1, <3>1, <4>1, SumRemove
    <3>5. SumOver(q, Of(s)) = SumOver(q, Of(t)) + SumOver(q, Class(r))
      <4> DEFINE U == Of(t)
                 V == Class(r)
      <4>1. \A y \in U \cup V : q[y] \in Int
        OBVIOUS
      <4>2. IsFiniteSet(U) /\ IsFiniteSet(V) /\ Of(s) = U \cup V /\ U \cap V = {}
        BY <1>2, <3>3
      <4> HIDE DEF U, V, Of, Class
      <4>3. SumOver(q, U \cup V) = SumOver(q, U) + SumOver(q, V)
        BY <4>1, <4>2, SumDisjoint
      <4> QED
        BY <4>2, <4>3 DEF U, V
    <3>6. w[r] = SumOver(q, Class(r)) /\ SumOver(q, Class(r)) \in Int
      <4> HIDE DEF Class
      <4> QED
        BY <1>0, <1>2, <3>1
    <3>7. SumOver(q, Of(t)) \in Int
      <4>1. \A y \in Of(t) : q[y] \in Int
        OBVIOUS
      <4> HIDE DEF Of
      <4> QED
        BY <1>2, <4>1, SumInteger
    <3> HIDE DEF t, Of, Class
    <3>8. SumOver(w, s) = SumOver(q, Of(s))
      BY <3>2, <3>4, <3>5, <3>6, <3>7
    <3> QED
      BY <3>8
  <2> QED
    BY <2>1, <2>2
<1>4. SUBSET R \subseteq T
  <2> HIDE DEF T
  <2> QED
    BY <1>1, <1>3, SubsetInduction
<1>5. Of(R) = D
  OBVIOUS
<1>6. R \in T
  BY <1>4
<1> QED
  BY <1>5, <1>6

(* A sum over the images of an injective function.                         *)
LEMMA SumOfImage ==
  ASSUME NEW R, IsFiniteSet(R), NEW f, \A r, t \in R : f[r] = f[t] => r = t,
         NEW q, \A r \in R : q[f[r]] \in Int
  PROVE  SumOver(q, {f[r] : r \in R}) = SumOver([r \in R |-> q[f[r]]], R)
<1> DEFINE Img(s) == {f[r] : r \in s}
           w == [r \in R |-> q[f[r]]]
           T == {s \in SUBSET R : SumOver(q, Img(s)) = SumOver(w, s) /\ IsFiniteSet(Img(s))}
<1>1. \A s \in SUBSET R : IsFiniteSet(s)
  BY FS_Subset
<1>2. ASSUME NEW s \in SUBSET R, \A t \in SUBSET s : t # s => t \in T
      PROVE  s \in T
  <2>1. CASE s = {}
    <3>1. Img(s) = {}
      BY <2>1
    <3> QED
      BY <2>1, <3>1, SumEmpty, FS_EmptySet
  <2>2. CASE s # {}
    <3>1. PICK r : r \in s
      BY <2>2
    <3> DEFINE t == s \ {r}
    <3>2. SumOver(q, Img(t)) = SumOver(w, t) /\ IsFiniteSet(Img(t))
      BY <1>2, <3>1
    <3>3. Img(s) = Img(t) \cup {f[r]} /\ f[r] \notin Img(t)
      BY <3>1
    <3>4. SumOver(w, s) = w[r] + SumOver(w, t)
      <4>1. \A x \in s : w[x] \in Int
        OBVIOUS
      <4> HIDE DEF w
      <4> QED
        BY <1>1, <3>1, <4>1, SumRemove
    <3>5. SumOver(q, Img(s)) = q[f[r]] + SumOver(q, Img(t)) /\ IsFiniteSet(Img(s))
      <4>1. \A y \in Img(t) \cup {f[r]} : q[y] \in Int
        BY <3>1
      <4> DEFINE U == Img(t)
                 e == f[r]
      <4>2. IsFiniteSet(U) /\ Img(s) = U \cup {e} /\ e \notin U
        BY <3>2, <3>3
      <4> HIDE DEF U, e, Img
      <4>3. SumOver(q, U \cup {e}) = q[e] + SumOver(q, U) /\ IsFiniteSet(U \cup {e})
        BY <4>1, <4>2, SumAdd, FS_AddElement DEF U, e
      <4> QED
        BY <4>2, <4>3 DEF U, e
    <3>6. w[r] = q[f[r]]
      BY <3>1
    <3> HIDE DEF w, t, Img
    <3>7. SumOver(q, Img(s)) = SumOver(w, s) /\ IsFiniteSet(Img(s))
      BY <3>2, <3>4, <3>5, <3>6
    <3> QED
      BY <3>7
  <2> QED
    BY <2>1, <2>2
<1>3. SUBSET R \subseteq T
  <2> HIDE DEF T
  <2> QED
    BY <1>2, SubsetInduction
<1>4. R \in T
  BY <1>3
<1> QED
  BY <1>4

(* MapThenSumSet of a function; of an operator, the same argument gives    *)
(* the sum of the function that has its values.                            *)
LEMMA FoldIsSum ==
  ASSUME NEW q, NEW S, IsFiniteSet(S)
  PROVE  MapThenSumSet(LAMBDA x : q[x], S) = SumOver(q, S)
<1> DEFINE iter == CHOOSE f : f = [s \in SUBSET S |->
                      IF s = {} THEN 0
                      ELSE q[CHOOSE x \in s : TRUE] + f[s \ {CHOOSE x \in s : TRUE}]]
<1>1. MapThenSumSet(LAMBDA x : q[x], S) = iter[S]
  BY DEF MapThenSumSet, MapThenFoldSet
<1>2. \E f : f = [s \in SUBSET S |->
                   IF s = {} THEN 0
                   ELSE q[CHOOSE x \in s : TRUE] + f[s \ {CHOOSE x \in s : TRUE}]]
  <2>1. PICK f : IsSum(f, q, S)
    BY SumExists
  <2> QED
    BY <2>1 DEF IsSum, Pick
<1>3. IsSum(iter, q, S)
  BY <1>2 DEF IsSum, Pick
<1> HIDE DEF iter
<1> QED
  BY <1>1, <1>3, SumOfPart

-----------------------------------------------------------------------------
(* Sequences.                                                              *)

(* The prefixes that FlattenSeq puts together.                             *)
LEMMA FlattenSteps ==
  ASSUME NEW seqs, Len(seqs) \in Nat
  PROVE  \E flat :
            /\ \A i \in 1 .. Len(seqs) :
                  flat[i] = IF i = 1 THEN seqs[i] ELSE flat[i - 1] \o seqs[i]
            /\ FlattenSeq(seqs) = IF Len(seqs) = 0 THEN seqs ELSE flat[Len(seqs)]
<1> DEFINE Part(f, n) == f = [i \in 1 .. n |-> IF i = 1 THEN seqs[i] ELSE f[i - 1] \o seqs[i]]
           T == {n \in Nat : \E f : Part(f, n)}
           N == Len(seqs)
<1>1. N \in Nat
  OBVIOUS
<1>2. 0 \in T
  <2>1. Part([i \in {} |-> 0], 0)
    OBVIOUS
  <2>2. \E f : Part(f, 0)
    BY <2>1
  <2> HIDE DEF Part
  <2> QED
    BY <2>2
<1>3. ASSUME NEW n \in Nat, n \in T PROVE n + 1 \in T
  <2>1. PICK f : Part(f, n)
    BY <1>3
  <2> DEFINE g == [i \in 1 .. n + 1 |-> IF i = 1 THEN seqs[i] ELSE f[i - 1] \o seqs[i]]
  <2>2. \A i \in 1 .. n : g[i] = f[i]
    <3>1. \A i \in 1 .. n : f[i] = IF i = 1 THEN seqs[i] ELSE f[i - 1] \o seqs[i]
      BY <2>1, Zenon
    <3>2. \A i \in 1 .. n + 1 : g[i] = IF i = 1 THEN seqs[i] ELSE f[i - 1] \o seqs[i]
      BY Zenon
    <3>3. \A i \in 1 .. n : i \in 1 .. n + 1
      OBVIOUS
    <3> HIDE DEF g
    <3> QED
      BY <3>1, <3>2, <3>3, Zenon
  <2>3. \A i \in 1 .. n + 1 : i = 1 \/ i - 1 \in 1 .. n
    OBVIOUS
  <2>4. Part(g, n + 1)
    BY <2>2, <2>3
  <2>5. \E h : Part(h, n + 1)
    BY <2>4
  <2> HIDE DEF Part
  <2> QED
    BY <2>5
<1>4. N \in T
  <2> HIDE DEF T, N
  <2> QED
    BY <1>1, <1>2, <1>3, NaturalSetInduction
<1> DEFINE flat == CHOOSE f : Part(f, N)
<1>5. Part(flat, N)
  BY <1>4
<1>6. FlattenSeq(seqs) = IF N = 0 THEN seqs ELSE flat[N]
  BY DEF FlattenSeq
<1> HIDE DEF flat
<1>7. \A i \in 1 .. N : flat[i] = IF i = 1 THEN seqs[i] ELSE flat[i - 1] \o seqs[i]
  BY <1>5
<1> QED
  BY <1>6, <1>7

(* A concatenation of sequences over a set is a sequence over it.          *)
LEMMA FlattenIsSequence ==
  ASSUME NEW S, NEW seqs \in Seq(Seq(S))
  PROVE  FlattenSeq(seqs) \in Seq(S)
<1> DEFINE N == Len(seqs)
<1>1. N \in Nat /\ \A i \in 1 .. N : seqs[i] \in Seq(S)
  OBVIOUS
<1>2. PICK flat :
        /\ \A i \in 1 .. N : flat[i] = IF i = 1 THEN seqs[i] ELSE flat[i - 1] \o seqs[i]
        /\ FlattenSeq(seqs) = IF N = 0 THEN seqs ELSE flat[N]
  BY <1>1, FlattenSteps
<1> DEFINE U == {n \in Nat : n = 0 \/ n > N \/ flat[n] \in Seq(S)}
<1>8. ASSUME NEW n \in Nat, n \in U PROVE n + 1 \in U
  <2>1. CASE n + 1 > N
    BY <2>1
  <2>2. CASE n + 1 <= N /\ n = 0
    <3>1. flat[1] = seqs[1] /\ seqs[1] \in Seq(S)
      BY <1>1, <1>2, <2>2
    <3> QED
      BY <2>2, <3>1
  <2>3. CASE n + 1 <= N /\ n # 0
    <3>1. n + 1 \in 1 .. N /\ n + 1 # 1 /\ (n + 1) - 1 = n
      BY <2>3
    <3>2. flat[n + 1] = flat[n] \o seqs[n + 1] /\ seqs[n + 1] \in Seq(S)
      BY <1>1, <1>2, <3>1
    <3>3. flat[n] \in Seq(S)
      BY <1>1, <1>8, <2>3
    <3>4. flat[n + 1] \in Seq(S)
      BY <3>2, <3>3, ConcatProperties
    <3> QED
      BY <3>4
  <2> QED
    BY <1>1, <2>1, <2>2, <2>3
<1>9. N \in U
  <2>1. 0 \in U
    OBVIOUS
  <2> HIDE DEF U, N
  <2> QED
    BY <1>1, <1>8, <2>1, NaturalSetInduction
<1>10. CASE N = 0
  <2>1. seqs = << >>
    BY <1>10
  <2> QED
    BY <1>2, <1>10, <2>1
<1>11. CASE N # 0
  BY <1>1, <1>2, <1>9, <1>11
<1> QED
  BY <1>10, <1>11

(* How many of a sequence's elements are in X.                             *)
Count(s, X) == Cardinality({i \in DOMAIN s : s[i] \in X})

LEMMA CountConcat ==
  ASSUME NEW S, NEW s \in Seq(S), NEW t \in Seq(S), NEW X
  PROVE  Count(s \o t, X) = Count(s, X) + Count(t, X) /\ Count(s, X) \in Nat
<1> DEFINE m == Len(s)
           n == Len(t)
           A == {i \in 1 .. m : s[i] \in X}
           B == {i \in 1 .. n : t[i] \in X}
           C == {i \in m + 1 .. m + n : t[i - m] \in X}
           f == [i \in B |-> i + m]
<1>1. m \in Nat /\ n \in Nat
  OBVIOUS
<1>2. {i \in DOMAIN (s \o t) : (s \o t)[i] \in X} = A \cup C
  <2> DEFINE w == s \o t
  <2>1. DOMAIN w = 1 .. m + n
    OBVIOUS
  <2>2. \A i \in 1 .. m + n : w[i] = IF i <= m THEN s[i] ELSE t[i - m]
    OBVIOUS
  <2> HIDE DEF m, n, w, f
  <2>3. \A i \in 1 .. m : i \in 1 .. m + n /\ w[i] = s[i]
    <3>1. \A i \in 1 .. m : i \in 1 .. m + n /\ i <= m
      BY <1>1
    <3> QED
      BY <2>2, <3>1
  <2>4. \A i \in m + 1 .. m + n : i \in 1 .. m + n /\ w[i] = t[i - m]
    <3>1. \A i \in m + 1 .. m + n : i \in 1 .. m + n /\ ~(i <= m)
      BY <1>1
    <3> QED
      BY <2>2, <3>1
  <2>5. \A i \in 1 .. m + n : i \in 1 .. m \/ i \in m + 1 .. m + n
    BY <1>1
  <2>6. ASSUME NEW i
        PROVE  i \in DOMAIN w /\ w[i] \in X <=> i \in A \cup C
    BY <2>1, <2>3, <2>4, <2>5
  <2>7. {i \in DOMAIN w : w[i] \in X} = A \cup C
    <3> HIDE DEF A, C
    <3> QED
      BY <2>6
  <2> QED
    BY <2>7 DEF w
<1>3. {i \in DOMAIN s : s[i] \in X} = A /\ {i \in DOMAIN t : t[i] \in X} = B
  OBVIOUS
<1>4. IsFiniteSet(A) /\ IsFiniteSet(B) /\ Cardinality(A) \in Nat /\ Cardinality(B) \in Nat
  <2>1. IsFiniteSet(1 .. m) /\ IsFiniteSet(1 .. n)
    BY <1>1, FS_Interval
  <2>2. A \in SUBSET (1 .. m) /\ B \in SUBSET (1 .. n)
    OBVIOUS
  <2> HIDE DEF A, B
  <2> QED
    BY <2>1, <2>2, FS_Subset, FS_CardinalityType
<1>5. f \in Bijection(B, C)
  <2> HIDE DEF m, n
  <2>1. \A i \in B : i \in Nat /\ f[i] = i + m /\ f[i] \in C
    <3>1. \A i \in 1 .. n : i \in Nat /\ i + m \in m + 1 .. m + n /\ (i + m) - m = i
      BY <1>1
    <3> QED
      BY <3>1
  <2>2. \A j \in C : j - m \in B /\ f[j - m] = j
    <3>1. \A j \in m + 1 .. m + n : j - m \in 1 .. n /\ (j - m) + m = j
      BY <1>1
    <3> QED
      BY <3>1
  <2>3. f \in [B -> C] /\ \A i, j \in B : f[i] = f[j] => i = j
    <3>1. \A i, j \in Nat : i + m = j + m => i = j
      BY <1>1
    <3>2. f \in [B -> C]
      <4> HIDE DEF B, C
      <4> QED
        BY <2>1
    <3> HIDE DEF f, B
    <3> QED
      BY <2>1, <3>1, <3>2
  <2> HIDE DEF f, B, C
  <2> QED
    BY <2>2, <2>3 DEF Bijection, Injection, Surjection, IsInjective
<1>6. IsFiniteSet(C) /\ Cardinality(C) = Cardinality(B)
  <2> HIDE DEF f, B, C
  <2> QED
    BY <1>4, <1>5, FS_Bijection DEF ExistsBijection
<1>7. A \cap C = {}
  <2> HIDE DEF m, n
  <2> QED
    BY <1>1
<1>8. Cardinality(A \cup C) = Cardinality(A) + Cardinality(C)
  <2> HIDE DEF A, C
  <2>1. Cardinality(A \cup C) = Cardinality(A) + Cardinality(C) - Cardinality(A \cap C)
    BY <1>4, <1>6, FS_Union
  <2>2. Cardinality(A \cap C) = 0
    BY <1>7, FS_EmptySet
  <2> QED
    BY <1>4, <1>6, <2>1, <2>2
<1> HIDE DEF A, B, C
<1> QED
  BY <1>2, <1>3, <1>4, <1>6, <1>8 DEF Count

(* A concatenation has the elements of its parts.                          *)
LEMMA FlattenCounts ==
  ASSUME NEW S, NEW seqs \in Seq(Seq(S)), NEW X
  PROVE  Count(FlattenSeq(seqs), X)
            = SumOver([k \in DOMAIN seqs |-> Count(seqs[k], X)], DOMAIN seqs)
<1> DEFINE N == Len(seqs)
           w == [k \in DOMAIN seqs |-> Count(seqs[k], X)]
<1>1. N \in Nat /\ DOMAIN seqs = 1 .. N /\ \A i \in 1 .. N : seqs[i] \in Seq(S)
  OBVIOUS
<1>2. PICK flat :
        /\ \A i \in 1 .. N : flat[i] = IF i = 1 THEN seqs[i] ELSE flat[i - 1] \o seqs[i]
        /\ FlattenSeq(seqs) = IF N = 0 THEN seqs ELSE flat[N]
  BY <1>1, FlattenSteps
<1>3. \A k \in 1 .. N : w[k] = Count(seqs[k], X) /\ w[k] \in Int
  BY <1>1, CountConcat
<1> DEFINE Good(n) == flat[n] \in Seq(S) /\ Count(flat[n], X) = SumOver(w, 1 .. n)
           U == {n \in Nat : n = 0 \/ n > N \/ Good(n)}
<1> HIDE DEF w, N
<1>4. ASSUME NEW n \in Nat, n + 1 <= N PROVE 1 .. n + 1 = (1 .. n) \cup {n + 1}
  BY <1>4
<1>5. ASSUME NEW n \in Nat, n + 1 <= N
      PROVE  SumOver(w, 1 .. n + 1) = w[n + 1] + SumOver(w, 1 .. n)
  <2>1. IsFiniteSet(1 .. n)
    BY FS_Interval
  <2>2. n + 1 \notin 1 .. n /\ \A y \in (1 .. n) \cup {n + 1} : w[y] \in Int
    BY <1>1, <1>3, <1>5
  <2>3. SumOver(w, (1 .. n) \cup {n + 1}) = w[n + 1] + SumOver(w, 1 .. n)
    BY <2>1, <2>2, SumAdd
  <2> QED
    BY <1>4, <1>5, <2>3
<1>6. ASSUME NEW n \in Nat, n \in U PROVE n + 1 \in U
  <2>1. CASE n + 1 > N
    BY <2>1
  <2>2. CASE n + 1 <= N /\ n = 0
    <3>1. flat[1] = seqs[1] /\ seqs[1] \in Seq(S) /\ w[1] = Count(seqs[1], X)
      BY <1>1, <1>2, <1>3, <2>2
    <3>2. SumOver(w, 1 .. n + 1) = w[n + 1] + SumOver(w, 1 .. n)
      BY <1>5, <2>2
    <3>3. n + 1 = 1 /\ 1 .. n = {} /\ 1 \in 1 .. N
      BY <1>1, <2>2
    <3>4. SumOver(w, 1 .. n + 1) = w[1]
      BY <1>3, <3>2, <3>3, SumEmpty
    <3>5. Good(n + 1)
      BY <3>1, <3>3, <3>4
    <3> QED
      BY <2>2, <3>5
  <2>3. CASE n + 1 <= N /\ n # 0
    <3>1. n + 1 \in 1 .. N /\ n + 1 # 1 /\ (n + 1) - 1 = n
      BY <1>1, <2>3
    <3>2. /\ flat[n + 1] = flat[n] \o seqs[n + 1] /\ seqs[n + 1] \in Seq(S)
          /\ w[n + 1] = Count(seqs[n + 1], X) /\ w[n + 1] \in Int
      BY <1>1, <1>2, <1>3, <3>1
    <3>3. Good(n)
      BY <1>1, <1>6, <2>3
    <3>4. flat[n + 1] \in Seq(S)
      BY <3>2, <3>3, ConcatProperties
    <3>5. /\ Count(flat[n + 1], X) = Count(flat[n], X) + Count(seqs[n + 1], X)
          /\ Count(flat[n], X) \in Nat
      BY <3>2, <3>3, CountConcat
    <3>6. SumOver(w, 1 .. n + 1) = w[n + 1] + SumOver(w, 1 .. n)
      BY <1>5, <2>3
    <3>7. Count(flat[n + 1], X) = SumOver(w, 1 .. n + 1)
      BY <3>2, <3>3, <3>5, <3>6
    <3>8. Good(n + 1)
      BY <3>4, <3>7
    <3> HIDE DEF Good
    <3> QED
      BY <3>8
  <2> QED
    BY <1>1, <2>1, <2>2, <2>3
<1>7. N \in U
  <2>1. 0 \in U
    OBVIOUS
  <2> HIDE DEF U
  <2> QED
    BY <1>1, <1>6, <2>1, NaturalSetInduction
<1>8. CASE N = 0
  <2>1. seqs = << >> /\ DOMAIN seqs = {}
    BY <1>1, <1>8 DEF N
  <2>2. Count(<< >>, X) = 0
    <3>1. {i \in DOMAIN << >> : << >>[i] \in X} = {}
      OBVIOUS
    <3> QED
      BY <3>1, FS_EmptySet DEF Count
  <2>3. SumOver(w, DOMAIN seqs) = 0
    BY <2>1, SumEmpty
  <2> QED
    BY <1>2, <1>8, <2>1, <2>2, <2>3 DEF w
<1>9. CASE N # 0
  <2>1. Good(N)
    BY <1>1, <1>7, <1>9
  <2>2. Count(FlattenSeq(seqs), X) = SumOver(w, DOMAIN seqs)
    BY <1>1, <1>2, <1>9, <2>1
  <2> QED
    BY <2>2 DEF w
<1> QED
  BY <1>8, <1>9

-----------------------------------------------------------------------------
(* Ranks.                                                                  *)

(* R orders the elements of S one after the other.                         *)
IsOrder(R, S) ==
    /\ \A x \in S : <<x, x>> \notin R
    /\ \A x, y, z \in S : <<x, y>> \in R /\ <<y, z>> \in R => <<x, z>> \in R
    /\ \A x, y \in S : x # y => <<x, y>> \in R \/ <<y, x>> \in R

Rank(R, S, x) == Cardinality({y \in S : <<y, x>> \in R})

(* Of n elements one has each of the ranks 0 .. n - 1.                     *)
LEMMA RanksAreOrder ==
  ASSUME NEW S, IsFiniteSet(S), NEW R, IsOrder(R, S)
  PROVE  /\ \A x \in S : Rank(R, S, x) \in 0 .. Cardinality(S) - 1
         /\ \A x, y \in S : <<x, y>> \in R <=> Rank(R, S, x) < Rank(R, S, y)
         /\ \A x, y \in S : Rank(R, S, x) = Rank(R, S, y) => x = y
         /\ {Rank(R, S, x) : x \in S} = 0 .. Cardinality(S) - 1
<1> DEFINE before(x) == {y \in S : <<y, x>> \in R}
           N == Cardinality(S)
           f == [x \in S |-> Rank(R, S, x)]
<1>1. N \in Nat
  BY FS_CardinalityType
<1>2. ASSUME NEW X \in SUBSET S, NEW x \in X
      PROVE  /\ Cardinality(X \ {x}) = Cardinality(X) - 1 /\ Cardinality(X) \in Nat
             /\ IsFiniteSet(X) /\ IsFiniteSet(X \ {x})
  <2>1. IsFiniteSet(X)
    BY FS_Subset
  <2> QED
    BY <2>1, FS_RemoveElement, FS_CardinalityType
<1>3. ASSUME NEW X \in SUBSET S, NEW x \in X, NEW Y \in SUBSET (X \ {x})
      PROVE  Cardinality(Y) < Cardinality(X) /\ Cardinality(Y) \in Nat
  <2>1. /\ Cardinality(X \ {x}) = Cardinality(X) - 1 /\ Cardinality(X) \in Nat
        /\ IsFiniteSet(X \ {x})
    BY <1>2
  <2>2. IsFiniteSet(Y) /\ Cardinality(Y) <= Cardinality(X \ {x})
    BY <2>1, FS_Subset
  <2>3. Cardinality(Y) \in Nat
    BY <2>2, FS_CardinalityType
  <2> QED
    BY <2>1, <2>2, <2>3
<1>4. ASSUME NEW x \in S PROVE Rank(R, S, x) \in 0 .. N - 1
  <2>1. before(x) \in SUBSET (S \ {x})
    BY DEF IsOrder
  <2>2. Cardinality(before(x)) < N /\ Cardinality(before(x)) \in Nat
    BY <1>3, <2>1
  <2> HIDE DEF N, before
  <2>3. Cardinality(before(x)) \in 0 .. N - 1
    BY <1>1, <2>2
  <2> QED
    BY <2>3 DEF Rank, before
<1>5. ASSUME NEW x \in S, NEW y \in S, <<x, y>> \in R PROVE Rank(R, S, x) < Rank(R, S, y)
  <2>1. x \in before(y) /\ before(x) \in SUBSET (before(y) \ {x}) /\ before(y) \in SUBSET S
    BY <1>5 DEF IsOrder
  <2> HIDE DEF before
  <2>2. Cardinality(before(x)) < Cardinality(before(y))
    BY <1>3, <2>1
  <2> QED
    BY <2>2 DEF Rank, before
<1>6. ASSUME NEW x \in S, NEW y \in S, Rank(R, S, x) = Rank(R, S, y) PROVE x = y
  <2> SUFFICES ASSUME x # y PROVE FALSE
    OBVIOUS
  <2>1. <<x, y>> \in R \/ <<y, x>> \in R
    BY DEF IsOrder
  <2>2. Rank(R, S, x) < Rank(R, S, y) \/ Rank(R, S, y) < Rank(R, S, x)
    BY <1>5, <2>1
  <2> QED
    BY <1>1, <1>4, <1>6, <2>2
<1>7. ASSUME NEW x \in S, NEW y \in S, Rank(R, S, x) < Rank(R, S, y) PROVE <<x, y>> \in R
  <2>1. x # y /\ ~(Rank(R, S, y) < Rank(R, S, x))
    BY <1>1, <1>4, <1>7
  <2>2. <<x, y>> \in R \/ <<y, x>> \in R
    BY <2>1 DEF IsOrder
  <2> QED
    BY <1>5, <2>1, <2>2
<1>8. IsFiniteSet(0 .. N - 1) /\ Cardinality(0 .. N - 1) = N
  BY <1>1, FS_Interval
<1>9. f \in Injection(S, 0 .. N - 1)
  BY <1>4, <1>6 DEF Injection, IsInjective
<1>10. f \in Surjection(S, 0 .. N - 1)
  <2> HIDE DEF f
  <2> QED
    BY <1>8, <1>9, FS_Injection
<1>11. {Rank(R, S, x) : x \in S} = 0 .. N - 1
  <2>1. \A n \in 0 .. N - 1 : \E x \in S : Rank(R, S, x) = n
    BY <1>10 DEF Surjection
  <2> HIDE DEF N
  <2> QED
    BY <1>4, <2>1
<1> QED
  BY <1>4, <1>5, <1>6, <1>7, <1>11

LEMMA RankIsTaken ==
  ASSUME NEW S, IsFiniteSet(S), NEW R, IsOrder(R, S),
         NEW n \in Nat, n < Cardinality(S)
  PROVE  \E x \in S : Rank(R, S, x) = n
<1>1. {Rank(R, S, x) : x \in S} = 0 .. Cardinality(S) - 1
  BY RanksAreOrder
<1>2. n \in 0 .. Cardinality(S) - 1
  BY FS_CardinalityType
<1>3. n \in {Rank(R, S, x) : x \in S}
  BY <1>1, <1>2
<1> QED
  BY <1>3

===============================================================================
