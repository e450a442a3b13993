----------------------------- MODULE FoldLemmas -----------------------------
(***************************************************************************)
(* Induction over sets, and what the folds of the community modules make   *)
(* of a sequence or a finite set.                                          *)
(*                                                                         *)
(* The induction theorems of the library take a predicate as a parameter,  *)
(* which the provers cannot instantiate.  A set takes its place here: what *)
(* holds of 0 and, with n, of n + 1, is a set of numbers that has them all.*)
(*                                                                         *)
(* A recursive function is CHOOSEn among those that satisfy its equation,  *)
(* so a fold is known by its equation once some function satisfies it: it  *)
(* does for every step function, on a set the step does not leave.         *)
(***************************************************************************)
EXTENDS SequencesExt, FiniteSetTheorems, SequenceTheorems, WellFoundedInduction, TLAPS

(* Induction over the natural numbers. *)
LEMMA NatSet ==
  ASSUME NEW T \in SUBSET Nat, 0 \in T, \A n \in T : n + 1 \in T
  PROVE  T = Nat
  <1> SUFFICES ASSUME Nat \ T # {} PROVE FALSE
    OBVIOUS
  <1> DEFINE R == OpToRel(<, Nat)
  <1>1. \A m, n \in Nat : m < n => <<m, n>> \in R
    BY DEF OpToRel
  <1>2. \E x \in Nat \ T : \A y \in Nat \ T : <<y, x>> \notin R
    BY NatLessThanWellFounded, WFMin, Zenon
  <1> HIDE DEF R
  <1> PICK x \in Nat : x \notin T /\ \A y \in Nat \ T : <<y, x>> \notin R
    BY <1>2
  <1>3. x - 1 \in Nat /\ x - 1 < x
    OBVIOUS
  <1>4. x - 1 \in T
    BY <1>1, <1>3
  <1>5. (x - 1) + 1 \in T
    BY <1>4
  <1> QED BY <1>5

(* Induction over the subsets of a finite set. *)
LEMMA FiniteSubsets ==
  ASSUME NEW S, IsFiniteSet(S), NEW T \in SUBSET SUBSET S, {} \in T,
         \A A \in T : \A x \in S \ A : A \cup {x} \in T
  PROVE  T = SUBSET S
  <1> DEFINE N == {n \in Nat : \A A \in SUBSET S : Cardinality(A) = n => A \in T}
  <1>1. 0 \in N
    <2>1. \A A \in SUBSET S : Cardinality(A) = 0 => A = {}
      BY FS_Subset, FS_EmptySet
    <2> QED BY <2>1
  <1>2. ASSUME NEW n \in N PROVE n + 1 \in N
    <2> SUFFICES ASSUME NEW A \in SUBSET S, Cardinality(A) = n + 1 PROVE A \in T
      OBVIOUS
    <2>1. IsFiniteSet(A) /\ A # {} /\ n \in Nat
      BY FS_Subset, FS_EmptySet
    <2>2. PICK x : x \in A
      BY <2>1
    <2>3. Cardinality(A \ {x}) = n
      <3>1. Cardinality(A \ {x}) = Cardinality(A) - 1
        BY <2>1, <2>2, FS_RemoveElement
      <3> QED BY <2>1, <3>1
    <2>4. A \ {x} \in T
      BY <2>3
    <2>5. (A \ {x}) \cup {x} = A /\ x \in S \ (A \ {x})
      BY <2>2
    <2> QED BY <2>4, <2>5
  <1>3. N = Nat
    <2> HIDE DEF N
    <2>1. N \in SUBSET Nat
      BY DEF N
    <2> QED BY <1>1, <1>2, <2>1, NatSet
  <1> QED BY <1>3, FS_Subset, FS_CardinalityType

(* A function on 1..n is a sequence of length n. *)
LEMMA FunctionIsSeq ==
  ASSUME NEW S, NEW n \in Nat, NEW f \in [1..n -> S]
  PROVE  f \in Seq(S) /\ Len(f) = n /\ DOMAIN f = 1..n
  <1>1. f \in Seq(S)
    BY SeqDef
  <1>2. DOMAIN f = 1..Len(f) /\ Len(f) \in Nat
    BY <1>1, LenProperties
  <1> QED BY <1>1, <1>2

-----------------------------------------------------------------------------
(* F satisfies, on D, the equation of a fold over subsets in which c names the
   element that is folded last. *)
IsFold(F, D, base, c, step) ==
  \A s \in D : F[s] = IF s = {} THEN base ELSE step[<<F[s \ {c[s]}], c[s]>>]

(* Some function on the subsets of a finite set does. *)
LEMMA FoldExists ==
  ASSUME NEW S, IsFiniteSet(S), NEW V, NEW base \in V,
         NEW c, \A s \in SUBSET S : s # {} => c[s] \in s,
         NEW step \in [V \X S -> V]
  PROVE  \E F \in [SUBSET S -> V] : IsFold(F, SUBSET S, base, c, step)
  <1> DEFINE Level(n) == {s \in SUBSET S : Cardinality(s) <= n}
             Folds(F, D) == IsFold(F, D, base, c, step)
             N == {n \in Nat : \E F \in [Level(n) -> V] : Folds(F, Level(n))}
  <1>1. \A s \in SUBSET S : IsFiniteSet(s) /\ Cardinality(s) \in Nat
    BY FS_Subset, FS_CardinalityType
  <1>2. \A s \in SUBSET S : s # {} =>
          /\ c[s] \in S /\ s \ {c[s]} \in SUBSET S
          /\ Cardinality(s \ {c[s]}) = Cardinality(s) - 1
    BY <1>1, FS_RemoveElement
  <1>3. 0 \in N
    <2>1. \A s \in Level(0) : s = {}
      BY <1>1, FS_EmptySet
    <2>2. [s \in Level(0) |-> base] \in [Level(0) -> V]
      OBVIOUS
    <2>3. Folds([s \in Level(0) |-> base], Level(0))
      BY <2>1 DEF IsFold
    <2> QED BY <2>2, <2>3
  <1>4. ASSUME NEW n \in N PROVE n + 1 \in N
    <2>1. n \in Nat
      OBVIOUS
    <2>2. PICK F \in [Level(n) -> V] : Folds(F, Level(n))
      OBVIOUS
    <2> DEFINE G == [s \in Level(n + 1) |->
                       IF s = {} THEN base ELSE step[<<F[s \ {c[s]}], c[s]>>]]
    <2>3. \A s \in Level(n + 1) : s # {} => s \ {c[s]} \in Level(n)
      BY <1>1, <1>2, <2>1
    <2>4. Level(n) \subseteq Level(n + 1)
      BY <1>1, <2>1
    <2>5. \A s \in Level(n) : G[s] = F[s]
      BY <2>2, <2>4 DEF IsFold
    <2>6. G \in [Level(n + 1) -> V]
      <3> SUFFICES ASSUME NEW s \in Level(n + 1), s # {}
                   PROVE  step[<<F[s \ {c[s]}], c[s]>>] \in V
        OBVIOUS
      <3>1. F[s \ {c[s]}] \in V /\ c[s] \in S
        BY <1>2, <2>3
      <3> QED BY <3>1
    <2>7. Folds(G, Level(n + 1))
      BY <2>3, <2>5 DEF IsFold
    <2> HIDE DEF G, Level, Folds
    <2> QED BY <2>1, <2>6, <2>7
  <1>5. N = Nat
    <2> HIDE DEF N
    <2>1. N \in SUBSET Nat
      BY DEF N
    <2> QED BY <1>3, <1>4, <2>1, NatSet
  <1>6. Cardinality(S) \in Nat
    BY FS_CardinalityType
  <1>7. Level(Cardinality(S)) = SUBSET S
    BY FS_Subset
  <1>8. PICK F \in [Level(Cardinality(S)) -> V] : Folds(F, Level(Cardinality(S)))
    <2> HIDE DEF Level, Folds
    <2> QED BY <1>5, <1>6
  <1> HIDE DEF Level
  <1> QED BY <1>7, <1>8

(* A finite set of integers has a largest member. *)
LEMMA LargestExists ==
  ASSUME NEW S \in SUBSET Int, IsFiniteSet(S), S # {}
  PROVE  \E x \in S : \A y \in S : x >= y
  <1> DEFINE T == {s \in SUBSET S : s # {} => \E x \in s : \A y \in s : x >= y}
  <1>1. {} \in T /\ T \in SUBSET SUBSET S
    OBVIOUS
  <1>2. ASSUME NEW A \in T, NEW x \in S \ A PROVE A \cup {x} \in T
    <2>1. CASE A = {}
      BY <2>1
    <2>2. CASE A # {}
      <3>1. PICK m \in A : \A y \in A : m >= y
        BY <2>2
      <3>2. CASE m >= x
        BY <3>1, <3>2
      <3>3. CASE ~(m >= x)
        <4>1. \A y \in A \cup {x} : x >= y
          BY <3>1, <3>3
        <4> QED BY <4>1
      <3> QED BY <3>2, <3>3
    <2> QED BY <2>1, <2>2
  <1>3. T = SUBSET S
    <2> HIDE DEF T
    <2> QED BY <1>1, <1>2, FiniteSubsets
  <1> QED BY <1>3

(* Its members can be listed in their order, each once. *)
Increasing(e) == \A i, j \in DOMAIN e : i < j => e[i] < e[j]

(* The elements of a finite set of numbers can be listed in increasing order. *)
LEMMA IncreasingExists ==
  ASSUME NEW S \in SUBSET Int, IsFiniteSet(S)
  PROVE  \E e \in Surjection(1..Cardinality(S), S) : Increasing(e)
  <1> DEFINE Listed(A) == \E e \in Surjection(1..Cardinality(A), A) : Increasing(e)
             N == {n \in Nat : \A A \in SUBSET S : Cardinality(A) = n => Listed(A)}
  <1>1. \A A \in SUBSET S : IsFiniteSet(A) /\ Cardinality(A) \in Nat
    BY FS_Subset, FS_CardinalityType
  <1>2. 0 \in N
    <2> SUFFICES ASSUME NEW A \in SUBSET S, Cardinality(A) = 0 PROVE Listed(A)
      OBVIOUS
    <2>1. A = {}
      BY <1>1, FS_EmptySet
    <2> DEFINE e == [i \in 1..0 |-> 0]
    <2>2. e \in Surjection(1..0, A) /\ Increasing(e)
      BY <2>1 DEF Surjection, Increasing
    <2> QED BY <2>2
  <1>3. ASSUME NEW n \in N PROVE n + 1 \in N
    <2> SUFFICES ASSUME NEW A \in SUBSET S, Cardinality(A) = n + 1 PROVE Listed(A)
      OBVIOUS
    <2>1. n \in Nat /\ A # {} /\ A \in SUBSET Int
      BY <1>1, FS_EmptySet
    <2>2. PICK x \in A : \A y \in A : x >= y
      BY <1>1, <2>1, LargestExists
    <2> DEFINE B == A \ {x}
    <2>3. B \in SUBSET S /\ Cardinality(B) = n
      <3>1. Cardinality(B) = Cardinality(A) - 1
        BY <1>1, FS_RemoveElement
      <3> QED BY <2>1, <3>1
    <2>4. Listed(B)
      BY <2>3
    <2>5. PICK e \in Surjection(1..n, B) : Increasing(e)
      BY <2>3, <2>4
    <2> DEFINE f == [i \in 1..(n + 1) |-> IF i = n + 1 THEN x ELSE e[i]]
    <2>6. e \in [1..n -> B] /\ \A y \in B : \E i \in 1..n : e[i] = y
      BY DEF Surjection
    <2>7. f \in [1..(n + 1) -> A]
      BY <2>1, <2>6
    <2>8. \A y \in A : \E i \in 1..(n + 1) : f[i] = y
      <3> SUFFICES ASSUME NEW y \in A PROVE \E i \in 1..(n + 1) : f[i] = y
        OBVIOUS
      <3>1. CASE y = x
        <4>1. n + 1 \in 1..(n + 1) /\ f[n + 1] = x
          BY <2>1
        <4> QED BY <3>1, <4>1
      <3>2. CASE y # x
        <4>1. PICK i \in 1..n : e[i] = y
          BY <2>6, <3>2
        <4>2. i \in 1..(n + 1) /\ i # n + 1
          BY <2>1
        <4> QED BY <4>1, <4>2
      <3> QED BY <3>1, <3>2
    <2>9. Increasing(f)
      <3> SUFFICES ASSUME NEW i \in 1..(n + 1), NEW j \in 1..(n + 1), i < j PROVE f[i] < f[j]
        BY DEF Increasing
      <3>1. i \in 1..n /\ f[i] = e[i] /\ e[i] \in A /\ e[i] # x
        BY <2>1, <2>6
      <3>2. CASE j = n + 1
        <4>1. f[j] = x /\ x \in Int /\ f[i] \in Int /\ x >= f[i] /\ f[i] # x
          BY <2>1, <2>2, <3>1, <3>2
        <4> HIDE DEF f
        <4> QED BY <4>1
      <3>3. CASE j # n + 1
        <4>1. j \in 1..n /\ f[j] = e[j] /\ DOMAIN e = 1..n
          BY <2>1, <2>6, <3>3
        <4> QED BY <2>5, <3>1, <4>1 DEF Increasing
      <3> QED BY <3>2, <3>3
    <2> HIDE DEF f
    <2> QED BY <2>7, <2>8, <2>9 DEF Surjection
  <1>4. N = Nat
    <2> HIDE DEF N
    <2>1. N \in SUBSET Nat
      BY DEF N
    <2> QED BY <1>2, <1>3, <2>1, NatSet
  <1> QED BY <1>1, <1>4

(* A strict order on S, as a set of pairs: the smaller one first. *)
IsStrictOrder(R, S) ==
  /\ \A x \in S : <<x, x>> \notin R
  /\ \A x, y, z \in S : <<x, y>> \in R /\ <<y, z>> \in R => <<x, z>> \in R

(* A finite set has a member that comes before no other. *)
LEMMA MaximalExists ==
  ASSUME NEW S, IsFiniteSet(S), S # {}, NEW R, IsStrictOrder(R, S)
  PROVE  \E x \in S : \A y \in S : <<x, y>> \notin R
  <1> DEFINE T == {s \in SUBSET S : s # {} => \E x \in s : \A y \in s : <<x, y>> \notin R}
  <1>1. {} \in T /\ T \in SUBSET SUBSET S
    OBVIOUS
  <1>2. ASSUME NEW A \in T, NEW x \in S \ A PROVE A \cup {x} \in T
    <2>1. CASE A = {}
      BY <2>1 DEF IsStrictOrder
    <2>2. CASE A # {}
      <3>1. PICK m \in A : \A y \in A : <<m, y>> \notin R
        BY <2>2
      <3>2. CASE <<m, x>> \notin R
        BY <3>1, <3>2
      <3>3. CASE <<m, x>> \in R
        <4>1. ASSUME NEW y \in A, <<x, y>> \in R PROVE FALSE
          <5>1. <<m, y>> \in R
            BY <3>3, <4>1 DEF IsStrictOrder
          <5> QED BY <3>1, <5>1
        <4>2. \A y \in A \cup {x} : <<x, y>> \notin R
          BY <4>1 DEF IsStrictOrder
        <4> QED BY <4>2
      <3> QED BY <3>2, <3>3
    <2> QED BY <2>1, <2>2
  <1>3. T = SUBSET S
    <2> HIDE DEF T
    <2> QED BY <1>1, <1>2, FiniteSubsets
  <1> QED BY <1>3

(* Its members can be listed, each once, with none behind one it comes before. *)
Arranged(e, R) == \A i, j \in DOMAIN e : i < j => e[i] # e[j] /\ <<e[j], e[i]>> \notin R

(* A finite set with a strict order has a list that never goes backwards. *)
LEMMA ArrangementExists ==
  ASSUME NEW S, IsFiniteSet(S), NEW R, IsStrictOrder(R, S)
  PROVE  \E e \in [1..Cardinality(S) -> S] : Arranged(e, R)
  <1> DEFINE Listed(A) == \E e \in [1..Cardinality(A) -> A] : Arranged(e, R)
             N == {n \in Nat : \A A \in SUBSET S : Cardinality(A) = n => Listed(A)}
  <1>1. \A A \in SUBSET S : IsFiniteSet(A) /\ Cardinality(A) \in Nat
    BY FS_Subset, FS_CardinalityType
  <1>2. 0 \in N
    <2> SUFFICES ASSUME NEW A \in SUBSET S, Cardinality(A) = 0 PROVE Listed(A)
      OBVIOUS
    <2> DEFINE e == [i \in 1..0 |-> 0]
    <2>1. e \in [1..0 -> A] /\ Arranged(e, R)
      BY DEF Arranged
    <2> QED BY <2>1
  <1>3. ASSUME NEW n \in N PROVE n + 1 \in N
    <2> SUFFICES ASSUME NEW A \in SUBSET S, Cardinality(A) = n + 1 PROVE Listed(A)
      OBVIOUS
    <2>1. n \in Nat /\ A # {} /\ IsStrictOrder(R, A)
      BY <1>1, FS_EmptySet DEF IsStrictOrder
    <2>2. PICK x \in A : \A y \in A : <<x, y>> \notin R
      BY <1>1, <2>1, MaximalExists
    <2> DEFINE B == A \ {x}
    <2>3. B \in SUBSET S /\ Cardinality(B) = n
      <3>1. Cardinality(B) = Cardinality(A) - 1
        BY <1>1, FS_RemoveElement
      <3> QED BY <2>1, <3>1
    <2>4. PICK e \in [1..n -> B] : Arranged(e, R)
      BY <2>3
    <2> DEFINE f == [i \in 1..(n + 1) |-> IF i = n + 1 THEN x ELSE e[i]]
    <2>5. f \in [1..(n + 1) -> A]
      BY <2>1
    <2>6. Arranged(f, R)
      <3> SUFFICES ASSUME NEW i \in 1..(n + 1), NEW j \in 1..(n + 1), i < j
                   PROVE  f[i] # f[j] /\ <<f[j], f[i]>> \notin R
        BY DEF Arranged
      <3>1. i \in 1..n /\ f[i] = e[i] /\ e[i] \in A /\ e[i] # x
        BY <2>1
      <3>2. CASE j = n + 1
        <4>1. f[j] = x
          BY <3>2
        <4> QED BY <2>2, <3>1, <4>1
      <3>3. CASE j # n + 1
        <4>1. j \in 1..n /\ f[j] = e[j] /\ DOMAIN e = 1..n
          BY <2>1, <3>3
        <4> QED BY <2>4, <3>1, <4>1 DEF Arranged
      <3> QED BY <3>2, <3>3
    <2> HIDE DEF f
    <2> QED BY <2>5, <2>6
  <1>4. N = Nat
    <2> HIDE DEF N
    <2>1. N \in SUBSET Nat
      BY DEF N
    <2> QED BY <1>2, <1>3, <2>1, NatSet
  <1> QED BY <1>1, <1>4

(* A list of n members of 1..n, each once, leaves none out. *)
LEMMA ListsAll ==
  ASSUME NEW n \in Nat, NEW q \in [1..n -> 1..n],
         \A i, j \in 1..n : i < j => q[i] # q[j]
  PROVE  \A k \in 1..n : \E i \in 1..n : q[i] = k
  <1>1. IsFiniteSet(1..n)
    BY FS_Interval
  <1>2. \A i, j \in 1..n : i # j => q[i] # q[j]
    <2> SUFFICES ASSUME NEW i \in 1..n, NEW j \in 1..n, i # j PROVE q[i] # q[j]
      OBVIOUS
    <2>1. i < j \/ j < i
      OBVIOUS
    <2> QED BY <2>1
  <1>3. q \in Injection(1..n, 1..n)
    BY <1>2 DEF Injection, IsInjective
  <1>4. q \in Surjection(1..n, 1..n)
    BY <1>1, <1>3, FS_Injection
  <1> QED BY <1>4 DEF Surjection

(* Taking the elements of a sequence by a list of its positions moves them, and
   no more. *)
LEMMA Rearranged ==
  ASSUME NEW S, NEW s \in Seq(S), NEW q \in [DOMAIN s -> DOMAIN s],
         \A i, j \in DOMAIN s : i < j => q[i] # q[j]
  PROVE  LET r == [i \in DOMAIN s |-> s[q[i]]]
         IN  r \in Seq(S) /\ Len(r) = Len(s) /\ DOMAIN r = 1..Len(s) /\ ToSet(r) = ToSet(s)
  <1> DEFINE n == Len(s)
             r == [i \in 1..n |-> s[q[i]]]
  <1>1. n \in Nat /\ DOMAIN s = 1..n /\ \A i \in 1..n : s[i] \in S /\ q[i] \in 1..n
    BY LenProperties, ElementOfSeq
  <1> HIDE DEF n
  <1>2. r \in Seq(S) /\ Len(r) = n /\ DOMAIN r = 1..n
    <2>1. r \in [1..n -> S]
      BY <1>1
    <2> HIDE DEF r
    <2> QED BY <1>1, <2>1, FunctionIsSeq
  <1>3. \A k \in 1..n : \E i \in 1..n : q[i] = k
    <2>1. q \in [1..n -> 1..n] /\ \A i, j \in 1..n : i < j => q[i] # q[j]
      BY <1>1
    <2> QED BY <1>1, <2>1, ListsAll
  <1>4. ToSet(r) = ToSet(s)
    <2>1. \A i \in 1..n : r[i] = s[q[i]] /\ q[i] \in 1..n
      BY <1>1
    <2> HIDE DEF r
    <2>2. \A k \in 1..n : \E i \in 1..n : r[i] = s[k]
      BY <1>3, <2>1
    <2>3. ToSet(r) = {r[i] : i \in 1..n} /\ ToSet(s) = {s[i] : i \in 1..n}
      BY <1>1, <1>2 DEF ToSet
    <2>4. \A i \in 1..n : r[i] \in {s[k] : k \in 1..n}
      BY <2>1
    <2>5. \A k \in 1..n : s[k] \in {r[i] : i \in 1..n}
      BY <2>2
    <2>6. {r[i] : i \in 1..n} = {s[k] : k \in 1..n}
      BY <2>4, <2>5, Zenon
    <2> QED BY <2>3, <2>6
  <1>5. [i \in DOMAIN s |-> s[q[i]]] = r
    BY <1>1
  <1> HIDE DEF r
  <1> QED BY <1>2, <1>4, <1>5 DEF n

(* The positions of a list can be listed along an order of them. *)
LEMMA PositionsArranged ==
  ASSUME NEW n \in Nat, NEW R, IsStrictOrder(R, 1..n)
  PROVE  \E q \in [1..n -> 1..n] :
           \A i, j \in 1..n : i < j => q[i] # q[j] /\ <<q[j], q[i]>> \notin R
  <1>1. IsFiniteSet(1..n) /\ Cardinality(1..n) = n
    <2>1. IsFiniteSet(1..n) /\ Cardinality(1..n) = IF 1 > n THEN 0 ELSE n - 1 + 1
      BY FS_Interval
    <2> QED BY <2>1
  <1>2. PICK e \in [1..n -> 1..n] : Arranged(e, R)
    BY <1>1, ArrangementExists
  <1> QED BY <1>2 DEF Arranged

-----------------------------------------------------------------------------
(* FoldLeft folds the elements of a sequence in the order of their positions:
   the last position of 1..k is k. *)
LEMMA LastPosition ==
  ASSUME NEW n \in Nat
  PROVE  /\ \A s \in SUBSET (1..n) : s # {} => Max(s) \in s
         /\ \A k \in 1..n : Max(1..k) = k /\ (1..k) \ {k} = 1..(k - 1)
  <1>1. ASSUME NEW s \in SUBSET (1..n), s # {} PROVE Max(s) \in s /\ \A y \in s : Max(s) >= y
    <2>1. IsFiniteSet(s) /\ s \in SUBSET Int
      <3>1. IsFiniteSet(1..n)
        BY FS_Interval
      <3>2. IsFiniteSet(s)
        BY <3>1, FS_Subset
      <3> QED BY <3>2
    <2>2. \E x \in s : \A y \in s : x >= y
      BY <1>1, <2>1, LargestExists
    <2> QED BY <2>2 DEF Max
  <1>2. ASSUME NEW k \in 1..n PROVE Max(1..k) = k
    <2>1. k \in 1..k /\ 1..k \in SUBSET (1..n) /\ 1..k # {}
      OBVIOUS
    <2>2. Max(1..k) \in 1..k /\ Max(1..k) >= k
      BY <1>1, <2>1
    <2> QED BY <2>2
  <1> QED BY <1>1, <1>2

(* F satisfies the equation of FoldLeft. *)
IsFoldLeft(F, base, step, seq) ==
  \A s \in SUBSET DOMAIN seq :
    F[s] = IF s = {} THEN base ELSE step[<<F[s \ {Max(s)}], seq[Max(s)]>>]

(* Some function does. *)
LEMMA FoldLeftExists ==
  ASSUME NEW V, NEW D, NEW base \in V, NEW step \in [V \X D -> V], NEW seq \in Seq(D)
  PROVE  \E F \in [SUBSET DOMAIN seq -> V] : IsFoldLeft(F, base, step, seq)
  <1> DEFINE S == DOMAIN seq
             c == [s \in SUBSET S |-> Max(s)]
             at == [p \in V \X S |-> step[<<p[1], seq[p[2]]>>]]
  <1>1. S = 1..Len(seq) /\ IsFiniteSet(S)
    BY LenProperties, FS_Interval
  <1>2. \A s \in SUBSET S : s # {} => c[s] = Max(s) /\ c[s] \in s
    BY <1>1, LenProperties, LastPosition
  <1>3. at \in [V \X S -> V]
    BY ElementOfSeq
  <1> HIDE DEF c, at, S
  <1>4. PICK F \in [SUBSET S -> V] : IsFold(F, SUBSET S, base, c, at)
    <2>1. \A s \in SUBSET S : s # {} => c[s] \in s
      BY <1>2
    <2> QED BY <1>1, <1>3, <2>1, FoldExists
  <1>5. \A s \in SUBSET S : s # {} =>
          at[<<F[s \ {c[s]}], c[s]>>] = step[<<F[s \ {Max(s)}], seq[Max(s)]>>]
    BY <1>2 DEF at
  <1> QED BY <1>4, <1>5 DEF S, IsFold, IsFoldLeft

(* The element folded last is one of the sequence. *)
LEMMA LastElement ==
  ASSUME NEW D, NEW seq \in Seq(D), NEW s \in SUBSET DOMAIN seq, s # {}
  PROVE  seq[Max(s)] \in D /\ s \ {Max(s)} \in SUBSET DOMAIN seq
  <1>1. Len(seq) \in Nat /\ DOMAIN seq = 1..Len(seq) /\ \A i \in 1..Len(seq) : seq[i] \in D
    BY LenProperties, ElementOfSeq
  <1> QED BY <1>1, LastPosition

(* v is what step makes of the elements of seq one after the other. *)
Folded(v, V, base, step, seq) ==
  \E acc \in [0..Len(seq) -> V] :
    /\ acc[0] = base
    /\ \A k \in 1..Len(seq) : acc[k] = step[<<acc[k - 1], seq[k]>>]
    /\ v = acc[Len(seq)]

(* What satisfies the equation of FoldLeft, as far as it stays in V, is such
   a value. *)
LEMMA FoldLeftFolded ==
  ASSUME NEW V, NEW D, NEW base \in V, NEW step \in [V \X D -> V], NEW seq \in Seq(D),
         NEW F, F[{}] = base,
         \A s \in SUBSET DOMAIN seq :
           s # {} /\ F[s \ {Max(s)}] \in V => F[s] = step[<<F[s \ {Max(s)}], seq[Max(s)]>>]
  PROVE  Folded(F[DOMAIN seq], V, base, step, seq)
  <1> DEFINE n == Len(seq)
             N == {k \in Nat : k <= n => F[1..k] \in V}
             acc == [k \in 0..n |-> F[1..k]]
  <1>1. n \in Nat /\ DOMAIN seq = 1..n /\ 1..0 = {} /\ \A k \in 1..n : seq[k] \in D
    BY LenProperties, ElementOfSeq
  <1>2. ASSUME NEW k \in 1..n, F[1..(k - 1)] \in V
        PROVE  F[1..k] = step[<<F[1..(k - 1)], seq[k]>>] /\ F[1..k] \in V
    <2>1. 1..k \in SUBSET DOMAIN seq /\ 1..k # {}
      <3>1. \A i \in 1..k : i \in 1..n
        BY <1>1
      <3>2. k \in 1..k
        BY <1>1
      <3> HIDE DEF n
      <3> QED BY <1>1, <3>1, <3>2
    <2>2. Max(1..k) = k /\ (1..k) \ {k} = 1..(k - 1)
      BY <1>1, LastPosition
    <2>3. F[1..k] = step[<<F[1..(k - 1)], seq[k]>>]
      BY <1>2, <2>1, <2>2
    <2> QED BY <1>1, <1>2, <2>3
  <1>3. N = Nat
    <2>1. 0 \in N
      BY <1>1
    <2>2. ASSUME NEW k \in N PROVE k + 1 \in N
      <3> SUFFICES ASSUME k + 1 <= n PROVE F[1..(k + 1)] \in V
        OBVIOUS
      <3>1. k \in Nat /\ (k + 1) - 1 = k /\ k + 1 \in 1..n /\ F[1..k] \in V
        BY <1>1
      <3> HIDE DEF N, n
      <3>2. F[1..((k + 1) - 1)] \in V
        BY <3>1
      <3> QED BY <3>1, <3>2, <1>2
    <2>3. N \in SUBSET Nat
      OBVIOUS
    <2> HIDE DEF N
    <2> QED BY <2>1, <2>2, <2>3, NatSet
  <1>4. \A k \in 0..n : F[1..k] \in V
    BY <1>3
  <1>5. acc \in [0..n -> V]
    BY <1>4
  <1>6. acc[0] = base /\ acc[n] = F[DOMAIN seq]
    BY <1>1
  <1>7. \A k \in 1..n : acc[k] = step[<<acc[k - 1], seq[k]>>]
    <2> SUFFICES ASSUME NEW k \in 1..n PROVE acc[k] = step[<<acc[k - 1], seq[k]>>]
      OBVIOUS
    <2>1. k - 1 \in 0..n /\ k \in 0..n
      BY <1>1
    <2>2. acc[k] = F[1..k] /\ acc[k - 1] = F[1..(k - 1)]
      BY <2>1
    <2> QED BY <1>2, <1>4, <2>1, <2>2
  <1> HIDE DEF acc
  <1> QED BY <1>5, <1>6, <1>7 DEF Folded

(* What is folded of no element, and of one element more. *)
LEMMA FoldedOfNone ==
  ASSUME NEW V, NEW base, NEW step, NEW v, Folded(v, V, base, step, <<>>)
  PROVE  v = base
  BY DEF Folded

(* The fold over one element more. *)
LEMMA FoldedOfMore ==
  ASSUME NEW V, NEW D, NEW base, NEW step, NEW seq \in Seq(D), NEW x \in D, NEW v, NEW w,
         Folded(v, V, base, step, seq), Folded(w, V, base, step, Append(seq, x))
  PROVE  v \in V /\ w = step[<<v, x>>]
  <1> DEFINE n == Len(seq)
             seq2 == Append(seq, x)
  <1>1. /\ n \in Nat /\ Len(seq2) = n + 1
        /\ \A k \in 1..n : seq2[k] = seq[k]
        /\ seq2[n + 1] = x
    BY LenProperties, AppendProperties
  <1>2. PICK a \in [0..n -> V] :
          /\ a[0] = base
          /\ \A k \in 1..n : a[k] = step[<<a[k - 1], seq[k]>>]
          /\ v = a[n]
    BY DEF Folded
  <1> HIDE DEF seq2, n
  <1>3. PICK b \in [0..(n + 1) -> V] :
          /\ b[0] = base
          /\ \A k \in 1..(n + 1) : b[k] = step[<<b[k - 1], seq2[k]>>]
          /\ w = b[n + 1]
    BY <1>1 DEF Folded, seq2
  <1> DEFINE N == {k \in Nat : k <= n => a[k] = b[k]}
  <1>4. N = Nat
    <2>1. 0 \in N
      BY <1>2, <1>3
    <2>2. ASSUME NEW k \in N PROVE k + 1 \in N
      <3> SUFFICES ASSUME k + 1 <= n PROVE a[k + 1] = b[k + 1]
        BY <1>1
      <3>1. /\ k \in Nat /\ (k + 1) - 1 = k
            /\ k + 1 \in 1..n /\ k + 1 \in 1..(n + 1) /\ a[k] = b[k]
        BY <1>1
      <3> HIDE DEF N
      <3>2. a[k + 1] = step[<<a[(k + 1) - 1], seq[k + 1]>>]
        BY <3>1, <1>2
      <3>3. b[k + 1] = step[<<b[(k + 1) - 1], seq2[k + 1]>>]
        BY <3>1, <1>3
      <3> QED BY <3>1, <3>2, <3>3, <1>1
    <2>3. N \in SUBSET Nat
      OBVIOUS
    <2> HIDE DEF N
    <2> QED BY <2>1, <2>2, <2>3, NatSet
  <1>5. a[n] = b[n] /\ n \in 0..n
    BY <1>1, <1>4
  <1>6. b[n + 1] = step[<<b[n], seq2[n + 1]>>]
    BY <1>1, <1>3
  <1> QED BY <1>1, <1>2, <1>3, <1>5, <1>6

-----------------------------------------------------------------------------
(* F is the sum of f over each subset of S, in whatever order it is taken. *)
AddsUp(F, A, f) ==
  F[A] \in Nat /\ \A x \in A : F[A] = F[A \ {x}] + f[x]

IsSum(F, S, f) ==
  F[{}] = 0 /\ \A A \in SUBSET S : AddsUp(F, A, f)

(* SumFunction takes the elements in an order of its own; the order is of no
   effect. *)
LEMMA SumFunctionIsSum ==
  ASSUME NEW S, IsFiniteSet(S), NEW f \in [S -> Nat]
  PROVE  \E F : IsSum(F, S, f) /\ SumFunction(f) = F[S]
  <1> DEFINE c == [s \in SUBSET S |-> CHOOSE x \in s : TRUE]
             step == [p \in Nat \X S |-> f[p[2]] + p[1]]
             Sums(F) == F = [s \in SUBSET S |->
                               IF s = {} THEN 0
                               ELSE f[CHOOSE x \in s : TRUE] + F[s \ {CHOOSE x \in s : TRUE}]]
             F == CHOOSE g : Sums(g)
  <1>1. \A s \in SUBSET S : s # {} =>
          c[s] = (CHOOSE x \in s : TRUE) /\ c[s] \in s /\ c[s] \in S /\ s \ {c[s]} \in SUBSET S
    OBVIOUS
  <1>2. step \in [Nat \X S -> Nat]
    OBVIOUS
  <1>3. \A n \in Nat, x \in S : step[<<n, x>>] = f[x] + n
    OBVIOUS
  <1> HIDE DEF c, step
  <1>4. PICK G \in [SUBSET S -> Nat] : IsFold(G, SUBSET S, 0, c, step)
    BY <1>1, <1>2, FoldExists
  <1>5. Sums(G)
    <2>1. \A s \in SUBSET S : s # {} =>
            step[<<G[s \ {c[s]}], c[s]>>] =
              f[CHOOSE x \in s : TRUE] + G[s \ {CHOOSE x \in s : TRUE}]
      BY <1>1, <1>3
    <2> QED BY <1>4, <2>1 DEF IsFold
  <1>6. Sums(F)
    BY <1>5
  <1>7. SumFunction(f) = F[S]
    BY DEF SumFunction, SumFunctionOnSet, FoldFunctionOnSet, MapThenFoldSet
  <1> HIDE DEF F
  <1>8. /\ F[{}] = 0 /\ F = [s \in SUBSET S |-> F[s]]
        /\ \A s \in SUBSET S : s # {} => F[s] = f[c[s]] + F[s \ {c[s]}]
    BY <1>1, <1>6
  <1> HIDE DEF Sums
  <1> DEFINE N == {n \in Nat : \A A \in SUBSET S : Cardinality(A) <= n => AddsUp(F, A, f)}
  <1>9. \A A \in SUBSET S : /\ IsFiniteSet(A) /\ Cardinality(A) \in Nat
                            /\ Cardinality(A) = 0 <=> A = {}
                            /\ \A x \in A : Cardinality(A \ {x}) = Cardinality(A) - 1
    BY FS_Subset, FS_CardinalityType, FS_EmptySet, FS_RemoveElement
  <1>10. 0 \in N
    <2> SUFFICES ASSUME NEW A \in SUBSET S, Cardinality(A) <= 0 PROVE AddsUp(F, A, f)
      OBVIOUS
    <2>1. A = {}
      BY <1>9
    <2> QED BY <1>8, <2>1 DEF AddsUp
  <1>11. ASSUME NEW n \in N PROVE n + 1 \in N
    <2> HIDE DEF F
    <2> SUFFICES ASSUME NEW A \in SUBSET S, Cardinality(A) <= n + 1, A # {} PROVE AddsUp(F, A, f)
      <3>1. AddsUp(F, {}, f)
        BY <1>8 DEF AddsUp
      <3>2. n + 1 \in Nat
        OBVIOUS
      <3> QED BY <3>1, <3>2, Zenon
    <2>1. n \in Nat /\ \A B \in SUBSET S : Cardinality(B) <= n => AddsUp(F, B, f)
      OBVIOUS
    <2> DEFINE z == c[A]
    <2>2. z \in A /\ F[A] = f[z] + F[A \ {z}] /\ f[z] \in Nat
      BY <1>1, <1>8
    <2> HIDE DEF z, N
    <2>3. \A x \in A : A \ {x} \in SUBSET S /\ Cardinality(A \ {x}) <= n /\ f[x] \in Nat
      BY <1>9, <2>1
    <2>4. \A x \in A : AddsUp(F, A \ {x}, f)
      BY <2>1, <2>3
    <2>5. F[A \ {z}] \in Nat
      BY <2>2, <2>4 DEF AddsUp
    <2>6. ASSUME NEW x \in A, x # z PROVE F[A] = F[A \ {x}] + f[x]
      <3>1. (A \ {z}) \ {x} = (A \ {x}) \ {z} /\ x \in A \ {z} /\ z \in A \ {x}
        BY <2>2, <2>6
      <3>2. F[A \ {z}] = F[(A \ {z}) \ {x}] + f[x] /\ F[A \ {x}] = F[(A \ {x}) \ {z}] + f[z]
        BY <2>2, <2>4, <3>1 DEF AddsUp
      <3>3. F[(A \ {x}) \ {z}] \in Nat /\ f[x] \in Nat
        <4>1. (A \ {x}) \ {z} \in SUBSET S /\ Cardinality((A \ {x}) \ {z}) <= n
          <5>1. Cardinality(A \ {x}) \in Nat /\ Cardinality((A \ {x}) \ {z}) = Cardinality(A \ {x}) - 1
            BY <1>9, <2>3, <3>1
          <5> QED BY <2>1, <2>3, <5>1
        <4> QED BY <2>1, <2>3, <4>1 DEF AddsUp
      <3> DEFINE u == F[(A \ {x}) \ {z}]
      <3>4. F[A] = f[z] + (u + f[x]) /\ F[A \ {x}] = u + f[z] /\ u \in Nat
        BY <2>2, <3>1, <3>2, <3>3
      <3> HIDE DEF u
      <3> QED BY <2>2, <3>3, <3>4
    <2>7. F[A] \in Nat /\ F[A] = F[A \ {z}] + f[z]
      BY <2>2, <2>5
    <2> QED BY <2>6, <2>7 DEF AddsUp
  <1>12. N = Nat
    <2>1. N \in SUBSET Nat
      OBVIOUS
    <2> HIDE DEF N
    <2> QED BY <1>10, <1>11, <2>1, NatSet
  <1>13. Cardinality(S) \in Nat /\ \A A \in SUBSET S : Cardinality(A) <= Cardinality(S)
    BY FS_Subset, FS_CardinalityType
  <1>14. \A A \in SUBSET S : AddsUp(F, A, f)
    <2> HIDE DEF F
    <2>1. Cardinality(S) \in N
      BY <1>12, <1>13
    <2> QED BY <1>13, <2>1
  <1>15. IsSum(F, S, f)
    BY <1>8, <1>14 DEF IsSum
  <1> QED BY <1>7, <1>15

(* One element less. *)
LEMMA SumOfRemoved ==
  ASSUME NEW S, IsFiniteSet(S), NEW f \in [S -> Nat], NEW x \in S,
         NEW g \in [S \ {x} -> Nat], \A y \in S \ {x} : g[y] = f[y]
  PROVE  /\ SumFunction(g) \in Nat
         /\ SumFunction(f) = SumFunction(g) + f[x]
  <1> DEFINE R == S \ {x}
  <1>1. IsFiniteSet(R)
    BY FS_RemoveElement
  <1>2. PICK F : IsSum(F, S, f) /\ SumFunction(f) = F[S]
    BY SumFunctionIsSum
  <1>3. PICK G : IsSum(G, R, g) /\ SumFunction(g) = G[R]
    BY <1>1, SumFunctionIsSum
  <1> DEFINE T == {A \in SUBSET R : F[A] = G[A]}
  <1>4. T = SUBSET R
    <2>1. {} \in T /\ T \in SUBSET SUBSET R
      BY <1>2, <1>3 DEF IsSum, AddsUp
    <2>2. ASSUME NEW A \in T, NEW y \in R \ A PROVE A \cup {y} \in T
      <3>1. A \cup {y} \in SUBSET R /\ A \cup {y} \in SUBSET S /\ (A \cup {y}) \ {y} = A /\ y \in A \cup {y}
        OBVIOUS
      <3>2. AddsUp(F, A \cup {y}, f) /\ AddsUp(G, A \cup {y}, g)
        BY <1>2, <1>3, <3>1 DEF IsSum
      <3>3. F[A \cup {y}] = F[A] + f[y] /\ G[A \cup {y}] = G[A] + g[y]
        BY <3>1, <3>2 DEF AddsUp
      <3> QED BY <3>1, <3>3
    <2> HIDE DEF T
    <2> QED BY <1>1, <2>1, <2>2, FiniteSubsets
  <1>5. F[R] = G[R] /\ G[R] \in Nat
    BY <1>3, <1>4 DEF IsSum, AddsUp
  <1>6. F[S] = F[R] + f[x]
    BY <1>2 DEF IsSum, AddsUp
  <1> QED BY <1>2, <1>3, <1>5, <1>6

(* A sum of natural numbers is one, and is 0 over the empty set. *)
LEMMA SumType ==
  ASSUME NEW S, IsFiniteSet(S), NEW f \in [S -> Nat]
  PROVE  SumFunction(f) \in Nat /\ (S = {} => SumFunction(f) = 0)
  <1>1. PICK F : IsSum(F, S, f) /\ SumFunction(f) = F[S]
    BY SumFunctionIsSum
  <1> QED BY <1>1 DEF IsSum, AddsUp

(* Another value for one element, or an element more, that counts as 0 before. *)
LEMMA SumOfUpdated ==
  ASSUME NEW S, IsFiniteSet(S), NEW f \in [S -> Nat], NEW x, NEW k \in Nat,
         NEW g \in [S \cup {x} -> Nat],
         \A y \in S \ {x} : g[y] = f[y],
         g[x] = (IF x \in S THEN f[x] ELSE 0) + k
  PROVE  SumFunction(g) = SumFunction(f) + k
  <1> DEFINE U == S \cup {x}
             h == [y \in S \ {x} |-> f[y]]
  <1>1. IsFiniteSet(U) /\ x \in U /\ U \ {x} = S \ {x} /\ h \in [S \ {x} -> Nat]
    BY FS_AddElement
  <1>2. SumFunction(h) \in Nat /\ SumFunction(g) = SumFunction(h) + g[x]
    <2>1. h \in [U \ {x} -> Nat] /\ \A y \in U \ {x} : h[y] = g[y]
      BY <1>1
    <2> HIDE DEF h, U
    <2> QED BY <1>1, <2>1, SumOfRemoved DEF U
  <1>3. CASE x \in S
    <2>1. SumFunction(f) = SumFunction(h) + f[x]
      <3>1. \A y \in S \ {x} : h[y] = f[y]
        OBVIOUS
      <3> HIDE DEF h
      <3>2. ASSUME NEW z \in S, h \in [S \ {z} -> Nat], \A y \in S \ {z} : h[y] = f[y]
            PROVE  SumFunction(f) = SumFunction(h) + f[z]
        BY <3>2, SumOfRemoved
      <3> QED BY <1>1, <1>3, <3>1, <3>2
    <2>2. f[x] \in Nat /\ g[x] = f[x] + k
      BY <1>3
    <2> HIDE DEF h
    <2> QED BY <1>2, <2>1, <2>2
  <1>4. CASE x \notin S
    <2>1. S \ {x} = S /\ h = f
      BY <1>4
    <2>2. SumFunction(h) = SumFunction(f)
      BY <2>1
    <2>3. g[x] = k
      BY <1>4
    <2> HIDE DEF h
    <2> QED BY <1>2, <2>2, <2>3
  <1> QED BY <1>3, <1>4

(* Sums are ordered as their elements are. *)
LEMMA SumOrdered ==
  ASSUME NEW S, IsFiniteSet(S), NEW f \in [S -> Nat], NEW g \in [S -> Nat],
         \A x \in S : f[x] <= g[x]
  PROVE  SumFunction(f) <= SumFunction(g)
  <1>1. PICK F : IsSum(F, S, f) /\ SumFunction(f) = F[S]
    BY SumFunctionIsSum
  <1>2. PICK G : IsSum(G, S, g) /\ SumFunction(g) = G[S]
    BY SumFunctionIsSum
  <1> DEFINE T == {A \in SUBSET S : F[A] <= G[A]}
  <1>3. {} \in T /\ T \in SUBSET SUBSET S
    BY <1>1, <1>2 DEF IsSum, AddsUp
  <1>4. ASSUME NEW A \in T, NEW y \in S \ A PROVE A \cup {y} \in T
    <2>1. A \cup {y} \in SUBSET S /\ (A \cup {y}) \ {y} = A /\ y \in A \cup {y} /\ A \in SUBSET S
      OBVIOUS
    <2>2. /\ AddsUp(F, A \cup {y}, f) /\ AddsUp(G, A \cup {y}, g)
          /\ AddsUp(F, A, f) /\ AddsUp(G, A, g)
      BY <1>1, <1>2, <2>1 DEF IsSum
    <2>3. F[A \cup {y}] = F[A] + f[y] /\ G[A \cup {y}] = G[A] + g[y] /\ F[A] \in Nat /\ G[A] \in Nat
      BY <2>1, <2>2 DEF AddsUp
    <2>4. f[y] \in Nat /\ g[y] \in Nat /\ f[y] <= g[y] /\ F[A] <= G[A]
      OBVIOUS
    <2> QED BY <2>1, <2>4, <2>3
  <1>5. T = SUBSET S
    <2> HIDE DEF T
    <2> QED BY <1>3, <1>4, FiniteSubsets
  <1> QED BY <1>1, <1>2, <1>5
-----------------------------------------------------------------------------
(* What is reached from x by the steps of next, which N leads on from: every
   set that has x and that the steps do not leave has it. *)
ReachedFrom(S, N, next, x) ==
  {y \in S : \A C \in SUBSET S : x \in C /\ (\A z \in C \cap N : next[z] \in C) => y \in C}

(* G calls itself last, and once. *)
IsTailRecursive(G, S, N, next, out) ==
  \A x \in S : G[x] = IF x \in N THEN G[next[x]] ELSE out[x]

(* Such a function exists: its value is that of the first place outside of N,
   and arbitrary where the steps reach none. *)
LEMMA TailRecursion ==
  ASSUME NEW S, NEW V, NEW N \in SUBSET S, NEW next \in [N -> S],
         NEW out \in [S -> V], NEW stuck \in V
  PROVE  \E G \in [S -> V] : IsTailRecursive(G, S, N, next, out)
  <1> DEFINE Ends(x) == ReachedFrom(S, N, next, x) \ N
             G == [x \in S |-> IF Ends(x) = {} THEN stuck ELSE out[CHOOSE y \in Ends(x) : TRUE]]
  <1>1. ASSUME NEW x \in N PROVE Ends(x) = Ends(next[x])
    <2>1. x \in S /\ next[x] \in S
      OBVIOUS
    <2>2. ASSUME NEW y \in Ends(x) PROVE y \in Ends(next[x])
      <3>1. SUFFICES ASSUME NEW C \in SUBSET S, next[x] \in C, \A z \in C \cap N : next[z] \in C
                     PROVE  y \in C
        BY DEF ReachedFrom
      <3> DEFINE D == C \cup {x}
      <3>2. D \in SUBSET S /\ x \in D /\ \A z \in D \cap N : next[z] \in D
        BY <2>1, <3>1
      <3>3. y \in D
        BY <3>2 DEF ReachedFrom
      <3> QED BY <3>3
    <2>3. ASSUME NEW y \in Ends(next[x]) PROVE y \in Ends(x)
      <3>1. SUFFICES ASSUME NEW C \in SUBSET S, x \in C, \A z \in C \cap N : next[z] \in C
                     PROVE  y \in C
        BY DEF ReachedFrom
      <3>2. next[x] \in C
        BY <3>1
      <3> QED BY <3>1, <3>2 DEF ReachedFrom
    <2> HIDE DEF Ends
    <2> QED BY <2>2, <2>3, Zenon
  <1>2. ASSUME NEW x \in S \ N PROVE Ends(x) = {x}
    <2>1. x \in Ends(x)
      BY DEF ReachedFrom
    <2>2. ASSUME NEW y \in Ends(x) PROVE y = x
      <3>1. {x} \in SUBSET S /\ x \in {x} /\ \A z \in {x} \cap N : next[z] \in {x}
        OBVIOUS
      <3>2. y \in {x}
        BY <3>1 DEF ReachedFrom
      <3> QED BY <3>2
    <2> HIDE DEF Ends
    <2> QED BY <2>1, <2>2, Zenon
  <1>3. \A x \in S : Ends(x) \in SUBSET S
    BY DEF ReachedFrom
  <1> HIDE DEF Ends
  <1>4. G \in [S -> V]
    <2>1. ASSUME NEW x \in S, Ends(x) # {} PROVE out[CHOOSE y \in Ends(x) : TRUE] \in V
      <3>1. (CHOOSE y \in Ends(x) : TRUE) \in Ends(x)
        BY <2>1
      <3> QED BY <1>3, <3>1
    <2> QED BY <2>1
  <1>5. ASSUME NEW x \in S PROVE G[x] = IF x \in N THEN G[next[x]] ELSE out[x]
    <2>1. CASE x \in N
      <3>1. next[x] \in S /\ Ends(x) = Ends(next[x])
        BY <1>1, <2>1
      <3> QED BY <2>1, <3>1
    <2>2. CASE x \notin N
      <3>1. Ends(x) = {x} /\ {x} # {} /\ (CHOOSE y \in {x} : TRUE) = x
        BY <1>2, <2>2
      <3> QED BY <2>2, <3>1
    <2> QED BY <2>1, <2>2
  <1>6. IsTailRecursive(G, S, N, next, out)
    BY <1>5 DEF IsTailRecursive
  <1> HIDE DEF G
  <1> QED BY <1>4, <1>6
=============================================================================
