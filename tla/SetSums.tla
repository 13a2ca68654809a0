-------------------------------- MODULE SetSums --------------------------------
(***************************************************************************)
(* Sums over finite sets, as MapThenSumSet of the community modules        *)
(* computes them: by taking elements out one at a time, in whatever order  *)
(* CHOOSE prefers.  The lemmas say that the order does not matter, so that *)
(* a proof about a ledger can add one entry to a sum.                      *)
(*                                                                         *)
(* Induction is over sets of numbers, not over a predicate: a set that     *)
(* holds 0 and with every number the next one holds them all, because what *)
(* is missing would have a least element.                                  *)
(***************************************************************************)
EXTENDS Integers, FiniteSets, FiniteSetsExt, FiniteSetTheorems, WellFoundedInduction, TLAPS

SumOf(f, S) == MapThenSumSet(LAMBDA x : f[x], S)

Least(T) == CHOOSE x \in T : TRUE

(* g has the sum of f over every subset of S.                              *)
IsSum(g, f, S) ==
  g = [T \in SUBSET S |-> IF T = {} THEN 0 ELSE f[Least(T)] + g[T \ {Least(T)}]]

-----------------------------------------------------------------------------
(* Every set of natural numbers has a least one.                           *)
LEMMA LeastElement ==
  ASSUME NEW T \in SUBSET Nat, T # {}
  PROVE  \E x \in T : \A y \in T : x <= y
  <1> DEFINE R == {p \in Nat \X Nat : p[1] < p[2]}
  <1>1. IsWellFoundedOn(OpToRel(<, Nat), Nat)
    BY NatLessThanWellFounded
  <1>2. OpToRel(<, Nat) = R
    BY DEF OpToRel
  <1>3. PICK x \in T : \A y \in T : ~(<<y, x>> \in R)
    <2> HIDE DEF R
    <2> QED BY <1>1, <1>2, WFMin
  <1>4. \A x1, y1 \in Nat : y1 < x1 => <<y1, x1>> \in R
    OBVIOUS
  <1> HIDE DEF R
  <1>5. x \in Nat /\ \A y \in T : y \in Nat
    OBVIOUS
  <1>6. \A y \in T : ~(y < x)
    BY <1>3, <1>4, <1>5
  <1> QED
    BY <1>5, <1>6

LEMMA Induction ==
  ASSUME NEW N, 0 \in N, \A n \in Nat : n \in N => n + 1 \in N
  PROVE  Nat \subseteq N
  <1> DEFINE T == Nat \ N
  <1> SUFFICES ASSUME T # {} PROVE FALSE
    OBVIOUS
  <1>1. PICK x \in T : \A y \in T : x <= y
    BY LeastElement
  <1>2. x - 1 \in Nat /\ x - 1 \notin T
    BY <1>1
  <1> QED
    BY <1>1, <1>2

-----------------------------------------------------------------------------
(* The parts of a finite set, one element smaller.                         *)
LEMMA Parts ==
  ASSUME NEW S, IsFiniteSet(S), NEW T \in SUBSET S
  PROVE  /\ Cardinality(T) \in Nat
         /\ Cardinality(T) <= Cardinality(S)
         /\ Cardinality(T) = 0 <=> T = {}
         /\ \A x \in T : /\ T \ {x} \in SUBSET S
                         /\ Cardinality(T \ {x}) = Cardinality(T) - 1
  <1>1. IsFiniteSet(T)
    BY FS_Subset
  <1>2. Cardinality(T) \in Nat
    BY <1>1, FS_CardinalityType
  <1>3. Cardinality(T) <= Cardinality(S)
    BY FS_Subset
  <1>4. Cardinality(T) = 0 <=> T = {}
    BY <1>1, FS_EmptySet
  <1>5. \A x \in T : Cardinality(T \ {x}) = Cardinality(T) - 1
    BY <1>1, FS_RemoveElement
  <1> QED
    BY <1>2, <1>3, <1>4, <1>5

LEMMA LeastIsIn == ASSUME NEW T, T # {} PROVE Least(T) \in T
  BY DEF Least

(* There are sums: those of the subsets of up to n elements give those of  *)
(* the subsets of n + 1.                                                   *)
LEMMA SumExists ==
  ASSUME NEW S, IsFiniteSet(S), NEW f, \A x \in S : f[x] \in Int
  PROVE  \E g \in [SUBSET S -> Int] : IsSum(g, f, S)
  <1> DEFINE Body(g, T) == IF T = {} THEN 0 ELSE f[Least(T)] + g[T \ {Least(T)}]
             Upto(n, g) == \A T \in SUBSET S : Cardinality(T) <= n => g[T] = Body(g, T)
             N == {n \in Nat : \E g \in [SUBSET S -> Int] : Upto(n, g)}
  <1>1. ASSUME NEW g \in [SUBSET S -> Int], NEW T \in SUBSET S
        PROVE  Body(g, T) \in Int
    BY Parts, LeastIsIn
  <1>2. 0 \in N
    <2> DEFINE zero == [T \in SUBSET S |-> 0]
    <2>1. \A T \in SUBSET S : Cardinality(T) <= 0 => T = {}
      BY Parts
    <2>2. zero \in [SUBSET S -> Int] /\ Upto(0, zero)
      BY <2>1
    <2> HIDE DEF zero, Upto
    <2> QED
      BY <2>2
  <1>3. ASSUME NEW n \in Nat, n \in N PROVE n + 1 \in N
    <2>1. PICK g \in [SUBSET S -> Int] : Upto(n, g)
      BY <1>3
    <2> DEFINE h == [T \in SUBSET S |-> IF Cardinality(T) <= n THEN g[T] ELSE Body(g, T)]
    <2>2. h \in [SUBSET S -> Int]
      BY <1>1
    <2>3. ASSUME NEW T \in SUBSET S, Cardinality(T) <= n + 1
          PROVE  h[T] = Body(h, T)
      <3>1. h[T] = Body(g, T)
        BY <2>1
      <3>2. CASE T = {}
        BY <3>1, <3>2
      <3>3. CASE T # {}
        <4> DEFINE P == T \ {Least(T)}
        <4>1. P \in SUBSET S /\ Cardinality(P) <= n
          BY <2>3, <3>3, Parts, LeastIsIn
        <4>2. h[P] = g[P]
          BY <4>1
        <4> QED
          BY <3>1, <3>3, <4>2
      <3> QED
        BY <3>2, <3>3
    <2>4. Upto(n + 1, h)
      BY <2>3
    <2> HIDE DEF h, Upto
    <2> QED
      BY <2>2, <2>4
  <1>4. Nat \subseteq N
    <2> HIDE DEF N
    <2> QED BY <1>2, <1>3, Induction
  <1>5. Cardinality(S) \in Nat
    BY Parts
  <1>6. PICK g \in [SUBSET S -> Int] : Upto(Cardinality(S), g)
    BY <1>4, <1>5
  <1>7. \A T \in SUBSET S : g[T] = Body(g, T)
    BY <1>6, Parts
  <1>8. g = [T \in SUBSET S |-> Body(g, T)]
    <2> HIDE DEF Body
    <2> QED BY <1>7
  <1> QED
    BY <1>8 DEF IsSum

(* The sum of a set depends on the values of its elements only, not on the *)
(* set it was computed within.                                             *)
LEMMA SumIsUnique ==
  ASSUME NEW U, NEW S \in SUBSET U, IsFiniteSet(S), NEW e, NEW f, \A x \in S : e[x] = f[x],
         NEW g, IsSum(g, e, S), NEW h, IsSum(h, f, U)
  PROVE  g[S] = h[S]
  <1> DEFINE N == {n \in Nat : \A T \in SUBSET S : Cardinality(T) = n => g[T] = h[T]}
  <1>1. 0 \in N
    BY Parts DEF IsSum
  <1>2. ASSUME NEW n \in Nat, n \in N PROVE n + 1 \in N
    <2> SUFFICES ASSUME NEW T \in SUBSET S, Cardinality(T) = n + 1 PROVE g[T] = h[T]
      OBVIOUS
    <2> DEFINE x == Least(T)
    <2>1. T # {} /\ x \in T /\ T \ {x} \in SUBSET S /\ Cardinality(T \ {x}) = n
      BY Parts, LeastIsIn
    <2>2. g[T \ {x}] = h[T \ {x}]
      BY <1>2, <2>1
    <2>3. g[T] = e[x] + g[T \ {x}]
      BY <2>1 DEF IsSum
    <2>4. h[T] = f[x] + h[T \ {x}]
      <3>1. T \in SUBSET U
        OBVIOUS
      <3> QED BY <2>1, <3>1 DEF IsSum
    <2>5. e[x] = f[x]
      BY <2>1
    <2> QED
      BY <2>2, <2>3, <2>4, <2>5
  <1>3. Nat \subseteq N
    <2> HIDE DEF N
    <2> QED BY <1>1, <1>2, Induction
  <1> QED
    BY <1>3, Parts

(* Whatever element is taken out first, the sum is the same.               *)
LEMMA SumOfAny ==
  ASSUME NEW S, IsFiniteSet(S), NEW f, \A x \in S : f[x] \in Int,
         NEW g, IsSum(g, f, S)
  PROVE  \A T \in SUBSET S : /\ g[T] \in Int
                             /\ \A x \in T : g[T] = f[x] + g[T \ {x}]
  <1> DEFINE Good(T) == g[T] \in Int /\ \A x \in T : g[T] = f[x] + g[T \ {x}]
             N == {n \in Nat : \A T \in SUBSET S : Cardinality(T) <= n => Good(T)}
  <1>1. 0 \in N
    <2>1. \A T \in SUBSET S : Cardinality(T) <= 0 => T = {}
      BY Parts
    <2>2. g[{}] = 0
      BY DEF IsSum
    <2>3. Good({})
      BY <2>2
    <2> HIDE DEF Good
    <2> QED
      BY <2>1, <2>3
  <1>2. ASSUME NEW n \in Nat, n \in N PROVE n + 1 \in N
    <2>0. SUFFICES ASSUME NEW T \in SUBSET S, Cardinality(T) = n + 1 PROVE Good(T)
      <3>1. \A T \in SUBSET S : Cardinality(T) <= n + 1 =>
              Cardinality(T) <= n \/ Cardinality(T) = n + 1
        BY Parts
      <3> HIDE DEF Good
      <3> QED BY <1>2, <3>1
    <2> DEFINE y == Least(T)
    <2>1. T # {} /\ y \in T
      BY <2>0, Parts, LeastIsIn
    <2>2. \A x \in T : T \ {x} \in SUBSET S /\ Cardinality(T \ {x}) = n
      BY <2>0, Parts
    <2>3. \A x \in T : Good(T \ {x})
      BY <1>2, <2>2
    <2>4. g[T] = f[y] + g[T \ {y}]
      BY <2>1 DEF IsSum
    <2>5. ASSUME NEW x \in T, x # y PROVE g[T] = f[x] + g[T \ {x}]
      <3> DEFINE R == T \ {x, y}
      <3>1. (T \ {y}) \ {x} = R /\ (T \ {x}) \ {y} = R
        OBVIOUS
      <3>2. g[T \ {y}] = f[x] + g[R] /\ g[T \ {x}] = f[y] + g[R]
        BY <2>1, <2>3, <2>5, <3>1
      <3>3. R \in SUBSET S
        OBVIOUS
      <3>4. f[x] \in Int /\ f[y] \in Int /\ g[T \ {x}] \in Int /\ g[T \ {y}] \in Int
        BY <2>1, <2>3
      <3>5. g[R] \in Int
        <4>1. Cardinality(T \ {y}) = n /\ T \ {y} \in SUBSET S /\ x \in T \ {y}
          BY <2>1, <2>2, <2>5
        <4>2. Cardinality(R) = n - 1
          BY <3>1, <4>1, Parts
        <4>3. Cardinality(R) <= n
          BY <4>2
        <4> QED BY <1>2, <3>3, <4>3
      <3> HIDE DEF R, y
      <3> QED
        BY <2>4, <3>2, <3>4, <3>5
    <2>6. g[T] \in Int
      <3>1. y \in S /\ f[y] \in Int
        BY <2>1
      <3>2. g[T \ {y}] \in Int
        BY <2>1, <2>3
      <3> HIDE DEF y
      <3> QED BY <2>4, <3>1, <3>2
    <2>7. ASSUME NEW x \in T PROVE g[T] = f[x] + g[T \ {x}]
      <3> HIDE DEF y
      <3>1. CASE x = y
        BY <2>4, <3>1
      <3>2. CASE x # y
        BY <2>5, <3>2
      <3> QED BY <3>1, <3>2
    <2> HIDE DEF y
    <2> QED
      BY <2>6, <2>7
  <1>3. Nat \subseteq N
    <2> HIDE DEF N
    <2> QED BY <1>1, <1>2, Induction
  <1> HIDE DEF Good
  <1>4. \A T \in SUBSET S : Good(T)
    BY <1>3, Parts
  <1> QED
    BY <1>4 DEF Good

-----------------------------------------------------------------------------
(* The sum that MapThenSumSet computes is one of these.                    *)
LEMMA SumOfIsSum ==
  ASSUME NEW S, IsFiniteSet(S), NEW f, \A x \in S : f[x] \in Int
  PROVE  \E g : IsSum(g, f, S) /\ SumOf(f, S) = g[S]
  <1> DEFINE iter[T \in SUBSET S] ==
               IF T = {} THEN 0 ELSE LET x == CHOOSE x \in T : TRUE IN f[x] + iter[T \ {x}]
  <1>1. SumOf(f, S) = iter[S]
    BY DEF SumOf, MapThenSumSet, MapThenFoldSet
  <1>2. IsSum(iter, f, S)
    <2>1. iter = CHOOSE g : g = [T \in SUBSET S |->
                   IF T = {} THEN 0 ELSE f[Least(T)] + g[T \ {Least(T)}]]
      BY DEF Least
    <2> HIDE DEF iter
    <2>2. \E g : g = [T \in SUBSET S |-> IF T = {} THEN 0 ELSE f[Least(T)] + g[T \ {Least(T)}]]
      <3>1. PICK g \in [SUBSET S -> Int] : IsSum(g, f, S)
        BY SumExists
      <3> QED BY <3>1 DEF IsSum
    <2> QED
      BY <2>1, <2>2 DEF IsSum
  <1> QED
    BY <1>1, <1>2

LEMMA SumOfNothing == ASSUME NEW f PROVE SumOf(f, {}) = 0
  <1>1. IsFiniteSet({})
    BY FS_EmptySet
  <1>2. PICK g : IsSum(g, f, {}) /\ SumOf(f, {}) = g[{}]
    BY <1>1, SumOfIsSum
  <1> QED
    BY <1>2 DEF IsSum

LEMMA SumOfTyped ==
  ASSUME NEW S, IsFiniteSet(S), NEW f, \A x \in S : f[x] \in Int
  PROVE  SumOf(f, S) \in Int
  BY SumOfIsSum, SumOfAny

(* One more element adds its value to the sum.                             *)
LEMMA SumOfOneMore ==
  ASSUME NEW S, IsFiniteSet(S), NEW f, NEW x, x \notin S, \A y \in S \cup {x} : f[y] \in Int
  PROVE  SumOf(f, S \cup {x}) = SumOf(f, S) + f[x]
  <1> DEFINE U == S \cup {x}
  <1>1. IsFiniteSet(U) /\ S \in SUBSET U /\ x \in U /\ U \ {x} = S
    BY FS_AddElement
  <1>2. PICK g : IsSum(g, f, S) /\ SumOf(f, S) = g[S]
    BY SumOfIsSum
  <1>3. PICK h : IsSum(h, f, U) /\ SumOf(f, U) = h[U]
    BY <1>1, SumOfIsSum
  <1>4. g[S] = h[S]
    <2> HIDE DEF U
    <2> QED BY <1>1, <1>2, <1>3, SumIsUnique
  <1>5. h[U] = f[x] + h[S] /\ h[S] \in Int
    <2>1. \A y \in U : f[y] \in Int
      OBVIOUS
    <2> HIDE DEF U
    <2>2. U \in SUBSET U
      OBVIOUS
    <2>3. \A T \in SUBSET U : h[T] \in Int /\ \A y \in T : h[T] = f[y] + h[T \ {y}]
      BY <1>1, <1>3, <2>1, SumOfAny
    <2> QED BY <1>1, <2>2, <2>3
  <1> QED
    BY <1>2, <1>3, <1>4, <1>5

(* The sum depends on the values of the elements only.                     *)
LEMMA SumOfSame ==
  ASSUME NEW S, IsFiniteSet(S), NEW e, NEW f, \A x \in S : e[x] = f[x] /\ f[x] \in Int
  PROVE  SumOf(e, S) = SumOf(f, S)
  <1>1. PICK g : IsSum(g, e, S) /\ SumOf(e, S) = g[S]
    BY SumOfIsSum
  <1>2. PICK h : IsSum(h, f, S) /\ SumOf(f, S) = h[S]
    BY SumOfIsSum
  <1>3. S \in SUBSET S
    OBVIOUS
  <1> QED
    BY <1>1, <1>2, <1>3, SumIsUnique
=============================================================================
