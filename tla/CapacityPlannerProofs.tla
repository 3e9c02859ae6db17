------------------------ MODULE CapacityPlannerProofs ------------------------
(***************************************************************************)
(* What the planner computes, for every valid request: the search reaches  *)
(* exactly the feasible assignments, each of them once; the rank orders    *)
(* them; the primary plan is the first of that order.                      *)
(***************************************************************************)
EXTENDS CapacityPlanner, SequenceTheorems, FiniteSetTheorems, TLAPS

-----------------------------------------------------------------------------
(* Induction and recursion over the natural numbers, in terms of sets      *)

LEMMA LeastOf ==
    ASSUME NEW S \in SUBSET Nat, S # {}
    PROVE  \E n \in S : \A m \in S : n <= m
<1>1. PICK n \in S : \A m \in S : <<m, n>> \notin OpToRel(<, Nat)
  BY WFMin, NatLessThanWellFounded
<1>2. \A m \in S : ~(m < n)
  BY <1>1 DEF OpToRel
<1> QED BY <1>2

\* A set of numbers with 0 in it and closed under successor has them all.
LEMMA Inductive ==
    ASSUME NEW T, 0 \in T, \A n \in Nat : n \in T => n + 1 \in T
    PROVE  \A n \in Nat : n \in T
<1> DEFINE rest == {n \in Nat : n \notin T}
<1>1. SUFFICES ASSUME rest # {} PROVE FALSE
  OBVIOUS
<1>2. PICK n \in rest : \A m \in rest : n <= m
  BY <1>1, LeastOf
<1>3. n # 0 /\ n - 1 \in Nat /\ n - 1 \notin rest
  BY <1>2
<1>4. (n - 1) + 1 \in T
  BY <1>3
<1> QED BY <1>2, <1>4

\* A value reached in steps, each of which depends on the one before.
LEMMA Recursion ==
    ASSUME NEW V, NEW base \in V, NEW N \in Nat, NEW step \in [1..N -> [V -> V]]
    PROVE  \E f \in [0..N -> V] : f[0] = base /\ \A n \in 1..N : f[n] = step[n][f[n - 1]]
<1> DEFINE Good(n, f) == f[0] = base /\ \A k \in 1..n : f[k] = step[k][f[k - 1]]
           Has(n) == \E f \in [0..n -> V] : Good(n, f)
           T == {n \in Nat : n <= N => Has(n)}
<1>1. 0 \in T
  <2> DEFINE only == [k \in 0..0 |-> base]
  <2>2. 0 \in 0..0 /\ \A k \in 1..0 : FALSE
    OBVIOUS
  <2>3. only \in [0..0 -> V] /\ only[0] = base
    BY <2>2
  <2> HIDE DEF only
  <2> QED BY <2>2, <2>3
<1>2. ASSUME NEW n \in Nat, n \in T PROVE n + 1 \in T
  <2> HIDE DEF Has
  <2>1. SUFFICES ASSUME n + 1 <= N PROVE Has(n + 1)
    OBVIOUS
  <2>2. PICK f \in [0..n -> V] : Good(n, f)
    BY <1>2, <2>1 DEF Has
  <2> DEFINE v == step[n + 1][f[n]]
             g == [k \in 0..(n + 1) |-> IF k = n + 1 THEN v ELSE f[k]]
  <2>3. f[n] \in V
    BY <2>2
  <2>4. v \in V
    BY <2>1, <2>3
  <2>5. g \in [0..(n + 1) -> V]
    BY <2>4
  <2>6. g[0] = base /\ \A k \in 1..n : g[k] = f[k] /\ g[k - 1] = f[k - 1]
    BY <2>2
  <2>7. g[n + 1] = v /\ g[(n + 1) - 1] = f[n]
    OBVIOUS
  <2>8. \A k \in 1..(n + 1) : k \in 1..n \/ k = n + 1
    OBVIOUS
  <2> HIDE DEF v, g
  <2>9. Good(n + 1, g)
    BY <2>2, <2>6, <2>7, <2>8 DEF v
  <2> QED BY <2>5, <2>9 DEF Has
<1> HIDE DEF T
<1>3. N \in T
  BY <1>1, <1>2, Inductive
<1> QED BY <1>3 DEF T

-----------------------------------------------------------------------------
(* Sums over finite sets                                                   *)

\* Subsets with one member less.
LEMMA OneLess ==
    ASSUME NEW S, IsFiniteSet(S), NEW T \in SUBSET S, NEW x \in T
    PROVE  /\ T \ {x} \in SUBSET S
           /\ Cardinality(T) \in Nat \ {0}
           /\ Cardinality(T \ {x}) = Cardinality(T) - 1
<1>1. IsFiniteSet(T) /\ Cardinality(T) \in Nat
  BY FS_Subset, FS_CardinalityType
<1>2. Cardinality(T) # 0
  BY <1>1, FS_EmptySet
<1>3. Cardinality(T \ {x}) = Cardinality(T) - 1
  BY <1>1, FS_RemoveElement
<1> QED BY <1>1, <1>2, <1>3

\* One step of a sum, over the member the library's definition picks.
SumStep(w, S, g) ==
    [s \in SUBSET S |-> IF s = {} THEN 0
                        ELSE w[CHOOSE x \in s : TRUE] + g[s \ {CHOOSE x \in s : TRUE}]]

\* The library's recursion for the sum of w over the subsets of a finite set has one solution.
LEMMA SumExists ==
    ASSUME NEW S, IsFiniteSet(S), NEW w \in [S -> Int]
    PROVE  \E h \in [SUBSET S -> Int] : h = SumStep(w, S, h)
<1> DEFINE V == [SUBSET S -> Int]
           N == Cardinality(S)
           M == N + 1
           zero == [s \in SUBSET S |-> 0]
           step == [n \in 1..M |-> [g \in V |-> SumStep(w, S, g)]]
<1>1. N \in Nat /\ M \in Nat /\ zero \in V
  BY FS_CardinalityType
<1>2. ASSUME NEW g \in V PROVE SumStep(w, S, g) \in V
  <2>1. ASSUME NEW s \in SUBSET S, s # {}
        PROVE  w[CHOOSE x \in s : TRUE] + g[s \ {CHOOSE x \in s : TRUE}] \in Int
    <3>1. (CHOOSE x \in s : TRUE) \in S
      BY <2>1
    <3>2. s \ {CHOOSE x \in s : TRUE} \in SUBSET S
      OBVIOUS
    <3>3. w[CHOOSE x \in s : TRUE] \in Int /\ g[s \ {CHOOSE x \in s : TRUE}] \in Int
      BY <3>1, <3>2
    <3> QED BY <3>3
  <2> QED BY <2>1 DEF SumStep
<1>3. step \in [1..M -> [V -> V]]
  BY <1>2
<1>4. \A n \in 1..M : \A g \in V : step[n][g] = SumStep(w, S, g)
  OBVIOUS
<1> HIDE DEF V, zero, step, M, N
<1>5. PICK f \in [0..M -> V] : f[0] = zero /\ \A n \in 1..M : f[n] = step[n][f[n - 1]]
  BY <1>1, <1>3, Recursion
<1>6. \A n \in 1..M : f[n] = SumStep(w, S, f[n - 1])
  <2> TAKE n \in 1..M
  <2>1. n - 1 \in 0..M
    BY <1>1
  <2> QED BY <1>4, <1>5, <2>1
<1> DEFINE T == {n \in Nat : n <= N => \A s \in SUBSET S : Cardinality(s) <= n => f[n][s] = f[n + 1][s]}
<1>7. 0 \in T
  <2> SUFFICES ASSUME NEW s \in SUBSET S, Cardinality(s) <= 0 PROVE f[0][s] = f[0 + 1][s]
    OBVIOUS
  <2>1. s = {}
    BY FS_Subset, FS_CardinalityType, FS_EmptySet
  <2>2. 1 \in 1..M /\ 1 - 1 = 0 /\ 0 + 1 = 1
    BY <1>1 DEF M
  <2>3. f[1] = SumStep(w, S, f[0])
    BY <1>6, <2>2
  <2>4. f[1][{}] = 0
    BY <2>3 DEF SumStep
  <2>5. f[0][{}] = 0
    BY <1>5 DEF zero
  <2> QED BY <2>1, <2>2, <2>4, <2>5
<1>8. ASSUME NEW n \in Nat, n \in T PROVE n + 1 \in T
  <2> SUFFICES ASSUME n + 1 <= N, NEW s \in SUBSET S, Cardinality(s) <= n + 1
               PROVE  f[n + 1][s] = f[(n + 1) + 1][s]
    OBVIOUS
  <2>1. f[n + 1] = SumStep(w, S, f[n]) /\ f[(n + 1) + 1] = SumStep(w, S, f[n + 1])
    <3>1. n + 1 \in 1..M /\ (n + 1) + 1 \in 1..M /\ (n + 1) - 1 = n /\ ((n + 1) + 1) - 1 = n + 1
      BY <1>1 DEF M
    <3> QED BY <1>6, <3>1
  <2>2. CASE s = {}
    BY <2>1, <2>2 DEF SumStep
  <2>3. CASE s # {}
    <3> DEFINE x == CHOOSE x \in s : TRUE
    <3>1. x \in s
      BY <2>3
    <3> HIDE DEF x
    <3>2. s \ {x} \in SUBSET S /\ Cardinality(s \ {x}) <= n
      <4>1. s \ {x} \in SUBSET S /\ Cardinality(s) \in Nat \ {0} /\ Cardinality(s \ {x}) = Cardinality(s) - 1
        BY <3>1, OneLess
      <4> QED BY <4>1
    <3>3. f[n][s \ {x}] = f[n + 1][s \ {x}]
      BY <1>1, <1>8, <3>2
    <3> QED BY <2>1, <2>3, <3>3 DEF SumStep, x
  <2> QED BY <2>2, <2>3
<1> HIDE DEF T
<1>9. N \in T
  BY <1>1, <1>7, <1>8, Inductive
<1>10. \A s \in SUBSET S : f[N][s] = f[M][s]
  <2>1. \A s \in SUBSET S : Cardinality(s) <= N
    BY FS_Subset DEF N
  <2> QED BY <1>1, <1>9, <2>1 DEF T, M
<1>11. f[N] \in V /\ f[M] \in V
  BY <1>1, <1>5 DEF M
<1>12. f[N] = f[M]
  BY <1>10, <1>11 DEF V
<1>13. f[M] = SumStep(w, S, f[N])
  BY <1>1, <1>6 DEF M
<1> QED BY <1>11, <1>12, <1>13 DEF V

LEMMA SumIsFold ==
    ASSUME NEW f
    PROVE  SumFunction(f) = (CHOOSE g : g = SumStep(f, DOMAIN f, g))[DOMAIN f]
  BY DEF SumFunction, SumFunctionOnSet, FoldFunctionOnSet, MapThenFoldSet, SumStep

\* Solutions for a set and for one of its subsets agree on the subset.
LEMMA SumUnique ==
    ASSUME NEW S, IsFiniteSet(S), NEW w \in [S -> Int], NEW h, h = SumStep(w, S, h),
           NEW T \in SUBSET S, NEW g, g = SumStep([x \in T |-> w[x]], T, g)
    PROVE  \A s \in SUBSET T : g[s] = h[s]
<1> DEFINE v == [x \in T |-> w[x]]
           A == {n \in Nat : \A s \in SUBSET T : Cardinality(s) = n => g[s] = h[s]}
<1>1. IsFiniteSet(T)
  BY FS_Subset
<1>2. 0 \in A
  <2> SUFFICES ASSUME NEW s \in SUBSET T, Cardinality(s) = 0 PROVE g[s] = h[s]
    OBVIOUS
  <2>1. s = {}
    BY <1>1, FS_Subset, FS_EmptySet
  <2> QED BY <2>1 DEF SumStep
<1>3. ASSUME NEW n \in Nat, n \in A PROVE n + 1 \in A
  <2> SUFFICES ASSUME NEW s \in SUBSET T, Cardinality(s) = n + 1 PROVE g[s] = h[s]
    OBVIOUS
  <2>1. s # {}
    BY FS_EmptySet
  <2> DEFINE x == CHOOSE x \in s : TRUE
  <2>2. x \in s
    BY <2>1
  <2>3. g[s] = v[x] + g[s \ {x}]
    BY <2>1 DEF SumStep
  <2>4. h[s] = w[x] + h[s \ {x}]
    BY <2>1 DEF SumStep
  <2> HIDE DEF x
  <2>5. s \ {x} \in SUBSET T /\ Cardinality(s \ {x}) = n
    BY <1>1, <2>2, OneLess
  <2>6. g[s \ {x}] = h[s \ {x}]
    BY <1>3, <2>5
  <2>7. v[x] = w[x]
    BY <2>2
  <2> HIDE DEF v
  <2> QED BY <2>3, <2>4, <2>6, <2>7
<1> HIDE DEF A
<1>4. \A n \in Nat : n \in A
  BY <1>2, <1>3, Inductive
<1>5. \A s \in SUBSET T : Cardinality(s) \in Nat
  BY <1>1, FS_Subset, FS_CardinalityType
<1> QED BY <1>4, <1>5 DEF A

\* The sum of w over a part of its domain.
SumOver(w, T) == SumFunction([x \in T |-> w[x]])

\* A sum does not depend on the order: any member may be taken out first.
LEMMA Sums ==
    ASSUME NEW S, IsFiniteSet(S), NEW w \in [S -> Int]
    PROVE  /\ SumOver(w, {}) = 0
           /\ \A T \in SUBSET S : SumOver(w, T) \in Int
           /\ \A T \in SUBSET S : \A x \in T : SumOver(w, T) = w[x] + SumOver(w, T \ {x})
<1>1. PICK h \in [SUBSET S -> Int] : h = SumStep(w, S, h)
  BY SumExists
<1>2. ASSUME NEW T \in SUBSET S PROVE SumOver(w, T) = h[T]
  <2> DEFINE v == [x \in T |-> w[x]]
             g == CHOOSE g : g = SumStep(v, T, g)
  <2>1. IsFiniteSet(T) /\ v \in [T -> Int]
    BY FS_Subset
  <2>2. \E f : f = SumStep(v, T, f)
    <3> HIDE DEF v
    <3> QED BY <2>1, SumExists
  <2>3. g = SumStep(v, T, g)
    <3> HIDE DEF v
    <3> QED BY <2>2
  <2>4. DOMAIN v = T
    OBVIOUS
  <2>5. SumFunction(v) = g[T]
    <3> HIDE DEF v
    <3> QED BY <2>4, SumIsFold
  <2> HIDE DEF g
  <2>6. g[T] = h[T]
    BY <1>1, <2>3, SumUnique
  <2> QED BY <2>5, <2>6 DEF SumOver
<1>3. h[{}] = 0
  BY <1>1 DEF SumStep
<1> DEFINE A == {n \in Nat : \A T \in SUBSET S : \A x \in T :
                                Cardinality(T) = n => h[T] = w[x] + h[T \ {x}]}
<1>4. 0 \in A
  BY OneLess
<1>5. ASSUME NEW n \in Nat, n \in A PROVE n + 1 \in A
  <2> SUFFICES ASSUME NEW T \in SUBSET S, NEW x \in T, Cardinality(T) = n + 1
               PROVE  h[T] = w[x] + h[T \ {x}]
    OBVIOUS
  <2> DEFINE c == CHOOSE c \in T : TRUE
  <2>1. c \in T
    OBVIOUS
  <2>2. h[T] = w[c] + h[T \ {c}]
    BY <1>1 DEF SumStep
  <2> HIDE DEF c
  <2>3. CASE x = c
    BY <2>2, <2>3
  <2>4. CASE x # c
    <3>1. T \ {c} \in SUBSET S /\ Cardinality(T \ {c}) = n
      BY <2>1, OneLess
    <3>2. T \ {x} \in SUBSET S /\ Cardinality(T \ {x}) = n
      BY OneLess
    <3>3. h[T \ {c}] = w[x] + h[(T \ {c}) \ {x}]
      BY <1>5, <2>4, <3>1
    <3>4. h[T \ {x}] = w[c] + h[(T \ {x}) \ {c}]
      BY <1>5, <2>1, <2>4, <3>2
    <3>5. (T \ {x}) \ {c} = (T \ {c}) \ {x} /\ (T \ {c}) \ {x} \in SUBSET S
      OBVIOUS
    <3>6. w[x] \in Int /\ w[c] \in Int /\ h[(T \ {c}) \ {x}] \in Int
      BY <1>1, <2>1, <3>5
    <3> DEFINE z == h[(T \ {c}) \ {x}]
    <3>7. h[T \ {c}] = w[x] + z /\ h[T \ {x}] = w[c] + z /\ z \in Int
      BY <3>3, <3>4, <3>5, <3>6
    <3> HIDE DEF z
    <3>8. h[T] = w[c] + (w[x] + z)
      BY <2>2, <3>7
    <3>9. w[c] + (w[x] + z) = w[x] + (w[c] + z)
      BY <3>6, <3>7
    <3> QED BY <3>7, <3>8, <3>9
  <2> QED BY <2>3, <2>4
<1> HIDE DEF A
<1>6. \A n \in Nat : n \in A
  BY <1>4, <1>5, Inductive
<1>7. ASSUME NEW T \in SUBSET S, NEW x \in T PROVE h[T] = w[x] + h[T \ {x}]
  <2>1. Cardinality(T) \in Nat
    BY FS_Subset, FS_CardinalityType
  <2> QED BY <1>6, <2>1 DEF A
<1> QED BY <1>1, <1>2, <1>3, <1>7

\* Sums of natural numbers are natural numbers and grow with the set.
LEMMA SumsGrow ==
    ASSUME NEW S, IsFiniteSet(S), NEW w \in [S -> Nat]
    PROVE  /\ \A T \in SUBSET S : SumOver(w, T) \in Nat
           /\ \A T \in SUBSET S : \A R \in SUBSET T : SumOver(w, R) <= SumOver(w, T)
<1>0. w \in [S -> Int]
  OBVIOUS
<1>1. /\ SumOver(w, {}) = 0
      /\ \A T \in SUBSET S : SumOver(w, T) \in Int
      /\ \A T \in SUBSET S : \A x \in T : SumOver(w, T) = w[x] + SumOver(w, T \ {x})
  BY <1>0, Sums
<1> DEFINE A == {n \in Nat : \A T \in SUBSET S : Cardinality(T) = n =>
                     SumOver(w, T) \in Nat /\ \A R \in SUBSET T : SumOver(w, R) <= SumOver(w, T)}
<1>2. 0 \in A
  <2> SUFFICES ASSUME NEW T \in SUBSET S, Cardinality(T) = 0
               PROVE  SumOver(w, T) \in Nat /\ \A R \in SUBSET T : SumOver(w, R) <= SumOver(w, T)
    OBVIOUS
  <2>1. T = {}
    BY FS_Subset, FS_EmptySet
  <2>2. \A R \in SUBSET T : R = {}
    BY <2>1
  <2>3. 0 <= 0
    OBVIOUS
  <2> QED BY <1>1, <2>1, <2>2, <2>3
<1>3. ASSUME NEW n \in Nat, n \in A PROVE n + 1 \in A
  <2> SUFFICES ASSUME NEW T \in SUBSET S, Cardinality(T) = n + 1
               PROVE  SumOver(w, T) \in Nat /\ \A R \in SUBSET T : SumOver(w, R) <= SumOver(w, T)
    OBVIOUS
  <2>1. T # {}
    BY FS_EmptySet
  <2>2. ASSUME NEW x \in T
        PROVE  /\ T \ {x} \in SUBSET S /\ w[x] \in Nat
               /\ SumOver(w, T) = w[x] + SumOver(w, T \ {x}) /\ SumOver(w, T \ {x}) \in Nat
               /\ \A R \in SUBSET (T \ {x}) : SumOver(w, R) <= SumOver(w, T \ {x})
    <3>1. T \ {x} \in SUBSET S /\ Cardinality(T \ {x}) = n
      BY OneLess
    <3>2. w[x] \in Nat
      OBVIOUS
    <3> QED BY <1>1, <1>3, <3>1, <3>2
  <2>3. SumOver(w, T) \in Nat
    <3>1. PICK x \in T : TRUE
      BY <2>1
    <3> DEFINE a == w[x]
               b == SumOver(w, T \ {x})
    <3>2. a \in Nat /\ b \in Nat /\ SumOver(w, T) = a + b
      BY <2>2
    <3> HIDE DEF a, b
    <3> QED BY <3>2
  <2>4. ASSUME NEW R \in SUBSET T PROVE SumOver(w, R) <= SumOver(w, T)
    <3>1. CASE R = T
      BY <2>3, <3>1
    <3>2. CASE R # T
      <4>1. PICK x \in T : x \notin R
        BY <3>2
      <4>2. R \in SUBSET (T \ {x}) /\ SumOver(w, R) \in Int
        BY <1>1, <4>1
      <4>3. SumOver(w, R) <= SumOver(w, T \ {x})
        BY <2>2, <4>2
      <4> DEFINE a == w[x]
                 b == SumOver(w, T \ {x})
                 r == SumOver(w, R)
      <4>4. a \in Nat /\ b \in Nat /\ r \in Int /\ SumOver(w, T) = a + b /\ r <= b
        BY <2>2, <4>2, <4>3
      <4> HIDE DEF a, b, r
      <4>5. r <= a + b
        BY <4>4
      <4> QED BY <4>4, <4>5 DEF r
    <3> QED BY <3>1, <3>2
  <2> QED BY <2>3, <2>4
<1> HIDE DEF A
<1>4. \A n \in Nat : n \in A
  BY <1>2, <1>3, Inductive
<1>5. \A T \in SUBSET S : Cardinality(T) \in Nat
  BY FS_Subset, FS_CardinalityType
<1> QED BY <1>4, <1>5 DEF A

-----------------------------------------------------------------------------
(* Finite sets in order                                                    *)

StrictOrder(S, less) ==
    /\ \A x \in S : <<x, x>> \notin less
    /\ \A x, y, z \in S : <<x, y>> \in less /\ <<y, z>> \in less => <<x, z>> \in less
    /\ \A x, y \in S : x = y \/ <<x, y>> \in less \/ <<y, x>> \in less

\* Every member of an ordered finite set has its own place.
LEMMA InOrderLists ==
    ASSUME NEW S, IsFiniteSet(S), NEW less, StrictOrder(S, less)
    PROVE  /\ Cardinality(S) \in Nat
           /\ InOrder(S, less) \in [1..Cardinality(S) -> S]
           /\ \A i, j \in 1..Cardinality(S) : InOrder(S, less)[i] = InOrder(S, less)[j] => i = j
           /\ \A x \in S : \E i \in 1..Cardinality(S) : InOrder(S, less)[i] = x
           /\ \A i \in 1..Cardinality(S) :
                 Cardinality({y \in S : <<y, InOrder(S, less)[i]>> \in less}) = i - 1
<1> DEFINE N == Cardinality(S)
           Before(x) == {y \in S : <<y, x>> \in less}
           place == [x \in S |-> Cardinality(Before(x)) + 1]
<1>1. N \in Nat
  BY FS_CardinalityType
<1>2. ASSUME NEW x \in S
      PROVE  IsFiniteSet(Before(x)) /\ Cardinality(Before(x)) \in Nat /\ Cardinality(Before(x)) + 1 \in 1..N
  <2>1. Before(x) \in SUBSET (S \ {x}) /\ S \ {x} \in SUBSET S
    BY DEF StrictOrder
  <2> HIDE DEF Before
  <2>2. N \in Nat \ {0} /\ Cardinality(S \ {x}) = N - 1 /\ IsFiniteSet(S \ {x})
    <3>1. S \in SUBSET S
      OBVIOUS
    <3> QED BY <3>1, OneLess, FS_Subset
  <2>3. IsFiniteSet(Before(x)) /\ Cardinality(Before(x)) <= N - 1
    BY <2>1, <2>2, FS_Subset
  <2>4. Cardinality(Before(x)) \in Nat
    BY <2>3, FS_CardinalityType
  <2> HIDE DEF N
  <2> QED BY <2>2, <2>3, <2>4
<1>3. ASSUME NEW x \in S, NEW y \in S, <<x, y>> \in less
      PROVE  Cardinality(Before(x)) # Cardinality(Before(y))
  <2>1. Before(x) \in SUBSET Before(y) /\ x \in Before(y) /\ x \notin Before(x)
    BY <1>3 DEF StrictOrder
  <2> HIDE DEF Before
  <2> QED BY <1>2, <2>1, FS_Subset
<1>4. \A x, y \in S : place[x] = place[y] => x = y
  <2> TAKE x, y \in S
  <2>1. Cardinality(Before(x)) \in Nat /\ Cardinality(Before(y)) \in Nat
    BY <1>2
  <2>2. place[x] = Cardinality(Before(x)) + 1 /\ place[y] = Cardinality(Before(y)) + 1
    OBVIOUS
  <2>3. x = y \/ <<x, y>> \in less \/ <<y, x>> \in less
    BY DEF StrictOrder
  <2> HIDE DEF Before, place
  <2>4. x = y \/ Cardinality(Before(x)) # Cardinality(Before(y))
    BY <1>3, <2>3
  <2> QED BY <2>1, <2>2, <2>4
<1>5. place \in [S -> 1..N]
  <2> HIDE DEF N, Before
  <2> QED BY <1>2
<1>6. \A x \in S : place[x] = Cardinality(Before(x)) + 1
  OBVIOUS
<1> HIDE DEF place
<1>7. place \in Injection(S, 1..N)
  BY <1>4, <1>5 DEF Injection, IsInjective
<1>8. IsFiniteSet(1..N) /\ Cardinality(1..N) = N
  <2>1. N >= 1 \/ N = 0
    BY <1>1
  <2> HIDE DEF N
  <2> QED BY <1>1, <2>1, FS_Interval
<1>9. place \in Surjection(S, 1..N)
  BY <1>7, <1>8, FS_Injection
<1>10. ASSUME NEW n \in 1..N PROVE \E x \in S : Cardinality(Before(x)) = n - 1
  <2>1. PICK x \in S : place[x] = n
    BY <1>9 DEF Surjection
  <2> HIDE DEF Before, N
  <2>2. Cardinality(Before(x)) \in Nat /\ Cardinality(Before(x)) + 1 = n
    BY <1>2, <1>6, <2>1
  <2> QED BY <2>2
<1>11. ASSUME NEW n \in 1..N
       PROVE  InOrder(S, less)[n] \in S /\ Cardinality(Before(InOrder(S, less)[n])) = n - 1
  <2>1. InOrder(S, less)[n] = CHOOSE x \in S : Cardinality(Before(x)) = n - 1
    BY DEF InOrder
  <2> HIDE DEF Before, N
  <2> QED BY <1>10, <2>1
<1>12. DOMAIN InOrder(S, less) = 1..N /\ InOrder(S, less) \in [1..N -> S]
  <2> DEFINE list == [n \in 1..N |-> CHOOSE x \in S : Cardinality(Before(x)) = n - 1]
  <2>1. InOrder(S, less) = list
    BY DEF InOrder
  <2>2. DOMAIN list = 1..N /\ list = [n \in 1..N |-> list[n]]
    <3> HIDE DEF N, Before
    <3> QED OBVIOUS
  <2> HIDE DEF N, list, Before
  <2> QED BY <1>11, <2>1, <2>2
<1> HIDE DEF Before
<1>13. \A i, j \in 1..N : InOrder(S, less)[i] = InOrder(S, less)[j] => i = j
  <2> TAKE i, j \in 1..N
  <2> HAVE InOrder(S, less)[i] = InOrder(S, less)[j]
  <2>1. i - 1 = j - 1
    BY <1>11
  <2> HIDE DEF N
  <2> QED BY <1>1, <2>1
<1>14. ASSUME NEW x \in S PROVE \E i \in 1..N : InOrder(S, less)[i] = x
  <2>1. PICK i \in 1..N : i = Cardinality(Before(x)) + 1
    BY <1>2
  <2>2. InOrder(S, less)[i] \in S /\ Cardinality(Before(InOrder(S, less)[i])) = i - 1
    BY <1>11
  <2>3. Cardinality(Before(x)) = i - 1
    BY <1>2, <2>1
  <2>4. place[x] = place[InOrder(S, less)[i]]
    BY <1>6, <2>2, <2>3
  <2> QED BY <1>4, <2>2, <2>4
<1> QED BY <1>1, <1>11, <1>12, <1>13, <1>14 DEF Before

\* A member at an earlier place comes earlier in the order.
LEMMA InOrderSorts ==
    ASSUME NEW S, IsFiniteSet(S), NEW less, StrictOrder(S, less)
    PROVE  \A i, j \in 1..Cardinality(S) :
              i < j => <<InOrder(S, less)[i], InOrder(S, less)[j]>> \in less
<1> DEFINE N == Cardinality(S)
           list == InOrder(S, less)
           Before(x) == {y \in S : <<y, x>> \in less}
<1>1. /\ N \in Nat /\ list \in [1..N -> S]
      /\ \A i, j \in 1..N : list[i] = list[j] => i = j
      /\ \A i \in 1..N : Cardinality(Before(list[i])) = i - 1
  BY InOrderLists
<1> HIDE DEF N, list
<1>2. ASSUME NEW i \in 1..N, NEW j \in 1..N, i < j PROVE <<list[i], list[j]>> \in less
  <2> DEFINE x == list[i]
             y == list[j]
  <2>1. x \in S /\ y \in S /\ x # y
    BY <1>1, <1>2
  <2>2. SUFFICES ASSUME <<y, x>> \in less PROVE FALSE
    BY <2>1 DEF StrictOrder
  <2>3. Before(y) \subseteq Before(x)
    BY <2>1, <2>2 DEF StrictOrder
  <2>4. IsFiniteSet(Before(x))
    BY FS_Subset
  <2>5. Cardinality(Before(y)) <= Cardinality(Before(x))
    BY <2>3, <2>4, FS_Subset
  <2>6. Cardinality(Before(x)) = i - 1 /\ Cardinality(Before(y)) = j - 1
    BY <1>1, <1>2
  <2> HIDE DEF Before
  <2> QED BY <1>1, <1>2, <2>5, <2>6
<1> QED BY <1>2 DEF N, list

LEMMA LexTriple ==
    ASSUME NEW a \in Int, NEW b \in Int, NEW c \in Int, NEW d \in Int, NEW e \in Int, NEW f \in Int
    PROVE  LexLess(<<a, b, c>>, <<d, e, f>>) <=>
               a < d \/ (a = d /\ b < e) \/ (a = d /\ b = e /\ c < f)
<1> DEFINE s == <<a, b, c>>
           t == <<d, e, f>>
           Case(i) == s[i] < t[i] /\ \A j \in 1..(i - 1) : s[j] = t[j]
<1>1. DOMAIN s = {1, 2, 3} /\ 1..(1 - 1) = {} /\ 1..(2 - 1) = {1} /\ 1..(3 - 1) = {1, 2}
  OBVIOUS
<1>2. s[1] = a /\ s[2] = b /\ s[3] = c /\ t[1] = d /\ t[2] = e /\ t[3] = f
  OBVIOUS
<1>3. LexLess(s, t) <=> \E i \in DOMAIN s : Case(i)
  BY DEF LexLess
<1> HIDE DEF s, t
<1>4. Case(1) <=> a < d
  BY <1>1, <1>2
<1>5. Case(2) <=> a = d /\ b < e
  BY <1>1, <1>2
<1>6. Case(3) <=> a = d /\ b = e /\ c < f
  BY <1>1, <1>2
<1> HIDE DEF Case
<1>7. LexLess(s, t) <=> Case(1) \/ Case(2) \/ Case(3)
  BY <1>1, <1>3
<1> QED BY <1>4, <1>5, <1>6, <1>7 DEF s, t

LEMMA LexPair ==
    ASSUME NEW a \in Int, NEW b \in Int, NEW d \in Int, NEW e \in Int
    PROVE  LexLess(<<a, b>>, <<d, e>>) <=> a < d \/ (a = d /\ b < e)
<1> DEFINE s == <<a, b>>
           t == <<d, e>>
           Case(i) == s[i] < t[i] /\ \A j \in 1..(i - 1) : s[j] = t[j]
<1>1. DOMAIN s = {1, 2} /\ 1..(1 - 1) = {} /\ 1..(2 - 1) = {1}
  OBVIOUS
<1>2. s[1] = a /\ s[2] = b /\ t[1] = d /\ t[2] = e
  OBVIOUS
<1>3. LexLess(s, t) <=> \E i \in DOMAIN s : Case(i)
  BY DEF LexLess
<1> HIDE DEF s, t
<1>4. Case(1) <=> a < d
  BY <1>1, <1>2
<1>5. Case(2) <=> a = d /\ b < e
  BY <1>1, <1>2
<1> HIDE DEF Case
<1>6. LexLess(s, t) <=> Case(1) \/ Case(2)
  BY <1>1, <1>3
<1> QED BY <1>4, <1>5, <1>6 DEF s, t

\* A list of a set: each member once.
Lists(seq, S) ==
    /\ Cardinality(S) \in Nat /\ seq \in [1..Cardinality(S) -> S]
    /\ \A i, j \in 1..Cardinality(S) : seq[i] = seq[j] => i = j
    /\ \A x \in S : \E i \in 1..Cardinality(S) : seq[i] = x

\* Sorting by a key that ends in the identifier lists every identifier once.
LEMMA SortLists ==
    ASSUME NEW S, IsFiniteSet(S), S \subseteq Int, NEW key, DOMAIN key = S,
           \A x \in S : \E a, b \in Int : key[x] = <<a, b, x>>
    PROVE  Lists(SortByKey(key), S)
<1> DEFINE less == {p \in S \X S : LexLess(key[p[1]], key[p[2]])}
<1>1. SortByKey(key) = InOrder(S, less)
  BY DEF SortByKey
<1>2. \A x, y \in S : <<x, y>> \in less <=> LexLess(key[x], key[y])
  OBVIOUS
<1> HIDE DEF less
<1>3. \A x \in S : <<x, x>> \notin less
  <2> TAKE x \in S
  <2>1. PICK a \in Int, b \in Int : key[x] = <<a, b, x>>
    OBVIOUS
  <2>2. x \in Int /\ ~LexLess(<<a, b, x>>, <<a, b, x>>)
    <3>1. x \in Int
      OBVIOUS
    <3>2. ~(a < a \/ (a = a /\ b < b) \/ (a = a /\ b = b /\ x < x))
      BY <3>1
    <3> QED BY <3>1, <3>2, LexTriple, SMTT(30)
  <2> QED BY <1>2, <2>1, <2>2
<1>4. \A x, y, z \in S : <<x, y>> \in less /\ <<y, z>> \in less => <<x, z>> \in less
  <2> SUFFICES ASSUME NEW x \in S, NEW y \in S, NEW z \in S, <<x, y>> \in less, <<y, z>> \in less
               PROVE  <<x, z>> \in less
    OBVIOUS
  <2>1. PICK a \in Int, b \in Int : key[x] = <<a, b, x>>
    OBVIOUS
  <2>2. PICK c \in Int, d \in Int : key[y] = <<c, d, y>>
    OBVIOUS
  <2>3. PICK e \in Int, f \in Int : key[z] = <<e, f, z>>
    OBVIOUS
  <2>4. x \in Int /\ y \in Int /\ z \in Int
    OBVIOUS
  <2>5. LexLess(<<a, b, x>>, <<c, d, y>>) /\ LexLess(<<c, d, y>>, <<e, f, z>>)
    BY <1>2, <2>1, <2>2, <2>3
  <2>6. /\ a < c \/ (a = c /\ b < d) \/ (a = c /\ b = d /\ x < y)
        /\ c < e \/ (c = e /\ d < f) \/ (c = e /\ d = f /\ y < z)
    <3>1. LexLess(<<a, b, x>>, <<c, d, y>>) <=>
              a < c \/ (a = c /\ b < d) \/ (a = c /\ b = d /\ x < y)
      BY <2>4, LexTriple, SMTT(30)
    <3>2. LexLess(<<c, d, y>>, <<e, f, z>>) <=>
              c < e \/ (c = e /\ d < f) \/ (c = e /\ d = f /\ y < z)
      BY <2>4, LexTriple, SMTT(30)
    <3> QED BY <2>5, <3>1, <3>2
  <2>7. a < e \/ (a = e /\ b < f) \/ (a = e /\ b = f /\ x < z)
    BY <2>4, <2>6
  <2>8. LexLess(<<a, b, x>>, <<e, f, z>>)
    BY <2>4, <2>7, LexTriple, SMTT(30)
  <2> QED BY <1>2, <2>1, <2>3, <2>8
<1>5. \A x, y \in S : x = y \/ <<x, y>> \in less \/ <<y, x>> \in less
  <2> TAKE x, y \in S
  <2>1. PICK a \in Int, b \in Int : key[x] = <<a, b, x>>
    OBVIOUS
  <2>2. PICK c \in Int, d \in Int : key[y] = <<c, d, y>>
    OBVIOUS
  <2>3. x \in Int /\ y \in Int
    OBVIOUS
  <2>4. \/ x = y
        \/ a < c \/ (a = c /\ b < d) \/ (a = c /\ b = d /\ x < y)
        \/ c < a \/ (c = a /\ d < b) \/ (c = a /\ d = b /\ y < x)
    BY <2>3
  <2>5. x = y \/ LexLess(<<a, b, x>>, <<c, d, y>>) \/ LexLess(<<c, d, y>>, <<a, b, x>>)
    BY <2>3, <2>4, LexTriple, SMTT(30)
  <2> QED BY <1>2, <2>1, <2>2, <2>5
<1>6. StrictOrder(S, less)
  BY <1>3, <1>4, <1>5 DEF StrictOrder
<1> QED BY <1>1, <1>6, InOrderLists DEF Lists

-----------------------------------------------------------------------------
(* The order of the demands, and of the slots of one demand                *)

LEMMA DemandsListed ==
    ASSUME NEW req, ValidRequest(req)
    PROVE  Lists(DemandOrder(req), DOMAIN req.demands)
<1> DEFINE S == DOMAIN req.demands
           key == [d \in S |-> <<IF req.demands[d].mandatory THEN 0 ELSE 1, req.demands[d].deadline, d>>]
<1>1. IsFiniteSet(S) /\ S \subseteq Int /\ DOMAIN key = S
  BY DEF ValidRequest
<1>2. ASSUME NEW d \in S PROVE \E a, b \in Int : key[d] = <<a, b, d>>
  <2>1. req.demands[d].deadline \in Int
    BY DEF ValidRequest, ValidDemand
  <2>2. (IF req.demands[d].mandatory THEN 0 ELSE 1) \in Int
    OBVIOUS
  <2>3. key[d] = <<IF req.demands[d].mandatory THEN 0 ELSE 1, req.demands[d].deadline, d>>
    OBVIOUS
  <2> HIDE DEF key
  <2> QED BY <2>1, <2>2, <2>3
<1>3. DemandOrder(req) = SortByKey(key)
  BY DEF DemandOrder
<1> HIDE DEF key, S
<1>4. Lists(SortByKey(key), S)
  BY <1>1, <1>2, SortLists
<1> QED BY <1>3, <1>4 DEF S

LEMMA SlotsListed ==
    ASSUME NEW req, ValidRequest(req), NEW slots \in SUBSET DOMAIN req.slots
    PROVE  Lists(SlotOrder(req, slots), slots)
<1> DEFINE key == [s \in slots |-> <<req.slots[s].route, req.slots[s].day, s>>]
<1>1. IsFiniteSet(slots) /\ slots \subseteq Int /\ DOMAIN key = slots
  BY FS_Subset DEF ValidRequest
<1>2. ASSUME NEW s \in slots PROVE \E a, b \in Int : key[s] = <<a, b, s>>
  <2>1. req.slots[s].route \in Int /\ req.slots[s].day \in Int
    BY DEF ValidRequest, SlotsIn
  <2>2. key[s] = <<req.slots[s].route, req.slots[s].day, s>>
    OBVIOUS
  <2> HIDE DEF key
  <2> QED BY <2>1, <2>2
<1>3. SlotOrder(req, slots) = SortByKey(key)
  BY DEF SlotOrder
<1> HIDE DEF key
<1> QED BY <1>1, <1>2, <1>3, SortLists

-----------------------------------------------------------------------------
(* Sequences laid end to end                                               *)

LEMMA Concatenated ==
    ASSUME NEW A, NEW s \in Seq(A), NEW t \in Seq(A)
    PROVE  /\ s \o t \in Seq(A)
           /\ Range(s \o t) = Range(s) \cup Range(t)
           /\ IsInjective(s) /\ IsInjective(t) /\ Range(s) \cap Range(t) = {} => IsInjective(s \o t)
<1> DEFINE m == Len(s)
           n == Len(t)
           c == s \o t
<1>1. m \in Nat /\ n \in Nat /\ DOMAIN s = 1..m /\ DOMAIN t = 1..n
  BY LenProperties
<1>2. /\ c \in Seq(A) /\ Len(c) = m + n
      /\ \A i \in 1..(m + n) : c[i] = IF i <= m THEN s[i] ELSE t[i - m]
  BY ConcatProperties
<1>3. DOMAIN c = 1..(m + n)
  BY <1>2, LenProperties
<1> HIDE DEF c, m, n
<1>4. \A i \in 1..m : i \in DOMAIN c /\ c[i] = s[i]
  BY <1>1, <1>2, <1>3
<1>5. \A i \in 1..n : m + i \in DOMAIN c /\ c[m + i] = t[i]
  <2> TAKE i \in 1..n
  <2>1. m + i \in 1..(m + n) /\ ~(m + i <= m) /\ (m + i) - m = i
    BY <1>1
  <2> QED BY <1>2, <1>3, <2>1
<1>6. \A k \in DOMAIN c : k \in 1..m \/ \E i \in 1..n : k = m + i
  <2> SUFFICES ASSUME NEW k \in 1..(m + n), k \notin 1..m PROVE \E i \in 1..n : k = m + i
    BY <1>3
  <2>1. k - m \in 1..n /\ k = m + (k - m)
    BY <1>1
  <2> QED BY <2>1
<1>7. Range(c) = Range(s) \cup Range(t)
  <2>1. Range(c) \subseteq Range(s) \cup Range(t)
    <3>1. ASSUME NEW k \in DOMAIN c PROVE c[k] \in Range(s) \cup Range(t)
      <4>1. CASE k \in 1..m
        BY <1>1, <1>4, <4>1 DEF Range
      <4>2. ASSUME NEW i \in 1..n, k = m + i PROVE c[k] \in Range(t)
        BY <1>1, <1>5, <4>2 DEF Range
      <4> QED BY <1>6, <4>1, <4>2
    <3> QED BY <3>1 DEF Range
  <2>2. Range(s) \subseteq Range(c)
    BY <1>1, <1>4 DEF Range
  <2>3. Range(t) \subseteq Range(c)
    BY <1>1, <1>5 DEF Range
  <2> QED BY <2>1, <2>2, <2>3
<1>8. ASSUME IsInjective(s), IsInjective(t), Range(s) \cap Range(t) = {} PROVE IsInjective(c)
  <2> SUFFICES ASSUME NEW a \in DOMAIN c, NEW b \in DOMAIN c, c[a] = c[b] PROVE a = b
    BY DEF IsInjective
  <2>1. CASE a \in 1..m /\ b \in 1..m
    BY <1>1, <1>4, <1>8, <2>1 DEF IsInjective
  <2>2. CASE a \notin 1..m /\ b \notin 1..m
    <3>1. PICK i \in 1..n : a = m + i
      BY <1>6, <2>2
    <3>2. PICK j \in 1..n : b = m + j
      BY <1>6, <2>2
    <3>3. t[i] = t[j]
      BY <1>5, <3>1, <3>2
    <3>4. i = j
      BY <1>1, <1>8, <3>3 DEF IsInjective
    <3> QED BY <3>1, <3>2, <3>4
  <2>3. ASSUME NEW k \in 1..m, NEW l \in DOMAIN c, l \notin 1..m PROVE c[k] # c[l]
    <3>1. PICK i \in 1..n : l = m + i
      BY <1>6, <2>3
    <3>2. c[k] \in Range(s) /\ c[l] \in Range(t)
      BY <1>1, <1>4, <1>5, <3>1 DEF Range
    <3> QED BY <1>8, <3>2
  <2> QED BY <2>1, <2>2, <2>3
<1> QED BY <1>2, <1>7, <1>8 DEF c

\* The library's way of laying a sequence of sequences end to end.
LEMMA FlattenSteps ==
    ASSUME NEW A, NEW ss, ss \in Seq(Seq(A)), ss # <<>>
    PROVE  \E f : /\ f[1] = ss[1]
                  /\ \A n \in 2..Len(ss) : f[n] = f[n - 1] \o ss[n]
                  /\ FlattenSeq(ss) = f[Len(ss)]
<1> DEFINE N == Len(ss)
           V == Seq(A)
           Solves(f) == f = [i \in 1..N |-> IF i = 1 THEN ss[i] ELSE f[i - 1] \o ss[i]]
           flat == CHOOSE f : Solves(f)
           step == [n \in 1..N |-> [v \in V |-> v \o ss[n]]]
<1>1. N \in Nat \ {0} /\ DOMAIN ss = 1..N /\ \A n \in 1..N : ss[n] \in V
  BY LenProperties, EmptySeq
<1>2. FlattenSeq(ss) = flat[N]
  BY <1>1 DEF FlattenSeq
<1>3. step \in [1..N -> [V -> V]]
  <2>1. \A n \in 1..N : \A v \in V : v \o ss[n] \in V
    BY <1>1, ConcatProperties
  <2> HIDE DEF N, V
  <2> QED BY <2>1
<1>4. <<>> \in V
  OBVIOUS
<1>5. \A n \in 1..N : \A v \in V : step[n][v] = v \o ss[n]
  <2> HIDE DEF N, V
  <2> QED OBVIOUS
<1>6. \A v \in V : <<>> \o v = v
  BY ConcatEmptySeq
<1>7. \E f : Solves(f)
  <2> HIDE DEF N, V, step
  <2>0. N \in Nat
    BY <1>1
  <2>1. PICK f \in [0..N -> V] : f[0] = <<>> /\ \A n \in 1..N : f[n] = step[n][f[n - 1]]
    <3> DEFINE nil == <<>>
    <3>1. nil \in V
      BY <1>4
    <3> HIDE DEF nil
    <3>2. \E f \in [0..N -> V] : f[0] = nil /\ \A n \in 1..N : f[n] = step[n][f[n - 1]]
      BY ONLY <2>0, <1>3, <3>1, Recursion
    <3> QED BY <3>2 DEF nil
  <2> DEFINE g == [i \in 1..N |-> f[i]]
  <2>2. ASSUME NEW i \in 1..N PROVE g[i] = IF i = 1 THEN ss[i] ELSE g[i - 1] \o ss[i]
    <3>1. i - 1 \in 0..N
      BY <1>1
    <3>2. f[i] = f[i - 1] \o ss[i]
      BY <1>5, <2>1, <3>1
    <3>3. CASE i = 1
      <4>1. 1 - 1 = 0 /\ ss[1] \in V
        BY <1>1, <3>3
      <4>2. f[1] = <<>> \o ss[1]
        BY <2>1, <3>2, <3>3, <4>1
      <4> QED BY <1>6, <3>3, <4>1, <4>2
    <3>4. CASE i # 1
      <4>1. i - 1 \in 1..N
        BY <1>1, <3>4
      <4> QED BY <3>2, <3>4, <4>1
    <3> QED BY <3>3, <3>4
  <2>3. g = [i \in 1..N |-> g[i]]
    OBVIOUS
  <2> HIDE DEF g
  <2>4. g = [i \in 1..N |-> IF i = 1 THEN ss[i] ELSE g[i - 1] \o ss[i]]
    BY <2>2, <2>3
  <2> QED BY <2>4
<1>8. Solves(flat)
  <2> HIDE DEF Solves
  <2> QED BY <1>7
<1> HIDE DEF flat
<1>9. \A n \in 2..N : n \in 1..N /\ n # 1
  BY <1>1
<1>10. 1 \in 1..N
  BY <1>1
<1>11. \A n \in 1..N : flat[n] = IF n = 1 THEN ss[n] ELSE flat[n - 1] \o ss[n]
  BY <1>8
<1>12. flat[1] = ss[1] /\ \A n \in 2..N : flat[n] = flat[n - 1] \o ss[n]
  <2> HIDE DEF N, Solves
  <2> QED BY <1>9, <1>10, <1>11
<1> QED BY <1>2, <1>12

\* Flattening keeps all members, and keeps them apart.
LEMMA Flattened ==
    ASSUME NEW A, NEW ss \in Seq(Seq(A))
    PROVE  /\ FlattenSeq(ss) \in Seq(A)
           /\ Range(FlattenSeq(ss)) = UNION {Range(ss[i]) : i \in DOMAIN ss}
           /\ /\ \A i \in DOMAIN ss : IsInjective(ss[i])
              /\ \A i, j \in DOMAIN ss : i # j => Range(ss[i]) \cap Range(ss[j]) = {}
              => IsInjective(FlattenSeq(ss))
<1>1. CASE ss = <<>>
  <2>1. FlattenSeq(ss) = ss /\ DOMAIN ss = {}
    BY <1>1, EmptySeq, LenProperties DEF FlattenSeq
  <2>2. Range(ss) = {} /\ IsInjective(ss)
    BY <2>1 DEF Range, IsInjective
  <2>3. ss \in Seq(A)
    BY <1>1, EmptySeq
  <2>4. UNION {Range(ss[i]) : i \in DOMAIN ss} = {}
    BY <2>1
  <2> QED BY <2>1, <2>2, <2>3, <2>4
<1>2. CASE ss # <<>>
  <2> DEFINE N == Len(ss)
             All(n) == UNION {Range(ss[i]) : i \in 1..n}
             Apart == /\ \A i \in DOMAIN ss : IsInjective(ss[i])
                      /\ \A i, j \in DOMAIN ss : i # j => Range(ss[i]) \cap Range(ss[j]) = {}
  <2>1. N \in Nat \ {0} /\ DOMAIN ss = 1..N /\ \A n \in 1..N : ss[n] \in Seq(A)
    BY <1>2, LenProperties, EmptySeq
  <2>2. PICK f : f[1] = ss[1] /\ (\A n \in 2..N : f[n] = f[n - 1] \o ss[n]) /\ FlattenSeq(ss) = f[N]
    BY <1>2, FlattenSteps
  <2> DEFINE Good(n) == f[n] \in Seq(A) /\ Range(f[n]) = All(n) /\ (Apart => IsInjective(f[n]))
             T == {n \in Nat : n \in 1..N => Good(n)}
  <2> HIDE DEF N
  <2>3. 0 \in T
    BY <2>1
  <2>4. ASSUME NEW n \in Nat, n \in T PROVE n + 1 \in T
    <3> SUFFICES ASSUME n + 1 \in 1..N PROVE Good(n + 1)
      OBVIOUS
    <3>1. CASE n = 0
      <4>1. All(1) = Range(ss[1])
        <5>1. 1..1 = {1}
          OBVIOUS
        <5> QED BY <5>1
      <4>2. f[1] = ss[1] /\ 1 \in DOMAIN ss /\ ss[1] \in Seq(A)
        BY <2>1, <2>2
      <4> HIDE DEF All
      <4>3. Good(1)
        BY <4>1, <4>2
      <4> QED BY <3>1, <4>3
    <3>2. CASE n # 0
      <4>1. n \in 1..N /\ n + 1 \in 2..N /\ (n + 1) - 1 = n
        BY <2>1, <3>2
      <4>2. f[n + 1] = f[n] \o ss[n + 1]
        BY <2>2, <4>1
      <4>3. Good(n)
        BY <2>4, <4>1
      <4>4. All(n + 1) = All(n) \cup Range(ss[n + 1])
        <5>1. 1..(n + 1) = 1..n \cup {n + 1}
          OBVIOUS
        <5> QED BY <5>1
      <4>5. ss[n + 1] \in Seq(A) /\ n + 1 \in DOMAIN ss
        BY <2>1
      <4>6. ASSUME Apart PROVE IsInjective(ss[n + 1]) /\ All(n) \cap Range(ss[n + 1]) = {}
        <5>1. \A i \in 1..n : i \in DOMAIN ss /\ i # n + 1
          BY <2>1
        <5>2. \A i \in 1..n : Range(ss[i]) \cap Range(ss[n + 1]) = {}
          BY <4>5, <4>6, <5>1
        <5> QED BY <4>5, <4>6, <5>2
      <4> HIDE DEF All, Apart
      <4>7. f[n] \o ss[n + 1] \in Seq(A) /\ Range(f[n] \o ss[n + 1]) = Range(f[n]) \cup Range(ss[n + 1])
        BY <4>3, <4>5, Concatenated
      <4>8. Apart => IsInjective(f[n] \o ss[n + 1])
        BY <4>3, <4>5, <4>6, Concatenated
      <4> QED BY <4>2, <4>3, <4>4, <4>7, <4>8
    <3> QED BY <3>1, <3>2
  <2> HIDE DEF T
  <2>5. N \in T
    BY <2>1, <2>3, <2>4, Inductive
  <2>6. Good(N)
    BY <2>1, <2>5 DEF T
  <2> QED BY <2>1, <2>2, <2>6
<1> QED BY <1>1, <1>2

-----------------------------------------------------------------------------
(* Assignments, and what placing one more demand changes                   *)

LEMMA Efforts ==
    ASSUME NEW req, ValidRequest(req)
    PROVE  \A G \in SUBSET DOMAIN req.demands :
              /\ EffortOf(req, G) \in Nat
              /\ \A R \in SUBSET G : EffortOf(req, R) <= EffortOf(req, G)
              /\ \A d \in DOMAIN req.demands \ G :
                    EffortOf(req, G \cup {d}) = EffortOf(req, G) + req.demands[d].effort
<1> DEFINE S == DOMAIN req.demands
           w == [d \in S |-> req.demands[d].effort]
<1>1. IsFiniteSet(S) /\ \A d \in S : req.demands[d].effort \in Nat
  BY DEF ValidRequest, ValidDemand
<1>2. w \in [S -> Nat] /\ w \in [S -> Int]
  BY <1>1
<1>3. \A G \in SUBSET S : EffortOf(req, G) = SumOver(w, G)
  <2> TAKE G \in SUBSET S
  <2>1. [d \in G |-> w[d]] = [d \in G |-> req.demands[d].effort]
    OBVIOUS
  <2> QED BY <2>1 DEF EffortOf, SumOver
<1>4. \A d \in S : w[d] = req.demands[d].effort
  OBVIOUS
<1> HIDE DEF w, S
<1>5. \A G \in SUBSET S : SumOver(w, G) \in Nat /\ \A R \in SUBSET G : SumOver(w, R) <= SumOver(w, G)
  BY <1>1, <1>2, SumsGrow
<1>6. \A G \in SUBSET S : \A d \in G : SumOver(w, G) = w[d] + SumOver(w, G \ {d})
  <2>1. IsFiniteSet(S) /\ w \in [S -> Int]
    BY <1>1, <1>2
  <2>2. /\ SumOver(w, {}) = 0
        /\ \A T \in SUBSET S : SumOver(w, T) \in Int
        /\ \A T \in SUBSET S : \A x \in T : SumOver(w, T) = w[x] + SumOver(w, T \ {x})
    BY ONLY <2>1, Sums
  <2> QED BY ONLY <2>2
<1>7. ASSUME NEW G \in SUBSET S, NEW d \in S \ G
      PROVE  SumOver(w, G \cup {d}) = SumOver(w, G) + req.demands[d].effort
  <2>1. G \cup {d} \in SUBSET S /\ (G \cup {d}) \ {d} = G /\ d \in G \cup {d}
    OBVIOUS
  <2>2. SumOver(w, G \cup {d}) = w[d] + SumOver(w, G)
    BY <1>6, <2>1
  <2>3. w[d] \in Nat /\ SumOver(w, G) \in Nat /\ w[d] = req.demands[d].effort
    BY <1>1, <1>4, <1>5
  <2> QED BY <2>2, <2>3
<1>8. ASSUME NEW G \in SUBSET S
      PROVE  /\ EffortOf(req, G) \in Nat
             /\ \A R \in SUBSET G : EffortOf(req, R) <= EffortOf(req, G)
             /\ \A d \in S \ G : EffortOf(req, G \cup {d}) = EffortOf(req, G) + req.demands[d].effort
  <2>1. \A R \in SUBSET G : R \in SUBSET S
    OBVIOUS
  <2>2. \A d \in S \ G : G \cup {d} \in SUBSET S
    OBVIOUS
  <2> QED BY <1>3, <1>5, <1>7, <2>1, <2>2
<1> QED BY <1>8 DEF S

LEMMA NoEffort ==
    ASSUME NEW req
    PROVE  EffortOf(req, {}) = 0
<1> DEFINE w == [d \in {} |-> 0]
<1>1. w \in [{} -> Int] /\ IsFiniteSet({})
  BY FS_EmptySet
<1>2. [d \in {} |-> w[d]] = [d \in {} |-> req.demands[d].effort]
  OBVIOUS
<1> HIDE DEF w
<1>3. SumOver(w, {}) = 0
  BY <1>1, Sums
<1> QED BY <1>2, <1>3 DEF EffortOf, SumOver

LEMMA AssignmentIs ==
    ASSUME NEW req, NEW alloc
    PROVE  alloc \in Assignments(req) <=>
               /\ DOMAIN alloc \subseteq DOMAIN req.demands
               /\ alloc \in [DOMAIN alloc -> DOMAIN req.slots]
  BY DEF Assignments

\* One more demand in a slot.
LEMMA PlacedServed ==
    ASSUME NEW alloc, NEW d, NEW s
    PROVE  DOMAIN Place(alloc, d, s) = DOMAIN alloc \cup {d} /\ Place(alloc, d, s)[d] = s
  BY DEF Place

LEMMA PlacedKeeps ==
    ASSUME NEW alloc, NEW d, NEW s, NEW e \in DOMAIN alloc, e # d
    PROVE  Place(alloc, d, s)[e] = alloc[e]
  BY DEF Place

LEMMA PlacedMembers ==
    ASSUME NEW alloc, NEW d, d \notin DOMAIN alloc, NEW s
    PROVE  /\ Members(Place(alloc, d, s), s) = Members(alloc, s) \cup {d}
           /\ d \notin Members(alloc, s)
           /\ \A t : t # s => Members(Place(alloc, d, s), t) = Members(alloc, t)
  BY DEF Place, Members

LEMMA PlacedOne ==
    ASSUME NEW req, NEW alloc \in Assignments(req), NEW d \in DOMAIN req.demands, NEW s \in DOMAIN req.slots
    PROVE  Place(alloc, d, s) \in Assignments(req)
<1>1. DOMAIN alloc \subseteq DOMAIN req.demands /\ alloc \in [DOMAIN alloc -> DOMAIN req.slots]
  BY AssignmentIs
<1>2. Place(alloc, d, s) \in [DOMAIN alloc \cup {d} -> DOMAIN req.slots]
  BY <1>1 DEF Place
<1>3. DOMAIN Place(alloc, d, s) = DOMAIN alloc \cup {d}
  BY PlacedServed
<1> QED BY <1>1, <1>2, <1>3, AssignmentIs

\* The demands placed in a slot are a finite set of the request's.
LEMMA MembersOf ==
    ASSUME NEW req, ValidRequest(req), NEW alloc \in Assignments(req), NEW s
    PROVE  /\ Members(alloc, s) \in SUBSET DOMAIN req.demands
           /\ IsFiniteSet(Members(alloc, s)) /\ Cardinality(Members(alloc, s)) \in Nat
<1>1. Members(alloc, s) \in SUBSET DOMAIN req.demands
  BY AssignmentIs DEF Members
<1> QED BY <1>1, FS_Subset, FS_CardinalityType DEF ValidRequest

\* The least of three numbers.
LEMMA LeastIs ==
    ASSUME NEW a \in Int, NEW b \in Int, NEW c \in Int
    PROVE  /\ Least(a, b, c) \in {a, b, c}
           /\ Least(a, b, c) <= a /\ Least(a, b, c) <= b /\ Least(a, b, c) <= c
<1>1. \E x \in {a, b, c} : \A y \in {a, b, c} : x <= y
  <2>1. CASE a <= b /\ a <= c
    BY <2>1
  <2>2. CASE b <= a /\ b <= c
    BY <2>2
  <2>3. CASE c <= a /\ c <= b
    BY <2>3
  <2> QED BY <2>1, <2>2, <2>3
<1>2. Least(a, b, c) = CHOOSE x \in {a, b, c} : \A y \in {a, b, c} : x <= y
  BY DEF Least, Min
<1>3. Least(a, b, c) \in {a, b, c} /\ \A y \in {a, b, c} : Least(a, b, c) <= y
  BY <1>1, <1>2
<1> QED BY <1>3

LEMMA SlotIs ==
    ASSUME NEW req, ValidRequest(req), NEW s \in DOMAIN req.slots
    PROVE  /\ req.slots[s].seats \in Nat /\ req.slots[s].hours \in Nat /\ req.slots[s].rooms \in Nat
           /\ req.slots[s].route \in Int /\ req.slots[s].day \in Int /\ s \in Int
           /\ req.policy.maxGroup \in Nat
  BY DEF ValidRequest, SlotsIn

LEMMA BarriersAre ==
    ASSUME NEW req, NEW d, NEW e
    PROVE  /\ BarriersCompatible(req, d, d)
           /\ BarriersCompatible(req, d, e) <=> BarriersCompatible(req, e, d)
<1>1. {req.demands[d].barrier, req.demands[d].barrier} = {req.demands[d].barrier}
  OBVIOUS
<1>2. Cardinality({req.demands[d].barrier, req.demands[d].barrier}) = 1
  BY <1>1, FS_Singleton
<1>3. {req.demands[d].barrier, req.demands[e].barrier} = {req.demands[e].barrier, req.demands[d].barrier}
  OBVIOUS
<1> QED BY <1>2, <1>3 DEF BarriersCompatible

\* The hard constraints of one slot before and after it takes one more demand.
LEMMA SlotTakes ==
    ASSUME NEW req, ValidRequest(req), NEW alloc \in Assignments(req),
           NEW d \in DOMAIN req.demands, d \notin DOMAIN alloc, NEW s \in DOMAIN req.slots
    PROVE  SlotKept(req, Place(alloc, d, s), s) <=> SlotKept(req, alloc, s) /\ ChoiceFits(req, alloc, d, s)
<1> DEFINE b == Place(alloc, d, s)
           before == Members(alloc, s)
           after == Members(b, s)
           room == Least(req.slots[s].seats, req.slots[s].rooms, req.policy.maxGroup)
<1>1. /\ req.slots[s].seats \in Nat /\ req.slots[s].hours \in Nat /\ req.slots[s].rooms \in Nat
      /\ req.policy.maxGroup \in Nat /\ room \in Nat
  <2>1. /\ req.slots[s].seats \in Nat /\ req.slots[s].hours \in Nat /\ req.slots[s].rooms \in Nat
        /\ req.policy.maxGroup \in Nat
    BY SlotIs
  <2>2. room \in {req.slots[s].seats, req.slots[s].rooms, req.policy.maxGroup}
    BY <2>1, LeastIs
  <2> HIDE DEF room
  <2> QED BY <2>1, <2>2
<1>2. after = before \cup {d} /\ d \notin before
  BY PlacedMembers
<1>3. before \in SUBSET DOMAIN req.demands /\ IsFiniteSet(before) /\ Cardinality(before) \in Nat
  BY MembersOf
<1> HIDE DEF before, after, room
<1>4. Cardinality(after) = Cardinality(before) + 1
  BY <1>2, <1>3, FS_AddElement
<1>5. /\ EffortOf(req, before) \in Nat /\ EffortOf(req, after) = EffortOf(req, before) + req.demands[d].effort
      /\ EffortOf(req, before) <= EffortOf(req, after)
  <2>1. after \in SUBSET DOMAIN req.demands /\ before \in SUBSET after /\ d \in DOMAIN req.demands \ before
    BY <1>2, <1>3
  <2> QED BY <1>2, <1>3, <2>1, Efforts
<1>6. Cardinality(after) <= room <=> Cardinality(before) <= room /\ Cardinality(before) < room
  BY <1>1, <1>3, <1>4
<1>7. EffortOf(req, after) <= req.slots[s].hours <=>
          /\ EffortOf(req, before) <= req.slots[s].hours
          /\ EffortOf(req, before) + req.demands[d].effort <= req.slots[s].hours
  <2>1. req.demands[d].effort \in Nat
    BY DEF ValidRequest, ValidDemand
  <2> QED BY <1>1, <1>5, <2>1
<1>8. (\A x, y \in after : BarriersCompatible(req, x, y)) <=>
          /\ \A x, y \in before : BarriersCompatible(req, x, y)
          /\ \A y \in before : BarriersCompatible(req, d, y)
  BY <1>2, BarriersAre
<1>9. SlotKept(req, b, s) <=>
          /\ Cardinality(after) <= room /\ EffortOf(req, after) <= req.slots[s].hours
          /\ \A x, y \in after : BarriersCompatible(req, x, y)
  BY DEF SlotKept, after, room
<1>10. SlotKept(req, alloc, s) <=>
          /\ Cardinality(before) <= room /\ EffortOf(req, before) <= req.slots[s].hours
          /\ \A x, y \in before : BarriersCompatible(req, x, y)
  BY DEF SlotKept, before, room
<1>11. ChoiceFits(req, alloc, d, s) <=>
          /\ Cardinality(before) < room
          /\ EffortOf(req, before) + req.demands[d].effort <= req.slots[s].hours
          /\ \A y \in before : BarriersCompatible(req, d, y)
  BY DEF ChoiceFits, before, room
<1> QED BY <1>6, <1>7, <1>8, <1>9, <1>10, <1>11

\* A slot that holds a demand has something of each resource.
LEMMA SlotInUse ==
    ASSUME NEW req, ValidRequest(req), NEW alloc \in Assignments(req), NEW s \in DOMAIN req.slots,
           SlotKept(req, alloc, s), NEW d \in Members(alloc, s)
    PROVE  Least(req.slots[s].seats, req.slots[s].hours, req.slots[s].rooms) > 0
<1> DEFINE group == Members(alloc, s)
           room == Least(req.slots[s].seats, req.slots[s].rooms, req.policy.maxGroup)
<1>1. /\ req.slots[s].seats \in Nat /\ req.slots[s].hours \in Nat /\ req.slots[s].rooms \in Nat
      /\ req.policy.maxGroup \in Nat
  BY SlotIs
<1>2. room \in Int /\ room <= req.slots[s].seats /\ room <= req.slots[s].rooms
  <2>1. room \in {req.slots[s].seats, req.slots[s].rooms, req.policy.maxGroup}
    BY <1>1, LeastIs
  <2>2. room <= req.slots[s].seats /\ room <= req.slots[s].rooms
    BY <1>1, LeastIs
  <2> HIDE DEF room
  <2> QED BY <1>1, <2>1, <2>2
<1>3. group \in SUBSET DOMAIN req.demands /\ IsFiniteSet(group) /\ Cardinality(group) \in Nat
  BY MembersOf
<1>4. Cardinality(group) <= room /\ EffortOf(req, group) <= req.slots[s].hours
  BY DEF SlotKept
<1> HIDE DEF group, room
<1>5. d \in group
  BY DEF group
<1>6. Cardinality(group) # 0
  BY <1>3, <1>5, FS_EmptySet
<1>7. EffortOf(req, group) >= 1
  <2> DEFINE rest == group \ {d}
  <2>1. rest \in SUBSET DOMAIN req.demands /\ d \in DOMAIN req.demands \ rest /\ rest \cup {d} = group
    BY <1>3, <1>5
  <2> HIDE DEF rest
  <2>2. EffortOf(req, rest \cup {d}) = EffortOf(req, rest) + req.demands[d].effort
    BY <2>1, Efforts
  <2>3. EffortOf(req, rest) \in Nat
    BY <2>1, Efforts
  <2>4. req.demands[d].effort \in Nat \ {0}
    BY <2>1 DEF ValidRequest, ValidDemand
  <2> QED BY <2>1, <2>2, <2>3, <2>4
<1>8. EffortOf(req, group) \in Nat
  BY <1>3, Efforts
<1>9. req.slots[s].seats > 0 /\ req.slots[s].rooms > 0 /\ req.slots[s].hours > 0
  BY <1>1, <1>2, <1>3, <1>4, <1>6, <1>7, <1>8
<1>10. Least(req.slots[s].seats, req.slots[s].hours, req.slots[s].rooms)
           \in {req.slots[s].seats, req.slots[s].hours, req.slots[s].rooms}
  BY <1>1, LeastIs
<1> QED BY <1>9, <1>10

\* An assignment stays feasible by the choices that fit, and by no others.
LEMMA FitsOnly ==
    ASSUME NEW req, ValidRequest(req), NEW alloc \in Assignments(req),
           NEW d \in DOMAIN req.demands, d \notin DOMAIN alloc, NEW s \in DOMAIN req.slots
    PROVE  Feasible(req, Place(alloc, d, s)) <=> Feasible(req, alloc) /\ s \in Fitting(req, alloc, d)
<1> DEFINE b == Place(alloc, d, s)
           Allowed(e, t) == req.slots[t].route \in ApprovedRoutes(req, e) /\ Timely(req, e, t)
<1>1. /\ b \in Assignments(req) /\ DOMAIN b = DOMAIN alloc \cup {d} /\ b[d] = s
      /\ \A e \in DOMAIN alloc : b[e] = alloc[e]
      /\ Members(b, s) = Members(alloc, s) \cup {d}
      /\ \A t \in DOMAIN req.slots : t # s => Members(b, t) = Members(alloc, t)
  <2>1. b \in Assignments(req)
    BY PlacedOne
  <2>2. DOMAIN b = DOMAIN alloc \cup {d} /\ b[d] = s
    BY DEF Place
  <2>3. \A e \in DOMAIN alloc : b[e] = alloc[e]
    BY PlacedKeeps
  <2>4. Members(b, s) = Members(alloc, s) \cup {d} /\ \A t : t # s => Members(b, t) = Members(alloc, t)
    BY PlacedMembers
  <2> QED BY <2>1, <2>2, <2>3, <2>4
<1>2. SlotKept(req, b, s) <=> SlotKept(req, alloc, s) /\ ChoiceFits(req, alloc, d, s)
  BY SlotTakes
<1>3. \A t \in DOMAIN req.slots : t # s => (SlotKept(req, b, t) <=> SlotKept(req, alloc, t))
  BY <1>1 DEF SlotKept
<1>4. SlotKept(req, b, s) => Least(req.slots[s].seats, req.slots[s].hours, req.slots[s].rooms) > 0
  BY <1>1, SlotInUse
<1> HIDE DEF b
<1>5. Feasible(req, b) <=> /\ \A e \in DOMAIN b : Allowed(e, b[e])
                           /\ \A t \in DOMAIN req.slots : SlotKept(req, b, t)
  BY DEF Feasible
<1>6. Feasible(req, alloc) <=> /\ \A e \in DOMAIN alloc : Allowed(e, alloc[e])
                               /\ \A t \in DOMAIN req.slots : SlotKept(req, alloc, t)
  BY DEF Feasible
<1>7. s \in Fitting(req, alloc, d) <=>
          /\ Allowed(d, s) /\ ChoiceFits(req, alloc, d, s)
          /\ Least(req.slots[s].seats, req.slots[s].hours, req.slots[s].rooms) > 0
  BY DEF Fitting, CandidateSet
<1> HIDE DEF Allowed
<1>8. (\A e \in DOMAIN b : Allowed(e, b[e])) <=> Allowed(d, s) /\ \A e \in DOMAIN alloc : Allowed(e, alloc[e])
  BY <1>1
<1>9. (\A t \in DOMAIN req.slots : SlotKept(req, b, t)) <=>
          (\A t \in DOMAIN req.slots : SlotKept(req, alloc, t)) /\ ChoiceFits(req, alloc, d, s)
  BY <1>2, <1>3
<1>10. Feasible(req, b) <=> Feasible(req, alloc) /\ s \in Fitting(req, alloc, d)
  BY <1>2, <1>4, <1>5, <1>6, <1>7, <1>8, <1>9
<1> QED BY <1>10 DEF b

\* Every assignment that serves a demand comes from one that does not.
LEMMA PlacedLast ==
    ASSUME NEW req, NEW b \in Assignments(req), NEW d \in DOMAIN b
    PROVE  LET alloc == [e \in DOMAIN b \ {d} |-> b[e]]
           IN  /\ alloc \in Assignments(req) /\ DOMAIN alloc = DOMAIN b \ {d}
               /\ d \in DOMAIN req.demands \ DOMAIN alloc /\ b[d] \in DOMAIN req.slots
               /\ b = Place(alloc, d, b[d])
<1> DEFINE alloc == [e \in DOMAIN b \ {d} |-> b[e]]
<1>1. DOMAIN b \subseteq DOMAIN req.demands /\ b \in [DOMAIN b -> DOMAIN req.slots]
  BY AssignmentIs
<1>2. DOMAIN alloc = DOMAIN b \ {d} /\ \A e \in DOMAIN b \ {d} : alloc[e] = b[e]
  OBVIOUS
<1>3. alloc \in [DOMAIN b \ {d} -> DOMAIN req.slots]
  BY <1>1
<1> HIDE DEF alloc
<1>4. alloc \in Assignments(req)
  BY <1>1, <1>2, <1>3, AssignmentIs
<1>5. d \in DOMAIN req.demands \ DOMAIN alloc /\ b[d] \in DOMAIN req.slots
  BY <1>1, <1>2
<1>6. b = Place(alloc, d, b[d])
  <2>1. b = [e \in DOMAIN b |-> b[e]] /\ DOMAIN alloc \cup {d} = DOMAIN b
    BY <1>1, <1>2
  <2>2. \A e \in DOMAIN b : b[e] = IF e = d THEN b[d] ELSE alloc[e]
    BY <1>2
  <2> QED BY <2>1, <2>2 DEF Place
<1> QED BY <1>2, <1>4, <1>5, <1>6 DEF alloc

-----------------------------------------------------------------------------
(* The search                                                              *)

LEMMA ListedSeq ==
    ASSUME NEW S, NEW seq, Lists(seq, S)
    PROVE  /\ seq \in Seq(S) /\ Len(seq) = Cardinality(S) /\ Len(seq) \in Nat
           /\ DOMAIN seq = 1..Len(seq) /\ Range(seq) = S /\ IsInjective(seq)
<1>1. /\ Cardinality(S) \in Nat /\ seq \in [1..Cardinality(S) -> S]
      /\ \A i, j \in 1..Cardinality(S) : seq[i] = seq[j] => i = j
      /\ \A x \in S : \E i \in 1..Cardinality(S) : seq[i] = x
  BY DEF Lists
<1>2. DOMAIN seq = 1..Cardinality(S)
  BY <1>1
<1>3. seq \in Seq(S) /\ Len(seq) = Cardinality(S)
  BY <1>1
<1>4. Range(seq) = S
  BY <1>1, <1>2 DEF Range
<1>5. IsInjective(seq)
  BY <1>1, <1>2 DEF IsInjective
<1> QED BY <1>1, <1>2, <1>3, <1>4, <1>5

\* The assignments one demand's turn makes of one assignment.
Made(req, alloc, d) == {Place(alloc, d, s) : s \in Fitting(req, alloc, d)} \cup {alloc}

LEMMA BranchesAre ==
    ASSUME NEW req, ValidRequest(req), NEW alloc \in Assignments(req), NEW d \in DOMAIN req.demands
    PROVE  /\ Branches(req, alloc, d) \in Seq(Assignments(req))
           /\ Range(Branches(req, alloc, d)) = Made(req, alloc, d)
           /\ d \notin DOMAIN alloc => IsInjective(Branches(req, alloc, d))
<1> DEFINE fit == Fitting(req, alloc, d)
           slots == SlotOrder(req, fit)
           A == Assignments(req)
           last == <<alloc>>
<1>1. fit \in SUBSET DOMAIN req.slots
  BY DEF Fitting, CandidateSet
<1> HIDE DEF fit
<1>2. Lists(slots, fit)
  BY <1>1, SlotsListed
<1> HIDE DEF slots
<1>3. slots \in Seq(fit) /\ DOMAIN slots = 1..Len(slots) /\ Len(slots) \in Nat
      /\ Range(slots) = fit /\ IsInjective(slots)
  BY <1>2, ListedSeq
<1>4. Placed(req, alloc, d) = [i \in DOMAIN slots |-> Place(alloc, d, slots[i])]
  BY DEF Placed, slots, fit
<1>5. \A i \in DOMAIN slots : slots[i] \in fit
  BY <1>3 DEF Range
<1>6. \A s \in fit : Place(alloc, d, s) \in A
  BY <1>1, PlacedOne
<1> HIDE DEF A
<1>7. Placed(req, alloc, d) \in Seq(A)
  <2>1. \A i \in 1..Len(slots) : Place(alloc, d, slots[i]) \in A
    BY <1>3, <1>5, <1>6
  <2> QED BY <1>3, <1>4, <2>1
<1>8. last \in Seq(A) /\ Range(last) = {alloc} /\ IsInjective(last) /\ Len(last) = 1
  BY DEF A, Range, IsInjective
<1>9. Branches(req, alloc, d) = Placed(req, alloc, d) \o last
  BY <1>7 DEF Branches, A
<1>10. Range(Placed(req, alloc, d)) = {Place(alloc, d, s) : s \in fit}
  BY <1>3, <1>4 DEF Range
<1>11. ASSUME d \notin DOMAIN alloc
       PROVE  IsInjective(Placed(req, alloc, d)) /\ Range(Placed(req, alloc, d)) \cap Range(last) = {}
  <2>1. \A s : Place(alloc, d, s)[d] = s /\ d \in DOMAIN Place(alloc, d, s)
    BY DEF Place
  <2>2. \A s, t : Place(alloc, d, s) = Place(alloc, d, t) => s = t
    BY <2>1
  <2>3. \A s : Place(alloc, d, s) # alloc
    BY <1>11, <2>1
  <2>4. IsInjective(Placed(req, alloc, d))
    BY <1>3, <1>4, <2>2 DEF IsInjective
  <2> QED BY <1>8, <1>10, <2>3, <2>4
<1> HIDE DEF last
<1>12. /\ Placed(req, alloc, d) \o last \in Seq(A)
       /\ Range(Placed(req, alloc, d) \o last) = Range(Placed(req, alloc, d)) \cup Range(last)
       /\ d \notin DOMAIN alloc => IsInjective(Placed(req, alloc, d) \o last)
  BY <1>7, <1>8, <1>11, Concatenated
<1> QED BY <1>8, <1>9, <1>10, <1>12 DEF A, fit, Made

\* What the next demand's turn makes of what was reached before it.
Turn(req, before, d) == FlattenSeq([i \in DOMAIN before |-> Branches(req, before[i], d)])

LEMMA TurnIs ==
    ASSUME NEW req, ValidRequest(req), NEW before \in Seq(Assignments(req)), NEW d \in DOMAIN req.demands
    PROVE  LET ss == [i \in DOMAIN before |-> Branches(req, before[i], d)]
           IN  ss \in Seq(Seq(Assignments(req))) /\ DOMAIN ss = DOMAIN before
<1> DEFINE A == Assignments(req)
           ss == [i \in DOMAIN before |-> Branches(req, before[i], d)]
<1>1. DOMAIN before = 1..Len(before) /\ Len(before) \in Nat /\ \A i \in DOMAIN before : before[i] \in A
  BY LenProperties, ElementOfSeq
<1>2. \A i \in DOMAIN before : Branches(req, before[i], d) \in Seq(A)
  BY <1>1, BranchesAre
<1> DEFINE B == Seq(A)
           n == Len(before)
<1>3. ss \in [1..n -> B]
  <2> HIDE DEF A, B, n
  <2> QED BY <1>1, <1>2 DEF n, B
<1>4. n \in Nat
  BY <1>1
<1>5. ss \in Seq(B)
  <2> HIDE DEF B, ss, n
  <2> QED BY <1>3, <1>4
<1> QED BY <1>5

\* The search's recursion has a solution, and goes turn by turn.
LEMMA ReachedTurns ==
    ASSUME NEW req, ValidRequest(req)
    PROVE  LET order == DemandOrder(req)
           IN  /\ Reached(req)[0] = << <<>> >>
               /\ \A n \in 0..Len(order) : Reached(req)[n] \in Seq(Assignments(req))
               /\ \A n \in 1..Len(order) :
                     Reached(req)[n] = Turn(req, Reached(req)[n - 1], order[n])
<1> DEFINE order == DemandOrder(req)
           N == Len(order)
           V == Seq(Assignments(req))
           first == << <<>> >>
           Solves(f) == f = [n \in 0..N |-> IF n = 0 THEN << <<>> >>
                                            ELSE LET before == f[n - 1]
                                                 IN  FlattenSeq([i \in DOMAIN before |->
                                                                    Branches(req, before[i], order[n])])]
           reached == CHOOSE f : Solves(f)
           step == [n \in 1..N |-> [v \in V |-> Turn(req, v, order[n])]]
<1>1. N \in Nat /\ \A n \in 1..N : order[n] \in DOMAIN req.demands
  BY DemandsListed, ListedSeq, ElementOfSeq
<1>2. Reached(req) = reached
  BY DEF Reached
<1>3. \A v \in V : \A n \in 1..N : Turn(req, v, order[n]) \in V
  BY <1>1, TurnIs, Flattened DEF Turn
<1>4. step \in [1..N -> [V -> V]] /\ \A n \in 1..N : \A v \in V : step[n][v] = Turn(req, v, order[n])
  <2> HIDE DEF V, N, order
  <2> QED BY <1>3
<1>5. first \in V
  <2>1. DOMAIN <<>> = {} /\ <<>> \in [{} -> DOMAIN req.slots]
    OBVIOUS
  <2>2. <<>> \in Assignments(req)
    BY <2>1, AssignmentIs
  <2> QED BY <2>2
<1> HIDE DEF V, N, order, step, first
<1>6. PICK f \in [0..N -> V] : f[0] = first /\ \A n \in 1..N : f[n] = step[n][f[n - 1]]
  <2>1. N \in Nat /\ step \in [1..N -> [V -> V]]
    BY <1>1, <1>4
  <2>2. \E f \in [0..N -> V] : f[0] = first /\ \A n \in 1..N : f[n] = step[n][f[n - 1]]
    BY ONLY <2>1, <1>5, Recursion
  <2> QED BY <2>2
<1>7. Solves(f)
  <2>1. ASSUME NEW n \in 0..N, n # 0 PROVE f[n] = Turn(req, f[n - 1], order[n])
    <3>1. n \in 1..N /\ n - 1 \in 0..N
      BY <1>1, <2>1
    <3> QED BY <1>4, <1>6, <3>1
  <2> QED BY <1>6, <2>1 DEF Turn, first
<1>8. Solves(reached)
  <2> HIDE DEF Solves
  <2> QED BY <1>7
<1> HIDE DEF reached
<1>9. \A n \in 0..N : reached[n] = IF n = 0 THEN first ELSE Turn(req, reached[n - 1], order[n])
  BY <1>8 DEF Turn, first
<1>10. reached[0] = first /\ \A n \in 1..N : reached[n] = Turn(req, reached[n - 1], order[n])
  <2>1. 0 \in 0..N /\ \A n \in 1..N : n \in 0..N /\ n # 0
    BY <1>1
  <2> QED BY <1>9, <2>1
<1> DEFINE T == {n \in Nat : n <= N => reached[n] \in V}
<1>11. 0 \in T
  BY <1>5, <1>10
<1>12. ASSUME NEW n \in Nat, n \in T PROVE n + 1 \in T
  <2> SUFFICES ASSUME n + 1 <= N PROVE reached[n + 1] \in V
    OBVIOUS
  <2>1. n + 1 \in 1..N /\ (n + 1) - 1 = n /\ n <= N
    BY <1>1
  <2> QED BY <1>3, <1>10, <1>12, <2>1
<1> HIDE DEF T
<1>13. \A n \in Nat : n \in T
  BY <1>11, <1>12, Inductive
<1>14. \A n \in 0..N : reached[n] \in V
  BY <1>1, <1>13 DEF T
<1> QED BY <1>2, <1>10, <1>14 DEF N, V, order, first

\* The feasible assignments that serve demands of D only.
FeasibleWithin(req, D) == {alloc \in FeasibleAssignments(req) : DOMAIN alloc \subseteq D}

\* What is left of an assignment when a demand is taken out.
Without(alloc, d) == [e \in DOMAIN alloc \ {d} |-> alloc[e]]

\* A turn makes of the feasible assignments over D those over D and d, each from one of them.
LEMMA TurnMakes ==
    ASSUME NEW req, ValidRequest(req), NEW D, NEW d \in DOMAIN req.demands, d \notin D
    PROVE  /\ FeasibleWithin(req, D \cup {d}) =
                  UNION {Made(req, a, d) : a \in FeasibleWithin(req, D)}
           /\ \A a \in FeasibleWithin(req, D) : \A b \in Made(req, a, d) : a = Without(b, d)
<1>1. ASSUME NEW a \in FeasibleWithin(req, D), NEW b \in Made(req, a, d)
      PROVE  b \in FeasibleWithin(req, D \cup {d}) /\ a = Without(b, d)
  <2>1. a \in Assignments(req) /\ Feasible(req, a) /\ DOMAIN a \subseteq D /\ d \notin DOMAIN a
    BY DEF FeasibleWithin, FeasibleAssignments
  <2>2. CASE b = a
    <3>1. a = [e \in DOMAIN a |-> a[e]]
      BY <2>1, AssignmentIs
    <3> QED BY <2>1, <2>2, <3>1 DEF FeasibleWithin, FeasibleAssignments, Without
  <2>3. ASSUME NEW s \in Fitting(req, a, d), b = Place(a, d, s)
        PROVE  b \in FeasibleWithin(req, D \cup {d}) /\ a = Without(b, d)
    <3>1. s \in DOMAIN req.slots
      BY <2>3 DEF Fitting, CandidateSet
    <3>2. Feasible(req, Place(a, d, s))
      BY <2>1, <2>3, <3>1, FitsOnly
    <3>3. Place(a, d, s) \in Assignments(req) /\ DOMAIN Place(a, d, s) = DOMAIN a \cup {d}
      BY <2>1, <3>1, PlacedOne, PlacedServed
    <3>4. a = Without(Place(a, d, s), d)
      <4>1. a = [e \in DOMAIN a |-> a[e]]
        BY <2>1, AssignmentIs
      <4>2. (DOMAIN a \cup {d}) \ {d} = DOMAIN a
        BY <2>1
      <4>3. \A e \in DOMAIN a : Place(a, d, s)[e] = a[e]
        BY <2>1, PlacedKeeps
      <4> QED BY <3>3, <4>1, <4>2, <4>3 DEF Without
    <3> QED BY <2>1, <2>3, <3>2, <3>3, <3>4 DEF FeasibleWithin, FeasibleAssignments
  <2> QED BY <2>2, <2>3 DEF Made
<1>2. ASSUME NEW b \in FeasibleWithin(req, D \cup {d})
      PROVE  \E a \in FeasibleWithin(req, D) : b \in Made(req, a, d)
  <2>1. b \in Assignments(req) /\ Feasible(req, b) /\ DOMAIN b \subseteq D \cup {d}
    BY DEF FeasibleWithin, FeasibleAssignments
  <2>2. CASE d \notin DOMAIN b
    BY <2>1, <2>2 DEF FeasibleWithin, FeasibleAssignments, Made
  <2>3. CASE d \in DOMAIN b
    <3> DEFINE a == Without(b, d)
    <3>1. /\ a \in Assignments(req) /\ DOMAIN a = DOMAIN b \ {d} /\ b[d] \in DOMAIN req.slots
          /\ b = Place(a, d, b[d])
      BY <2>1, <2>3, PlacedLast DEF Without
    <3> HIDE DEF a
    <3>2. d \notin DOMAIN a /\ DOMAIN a \subseteq D
      BY <2>1, <3>1
    <3>3. Feasible(req, Place(a, d, b[d])) <=> Feasible(req, a) /\ b[d] \in Fitting(req, a, d)
      BY <3>1, <3>2, FitsOnly
    <3>4. Feasible(req, a) /\ b[d] \in Fitting(req, a, d)
      BY <2>1, <3>1, <3>3
    <3> QED BY <3>1, <3>2, <3>4 DEF FeasibleWithin, FeasibleAssignments, Made
  <2> QED BY <2>2, <2>3
<1> QED BY <1>1, <1>2

\* After n demands the search has reached the feasible assignments that serve no other
\* demand, each of them once.
LEMMA ReachedAre ==
    ASSUME NEW req, ValidRequest(req), NEW n \in 0..Len(DemandOrder(req))
    PROVE  /\ Reached(req)[n] \in Seq(Assignments(req))
           /\ Range(Reached(req)[n]) = FeasibleWithin(req, {DemandOrder(req)[i] : i \in 1..n})
           /\ IsInjective(Reached(req)[n])
<1> DEFINE order == DemandOrder(req)
           N == Len(order)
           R == Reached(req)
           A == Assignments(req)
           D(k) == {order[i] : i \in 1..k}
           Good(k) == Range(R[k]) = FeasibleWithin(req, D(k)) /\ IsInjective(R[k])
           T == {k \in Nat : k <= N => Good(k)}
<1>1. /\ N \in Nat /\ (\A i \in 1..N : order[i] \in DOMAIN req.demands)
      /\ \A i, j \in 1..N : order[i] = order[j] => i = j
  BY DemandsListed, ListedSeq, ElementOfSeq DEF IsInjective
<1>2. R[0] = << <<>> >> /\ \A k \in 1..N : R[k] = Turn(req, R[k - 1], order[k])
  BY ReachedTurns
<1>3. \A k \in 0..N : R[k] \in Seq(A)
  BY ReachedTurns
<1> HIDE DEF order, N, R
<1>4. 0 \in T
  <2>1. D(0) = {}
    OBVIOUS
  <2>2. ASSUME NEW a \in A, DOMAIN a \subseteq {} PROVE a = <<>>
    <3>1. a \in [DOMAIN a -> DOMAIN req.slots]
      BY AssignmentIs
    <3>2. DOMAIN a = 1..0
      BY <2>2
    <3>3. a \in Seq(DOMAIN req.slots) /\ Len(a) = 0
      BY <3>1, <3>2
    <3> QED BY <3>3, EmptySeq
  <2>3. <<>> \in FeasibleAssignments(req)
    <3>1. DOMAIN <<>> = {} /\ <<>> \in [{} -> DOMAIN req.slots]
      OBVIOUS
    <3>2. <<>> \in Assignments(req)
      BY <3>1, AssignmentIs
    <3>3. ASSUME NEW s \in DOMAIN req.slots PROVE SlotKept(req, <<>>, s)
      <4>1. Members(<<>>, s) = {}
        BY <3>1 DEF Members
      <4>2. Cardinality({}) = 0
        BY FS_EmptySet
      <4>3. EffortOf(req, {}) = 0
        BY NoEffort
      <4>4. Least(req.slots[s].seats, req.slots[s].rooms, req.policy.maxGroup) \in Nat
            /\ req.slots[s].hours \in Nat
        BY SlotIs, LeastIs
      <4>5. /\ Cardinality({}) <= Least(req.slots[s].seats, req.slots[s].rooms, req.policy.maxGroup)
            /\ EffortOf(req, {}) <= req.slots[s].hours
        BY <4>2, <4>3, <4>4
      <4> QED BY <4>1, <4>5 DEF SlotKept
    <3> QED BY <3>1, <3>2, <3>3 DEF FeasibleAssignments, Feasible
  <2>4. FeasibleWithin(req, {}) = {<<>>}
    BY <2>2, <2>3 DEF FeasibleWithin, FeasibleAssignments
  <2>5. Range(<< <<>> >>) = {<<>>} /\ IsInjective(<< <<>> >>)
    BY DEF Range, IsInjective
  <2> QED BY <1>2, <2>1, <2>4, <2>5
<1>5. ASSUME NEW k \in Nat, k \in T PROVE k + 1 \in T
  <2> SUFFICES ASSUME k + 1 <= N PROVE Good(k + 1)
    OBVIOUS
  <2> DEFINE before == R[k]
             d == order[k + 1]
             ss == [i \in DOMAIN before |-> Branches(req, before[i], d)]
  <2>1. k \in 0..N /\ k + 1 \in 1..N /\ (k + 1) - 1 = k /\ Good(k)
    BY <1>1, <1>5
  <2>2. d \in DOMAIN req.demands /\ d \notin D(k) /\ D(k + 1) = D(k) \cup {d}
    <3>1. d \notin D(k)
      <4> SUFFICES ASSUME NEW i \in 1..k, order[i] = d PROVE FALSE
        OBVIOUS
      <4>1. i \in 1..N /\ i # k + 1
        BY <1>1, <2>1
      <4> QED BY <1>1, <2>1, <4>1
    <3>2. 1..(k + 1) = 1..k \cup {k + 1}
      OBVIOUS
    <3> QED BY <1>1, <2>1, <3>1, <3>2
  <2>3. before \in Seq(A) /\ R[k + 1] = FlattenSeq(ss)
    BY <1>2, <1>3, <2>1 DEF Turn
  <2>4. Range(before) = FeasibleWithin(req, D(k)) /\ IsInjective(before)
    BY <2>1
  <2>5. ss \in Seq(Seq(A)) /\ DOMAIN ss = DOMAIN before
    BY <2>2, <2>3, TurnIs
  <2>6. \A i \in DOMAIN before : before[i] \in FeasibleWithin(req, D(k)) /\ ss[i] = Branches(req, before[i], d)
    BY <2>4 DEF Range
  <2> HIDE DEF before, d, ss
  <2>7. ASSUME NEW i \in DOMAIN before PROVE Range(ss[i]) = Made(req, before[i], d) /\ IsInjective(ss[i])
    <3>1. before[i] \in A /\ d \notin DOMAIN before[i]
      BY <2>2, <2>6 DEF FeasibleWithin, FeasibleAssignments
    <3>2. /\ Range(Branches(req, before[i], d)) = Made(req, before[i], d)
          /\ d \notin DOMAIN before[i] => IsInjective(Branches(req, before[i], d))
      BY <2>2, <3>1, BranchesAre
    <3> QED BY <2>6, <3>1, <3>2
  <2> HIDE DEF D
  <2>8. /\ FeasibleWithin(req, D(k) \cup {d}) = UNION {Made(req, a, d) : a \in FeasibleWithin(req, D(k))}
        /\ \A a \in FeasibleWithin(req, D(k)) : \A b \in Made(req, a, d) : a = Without(b, d)
    BY <2>2, TurnMakes
  <2> HIDE DEF A
  <2>9. \A i, j \in DOMAIN ss : i # j => Range(ss[i]) \cap Range(ss[j]) = {}
    <3> SUFFICES ASSUME NEW i \in DOMAIN ss, NEW j \in DOMAIN ss, NEW b \in Range(ss[i]) \cap Range(ss[j])
                 PROVE  i = j
      OBVIOUS
    <3>1. before[i] = Without(b, d) /\ before[j] = Without(b, d)
      BY <2>5, <2>6, <2>7, <2>8
    <3> QED BY <2>4, <2>5, <3>1 DEF IsInjective
  <2>10. \A i \in DOMAIN ss : IsInjective(ss[i])
    BY <2>5, <2>7
  <2>11. UNION {Range(ss[i]) : i \in DOMAIN ss} = UNION {Made(req, a, d) : a \in FeasibleWithin(req, D(k))}
    <3>1. \A a \in FeasibleWithin(req, D(k)) : \E i \in DOMAIN before : before[i] = a
      BY <2>4 DEF Range
    <3> QED BY <2>5, <2>6, <2>7, <3>1
  <2>12. /\ Range(FlattenSeq(ss)) = UNION {Range(ss[i]) : i \in DOMAIN ss}
         /\ IsInjective(FlattenSeq(ss))
    BY <2>5, <2>9, <2>10, Flattened
  <2> QED BY <2>2, <2>3, <2>8, <2>11, <2>12
<1> HIDE DEF T
<1>6. n \in T
  BY <1>1, <1>4, <1>5, Inductive DEF N, order
<1>7. n \in 0..N
  BY DEF N, order
<1> QED BY <1>1, <1>3, <1>6, <1>7 DEF T, A, R, order

\* The leaves of the search are the feasible assignments, each of them once
\* (planning/services.py:119-144).
THEOREM LeavesAre ==
    ASSUME NEW req, ValidRequest(req)
    PROVE  /\ Leaves(req) \in Seq(FeasibleAssignments(req))
           /\ Range(Leaves(req)) = FeasibleAssignments(req)
           /\ IsInjective(Leaves(req))
           /\ Len(Leaves(req)) \in Nat \ {0}
<1> DEFINE order == DemandOrder(req)
           N == Len(order)
<1>1. N \in Nat /\ DOMAIN order = 1..N /\ Range(order) = DOMAIN req.demands
  BY DemandsListed, ListedSeq
<1>2. {order[i] : i \in 1..N} = DOMAIN req.demands
  BY <1>1 DEF Range
<1>3. FeasibleWithin(req, DOMAIN req.demands) = FeasibleAssignments(req)
  BY AssignmentIs DEF FeasibleWithin, FeasibleAssignments
<1>4. N \in 0..N
  BY <1>1
<1>5. /\ Leaves(req) \in Seq(Assignments(req)) /\ IsInjective(Leaves(req))
      /\ Range(Leaves(req)) = FeasibleAssignments(req)
  BY <1>2, <1>3, <1>4, ReachedAre DEF Leaves
<1>6. DOMAIN Leaves(req) = 1..Len(Leaves(req)) /\ Len(Leaves(req)) \in Nat
  BY <1>5, LenProperties
<1>7. Leaves(req) \in [1..Len(Leaves(req)) -> FeasibleAssignments(req)]
  <2>1. Leaves(req) \in [1..Len(Leaves(req)) -> Assignments(req)]
    BY <1>5, LenProperties
  <2> QED BY <1>5, <1>6, <2>1 DEF Range
<1>8. Leaves(req) \in Seq(FeasibleAssignments(req))
  BY <1>6, <1>7
<1>9. FeasibleAssignments(req) # {}
  <2>1. 0 \in 0..N /\ Reached(req)[0] = << <<>> >> /\ {order[i] : i \in 1..0} = {}
    BY <1>1, ReachedTurns
  <2>2. Range(Reached(req)[0]) = FeasibleWithin(req, {})
    BY <2>1, ReachedAre
  <2> QED BY <2>1, <2>2 DEF Range, FeasibleWithin
<1> QED BY <1>5, <1>6, <1>8, <1>9 DEF Range

-----------------------------------------------------------------------------
(* The rank of an assignment is a strict order                             *)

\* A finite set has a first member in any strict order of it.
LEMMA FirstIn ==
    ASSUME NEW S, IsFiniteSet(S), S # {}, NEW less, StrictOrder(S, less)
    PROVE  \E p \in S : \A q \in S \ {p} : <<p, q>> \in less
<1> DEFINE n == Cardinality(S)
           p == InOrder(S, less)[1]
<1>1. n \in Nat /\ n # 0
  BY FS_CardinalityType, FS_EmptySet
<1>2. /\ InOrder(S, less) \in [1..n -> S]
      /\ \A i \in 1..n : Cardinality({y \in S : <<y, InOrder(S, less)[i]>> \in less}) = i - 1
  BY InOrderLists
<1>3. 1 \in 1..n
  BY <1>1
<1>4. p \in S /\ Cardinality({y \in S : <<y, p>> \in less}) = 0
  BY <1>2, <1>3
<1> HIDE DEF p
<1>5. {y \in S : <<y, p>> \in less} = {}
  <2>1. IsFiniteSet({y \in S : <<y, p>> \in less})
    BY FS_Subset
  <2> QED BY <1>4, <2>1, FS_EmptySet
<1> QED BY <1>4, <1>5 DEF StrictOrder

LEMMA PairsOrdered ==
    ASSUME NEW x \in Int \X Int, NEW y \in Int \X Int, NEW z \in Int \X Int
    PROVE  /\ ~LexLess(x, x)
           /\ LexLess(x, y) /\ LexLess(y, z) => LexLess(x, z)
           /\ x = y \/ LexLess(x, y) \/ LexLess(y, x)
<1> PICK a \in Int, b \in Int : x = <<a, b>>
  OBVIOUS
<1> PICK c \in Int, d \in Int : y = <<c, d>>
  OBVIOUS
<1> PICK e \in Int, f \in Int : z = <<e, f>>
  OBVIOUS
<1>1. LexLess(<<a, b>>, <<a, b>>) <=> a < a \/ (a = a /\ b < b)
  BY LexPair
<1>2. LexLess(<<a, b>>, <<c, d>>) <=> a < c \/ (a = c /\ b < d)
  BY LexPair
<1>3. LexLess(<<c, d>>, <<e, f>>) <=> c < e \/ (c = e /\ d < f)
  BY LexPair
<1>4. LexLess(<<a, b>>, <<e, f>>) <=> a < e \/ (a = e /\ b < f)
  BY LexPair
<1>5. LexLess(<<c, d>>, <<a, b>>) <=> c < a \/ (c = a /\ d < b)
  BY LexPair
<1> QED BY <1>1, <1>2, <1>3, <1>4, <1>5

LEMMA TriplesOrdered ==
    ASSUME NEW x \in Int \X Int \X Int, NEW y \in Int \X Int \X Int, NEW z \in Int \X Int \X Int
    PROVE  /\ ~LexLess(x, x)
           /\ LexLess(x, y) /\ LexLess(y, z) => LexLess(x, z)
           /\ x = y \/ LexLess(x, y) \/ LexLess(y, x)
<1> PICK a \in Int, b \in Int, c \in Int : x = <<a, b, c>>
  OBVIOUS
<1> PICK d \in Int, e \in Int, f \in Int : y = <<d, e, f>>
  OBVIOUS
<1> PICK g \in Int, h \in Int, i \in Int : z = <<g, h, i>>
  OBVIOUS
<1>0. /\ a \in Int /\ b \in Int /\ c \in Int /\ d \in Int /\ e \in Int /\ f \in Int
      /\ g \in Int /\ h \in Int /\ i \in Int
  OBVIOUS
<1>1. LexLess(<<a, b, c>>, <<a, b, c>>) <=> a < a \/ (a = a /\ b < b) \/ (a = a /\ b = b /\ c < c)
  BY ONLY <1>0, LexTriple, SMTT(30)
<1>2. LexLess(<<a, b, c>>, <<d, e, f>>) <=> a < d \/ (a = d /\ b < e) \/ (a = d /\ b = e /\ c < f)
  BY ONLY <1>0, LexTriple, SMTT(30)
<1>3. LexLess(<<d, e, f>>, <<g, h, i>>) <=> d < g \/ (d = g /\ e < h) \/ (d = g /\ e = h /\ f < i)
  BY ONLY <1>0, LexTriple, SMTT(30)
<1>4. LexLess(<<a, b, c>>, <<g, h, i>>) <=> a < g \/ (a = g /\ b < h) \/ (a = g /\ b = h /\ c < i)
  BY ONLY <1>0, LexTriple, SMTT(30)
<1>5. LexLess(<<d, e, f>>, <<a, b, c>>) <=> d < a \/ (d = a /\ e < b) \/ (d = a /\ e = b /\ f < c)
  BY ONLY <1>0, LexTriple, SMTT(30)
<1> QED BY <1>1, <1>2, <1>3, <1>4, <1>5

\* A finite set of pairs has a first one.
LEMMA FirstPair ==
    ASSUME NEW S \in SUBSET (Int \X Int), IsFiniteSet(S), S # {}
    PROVE  \E p \in S : \A q \in S \ {p} : LexLess(p, q)
<1> DEFINE less == {p \in S \X S : LexLess(p[1], p[2])}
<1>1. \A x, y \in S : <<x, y>> \in less <=> LexLess(x, y)
  OBVIOUS
<1> HIDE DEF less
<1>2. \A x, y, z \in S : /\ ~LexLess(x, x)
                         /\ LexLess(x, y) /\ LexLess(y, z) => LexLess(x, z)
                         /\ x = y \/ LexLess(x, y) \/ LexLess(y, x)
  BY PairsOrdered
<1>3. StrictOrder(S, less)
  BY <1>1, <1>2 DEF StrictOrder
<1>4. \E p \in S : \A q \in S \ {p} : <<p, q>> \in less
  BY <1>3, FirstIn
<1> QED BY <1>1, <1>4

\* A finite set of numbers has a least one.
LEMMA LeastIn ==
    ASSUME NEW S \in SUBSET Int, IsFiniteSet(S), S # {}
    PROVE  Min(S) \in S /\ \A y \in S : Min(S) <= y
<1> DEFINE less == {p \in S \X S : p[1] < p[2]}
<1>1. \A x, y \in S : <<x, y>> \in less <=> x < y
  OBVIOUS
<1> HIDE DEF less
<1>2. StrictOrder(S, less)
  BY <1>1 DEF StrictOrder
<1>3. PICK p \in S : \A q \in S \ {p} : <<p, q>> \in less
  BY <1>2, FirstIn
<1>4. \A y \in S : p <= y
  <2> TAKE y \in S
  <2>1. CASE y = p
    BY <2>1
  <2>2. CASE y # p
    <3>1. <<p, y>> \in less
      BY <1>3, <2>2
    <3>2. p < y
      BY <1>1, <3>1
    <3> QED BY <3>2
  <2> QED BY <2>1, <2>2
<1>5. Min(S) = CHOOSE x \in S : \A y \in S : x <= y
  BY DEF Min
<1> QED BY <1>4, <1>5

\* The pairs of an assignment are a finite set of pairs of numbers that tell it apart.
LEMMA PairsAre ==
    ASSUME NEW req, ValidRequest(req), NEW a \in Assignments(req)
    PROVE  /\ Pairs(a) \in SUBSET (Int \X Int) /\ IsFiniteSet(Pairs(a))
           /\ \A b \in Assignments(req) : Pairs(a) = Pairs(b) => a = b
<1> DEFINE D == DOMAIN a
<1>1. D \subseteq DOMAIN req.demands /\ a \in [D -> DOMAIN req.slots]
  BY AssignmentIs
<1>2. IsFiniteSet(DOMAIN req.demands) /\ DOMAIN req.demands \subseteq Int /\ DOMAIN req.slots \subseteq Int
  BY DEF ValidRequest
<1>3. Pairs(a) \in SUBSET (Int \X Int)
  BY <1>1, <1>2 DEF Pairs
<1>4. IsFiniteSet(Pairs(a))
  <2>1. IsFiniteSet(D)
    BY <1>1, <1>2, FS_Subset
  <2> DEFINE f == [d \in D |-> <<d, a[d]>>]
  <2>2. f \in Surjection(D, Pairs(a))
    BY DEF Surjection, Pairs
  <2> HIDE DEF f
  <2> QED BY <2>1, <2>2, FS_Surjection
<1>5. ASSUME NEW b \in Assignments(req), Pairs(a) = Pairs(b) PROVE a = b
  <2>1. b = [d \in DOMAIN b |-> b[d]] /\ a = [d \in DOMAIN a |-> a[d]]
    BY <1>1, AssignmentIs
  <2>2. \A d \in DOMAIN a : d \in DOMAIN b /\ b[d] = a[d]
    <3> TAKE d \in DOMAIN a
    <3>1. <<d, a[d]>> \in Pairs(b)
      BY <1>5 DEF Pairs
    <3> QED BY <3>1 DEF Pairs
  <2>3. \A d \in DOMAIN b : d \in DOMAIN a
    <3> TAKE d \in DOMAIN b
    <3>1. <<d, b[d]>> \in Pairs(a)
      BY <1>5 DEF Pairs
    <3> QED BY <3>1 DEF Pairs
  <2>4. DOMAIN a = DOMAIN b
    BY <2>2, <2>3
  <2> QED BY <2>1, <2>2, <2>4
<1> QED BY <1>3, <1>4, <1>5

\* Which of two sets of pairs has the first pair they do not share.
Ahead(A, B) == \E p \in A : p \notin B /\ \A q \in (A \ B) \cup (B \ A) : q # p => LexLess(p, q)

LEMMA AheadOrdered ==
    ASSUME NEW A \in SUBSET (Int \X Int), NEW B \in SUBSET (Int \X Int), NEW C \in SUBSET (Int \X Int),
           IsFiniteSet(A), IsFiniteSet(B)
    PROVE  /\ ~Ahead(A, A)
           /\ Ahead(A, B) /\ Ahead(B, C) => Ahead(A, C)
           /\ A = B \/ Ahead(A, B) \/ Ahead(B, A)
<1>1. \A x, y, z \in A \cup B \cup C : /\ ~LexLess(x, x)
                                       /\ LexLess(x, y) /\ LexLess(y, z) => LexLess(x, z)
  BY PairsOrdered
<1>2. ~Ahead(A, A)
  BY DEF Ahead
<1>3. ASSUME Ahead(A, B), Ahead(B, C) PROVE Ahead(A, C)
  <2>1. PICK p \in A : p \notin B /\ \A q \in (A \ B) \cup (B \ A) : q # p => LexLess(p, q)
    BY <1>3 DEF Ahead
  <2>2. PICK r \in B : r \notin C /\ \A q \in (B \ C) \cup (C \ B) : q # r => LexLess(r, q)
    BY <1>3 DEF Ahead
  <2>3. \A q \in (A \ C) \cup (C \ A) : q \in (A \ B) \cup (B \ A) \/ q \in (B \ C) \cup (C \ B)
    OBVIOUS
  <2>4. p # r
    BY <2>1
  <2>5. CASE p \in C
    <3>1. LexLess(r, p)
      BY <2>1, <2>2, <2>4, <2>5
    <3>2. r \in A
      BY <1>1, <2>1, <2>2, <2>4, <3>1
    <3>3. \A q \in (A \ C) \cup (C \ A) : q # r => LexLess(r, q)
      BY <1>1, <2>1, <2>2, <2>3, <3>1
    <3> QED BY <2>2, <3>2, <3>3 DEF Ahead
  <2>6. CASE p \notin C
    <3>1. CASE r \in A
      <4>1. CASE LexLess(p, r)
        BY <1>1, <2>1, <2>2, <2>3, <2>6, <4>1 DEF Ahead
      <4>2. CASE LexLess(r, p)
        BY <1>1, <2>1, <2>2, <2>3, <2>6, <3>1, <4>2 DEF Ahead
      <4> QED BY <2>4, <4>1, <4>2, PairsOrdered
    <3>2. CASE r \notin A
      <4>1. LexLess(p, r)
        BY <2>1, <2>4, <3>2
      <4>2. \A q \in (A \ C) \cup (C \ A) : q # p => LexLess(p, q)
        BY <1>1, <2>1, <2>2, <2>3, <4>1
      <4> QED BY <2>6, <4>2 DEF Ahead
    <3> QED BY <3>1, <3>2
  <2> QED BY <2>5, <2>6
<1>4. A = B \/ Ahead(A, B) \/ Ahead(B, A)
  <2> DEFINE apart == (A \ B) \cup (B \ A)
  <2> SUFFICES ASSUME A # B PROVE Ahead(A, B) \/ Ahead(B, A)
    OBVIOUS
  <2>1. apart # {} /\ apart \in SUBSET (Int \X Int) /\ apart \subseteq A \cup B
    OBVIOUS
  <2>2. IsFiniteSet(apart)
    BY <2>1, FS_Union, FS_Subset
  <2> HIDE DEF apart
  <2>3. PICK p \in apart : \A q \in apart \ {p} : LexLess(p, q)
    BY <2>1, <2>2, FirstPair
  <2> QED BY <2>3 DEF apart, Ahead
<1> QED BY <1>2, <1>3, <1>4

LEMMA ScoreIs ==
    ASSUME NEW req, ValidRequest(req), NEW a \in Assignments(req)
    PROVE  MandatoryMet(req, a) \in Nat /\ Cardinality(DOMAIN a) \in Nat /\ Wait(req, a) \in Int
<1>1. DOMAIN a \subseteq DOMAIN req.demands /\ \A d \in DOMAIN a : a[d] \in DOMAIN req.slots
  BY AssignmentIs
<1>2. IsFiniteSet(DOMAIN a)
  BY <1>1, FS_Subset DEF ValidRequest
<1>3. MandatoryMet(req, a) \in Nat
  <2>1. IsFiniteSet({d \in DOMAIN a : req.demands[d].mandatory})
    BY <1>2, FS_Subset
  <2> QED BY <2>1, FS_CardinalityType DEF MandatoryMet
<1>4. Wait(req, a) \in Int
  <2> DEFINE S == DOMAIN a
             w == [d \in S |-> req.slots[a[d]].day - req.demands[d].requested]
  <2>1. \A d \in S : req.slots[a[d]].day - req.demands[d].requested \in Int
    <3> TAKE d \in S
    <3>1. req.slots[a[d]].day \in Int /\ req.demands[d].requested \in Int
      BY <1>1, SlotIs DEF ValidRequest, ValidDemand
    <3> QED BY <3>1
  <2>2. w \in [S -> Int] /\ w = [d \in S |-> w[d]]
    BY <2>1
  <2>3. Wait(req, a) = SumFunction(w)
    BY DEF Wait
  <2> HIDE DEF w
  <2>4. S \in SUBSET S /\ IsFiniteSet(S)
    BY <1>2
  <2> HIDE DEF S
  <2>5. SumOver(w, S) \in Int
    BY <2>2, <2>4, Sums
  <2> QED BY <2>2, <2>3, <2>5 DEF SumOver
<1> QED BY <1>2, <1>3, <1>4, FS_CardinalityType

LEMMA LexicallyAhead ==
    ASSUME NEW a, NEW b
    PROVE  LexicallyLess(a, b) <=> Ahead(Pairs(a), Pairs(b))
<1> DEFINE A == Pairs(a)
           B == Pairs(b)
<1>1. LexicallyLess(a, b) <=> \E p \in A : p \in (A \ B) \cup (B \ A)
                                           /\ \A q \in ((A \ B) \cup (B \ A)) \ {p} : LexLess(p, q)
  BY DEF LexicallyLess
<1>2. Ahead(A, B) <=> \E p \in A : p \notin B /\ \A q \in (A \ B) \cup (B \ A) : q # p => LexLess(p, q)
  BY DEF Ahead
<1> HIDE DEF A, B
<1>3. \A p \in A : p \in (A \ B) \cup (B \ A) <=> p \notin B
  OBVIOUS
<1>4. LexicallyLess(a, b) <=> Ahead(A, B)
  BY <1>1, <1>2, <1>3
<1> QED BY <1>4 DEF A, B

\* Of two different assignments exactly one ranks before the other, and ranks are transitive
\* (planning/services.py:227-238).
THEOREM RankOrders ==
    ASSUME NEW req, ValidRequest(req),
           NEW a \in Assignments(req), NEW b \in Assignments(req), NEW c \in Assignments(req)
    PROVE  /\ ~RankLess(req, a, a)
           /\ RankLess(req, a, b) /\ RankLess(req, b, c) => RankLess(req, a, c)
           /\ a = b \/ RankLess(req, a, b) \/ RankLess(req, b, a)
<1> DEFINE S(x) == Score(req, x)
           P(x) == Pairs(x)
<1>1. \A x \in Assignments(req) : S(x) \in Int \X Int \X Int
  <2> TAKE x \in Assignments(req)
  <2>1. MandatoryMet(req, x) \in Nat /\ Cardinality(DOMAIN x) \in Nat /\ Wait(req, x) \in Int
    BY ScoreIs
  <2> QED BY <2>1 DEF Score
<1>2. \A x, y : RankLess(req, x, y) <=> LexLess(S(x), S(y)) \/ (S(x) = S(y) /\ Ahead(P(x), P(y)))
  BY LexicallyAhead DEF RankLess
<1>3. \A x \in Assignments(req) : P(x) \in SUBSET (Int \X Int) /\ IsFiniteSet(P(x))
  BY PairsAre
<1>4. P(a) = P(b) => a = b
  BY PairsAre
<1> HIDE DEF S, P
<1>5. /\ ~LexLess(S(a), S(a))
      /\ LexLess(S(a), S(b)) /\ LexLess(S(b), S(c)) => LexLess(S(a), S(c))
      /\ S(a) = S(b) \/ LexLess(S(a), S(b)) \/ LexLess(S(b), S(a))
  BY <1>1, TriplesOrdered
<1>6. /\ ~Ahead(P(a), P(a))
      /\ Ahead(P(a), P(b)) /\ Ahead(P(b), P(c)) => Ahead(P(a), P(c))
      /\ P(a) = P(b) \/ Ahead(P(a), P(b)) \/ Ahead(P(b), P(a))
  BY <1>3, AheadOrdered
<1>7. ~RankLess(req, a, a)
  BY <1>2, <1>5, <1>6
<1>8. RankLess(req, a, b) /\ RankLess(req, b, c) => RankLess(req, a, c)
  BY <1>2, <1>5, <1>6
<1>9. a = b \/ RankLess(req, a, b) \/ RankLess(req, b, a)
  BY <1>2, <1>4, <1>5, <1>6
<1> QED BY <1>7, <1>8, <1>9

-----------------------------------------------------------------------------
(* The primary plan and the alternatives                                   *)

\* The first search keeps a leaf that no other one ranks before.
LEMMA PrimaryIsFirst ==
    ASSUME NEW req, ValidRequest(req), NEW leaves \in Seq(Assignments(req)), Len(leaves) # 0
    PROVE  /\ OptimalPrimary(req, leaves) \in Range(leaves)
           /\ \A i \in DOMAIN leaves : ~RankLess(req, leaves[i], OptimalPrimary(req, leaves))
<1> DEFINE A == Assignments(req)
           N == Len(leaves)
           V == Range(leaves)
           Pick(n, v) == IF n = 1 THEN leaves[1]
                         ELSE IF RankLess(req, leaves[n], v) THEN leaves[n] ELSE v
           step == [n \in 1..N |-> [v \in V |-> Pick(n, v)]]
           Solves(f) == f = [n \in DOMAIN leaves |->
                                IF n = 1 THEN leaves[1]
                                ELSE LET sofar == f[n - 1]
                                     IN  IF RankLess(req, leaves[n], sofar) THEN leaves[n] ELSE sofar]
           best == CHOOSE f : Solves(f)
           first == leaves[1]
<1>1. /\ N \in Nat \ {0} /\ DOMAIN leaves = 1..N /\ V \subseteq A
      /\ \A n \in 1..N : leaves[n] \in V
  BY LenProperties, ElementOfSeq DEF Range
<1>2. OptimalPrimary(req, leaves) = best[N]
  BY DEF OptimalPrimary
<1>3. \A n \in 1..N : \A v \in V : Pick(n, v) \in V
  BY <1>1
<1>4. step \in [1..N -> [V -> V]] /\ \A n \in 1..N : \A v \in V : step[n][v] = Pick(n, v)
  <2> HIDE DEF V, N, Pick
  <2> QED BY <1>3
<1>5. first \in V /\ N \in Nat
  BY <1>1
<1> HIDE DEF V, N, step, first
<1>6. PICK f \in [0..N -> V] : f[0] = first /\ \A n \in 1..N : f[n] = step[n][f[n - 1]]
  <2>1. step \in [1..N -> [V -> V]]
    BY <1>4
  <2>2. \E f \in [0..N -> V] : f[0] = first /\ \A n \in 1..N : f[n] = step[n][f[n - 1]]
    BY ONLY <2>1, <1>5, Recursion
  <2> QED BY <2>2
<1>7. \E h : Solves(h)
  <2> DEFINE g == [n \in 1..N |-> f[n]]
  <2>1. ASSUME NEW n \in 1..N PROVE g[n] = Pick(n, g[n - 1])
    <3>1. n - 1 \in 0..N /\ f[n - 1] \in V
      BY <1>5, <1>6
    <3>2. f[n] = Pick(n, f[n - 1])
      BY <1>4, <1>6, <3>1
    <3>3. CASE n = 1
      BY <3>2, <3>3
    <3>4. CASE n # 1
      <4>1. n - 1 \in 1..N
        BY <1>5, <3>4
      <4> QED BY <3>2, <4>1
    <3> QED BY <3>3, <3>4
  <2>2. g = [n \in 1..N |-> g[n]]
    OBVIOUS
  <2> HIDE DEF g
  <2>3. g = [n \in 1..N |-> Pick(n, g[n - 1])]
    BY <2>1, <2>2
  <2> QED BY <1>1, <2>3
<1>8. Solves(best)
  <2> HIDE DEF Solves
  <2> QED BY <1>7
<1> HIDE DEF best
<1>9. \A n \in 1..N : best[n] = Pick(n, best[n - 1])
  BY <1>1, <1>8
<1> DEFINE Good(n) == best[n] \in V /\ \A i \in 1..n : ~RankLess(req, leaves[i], best[n])
           T == {n \in Nat : n \in 1..N => Good(n)}
<1>10. 0 \in T
  BY <1>5
<1>11. ASSUME NEW n \in Nat, n \in T PROVE n + 1 \in T
  <2> SUFFICES ASSUME n + 1 \in 1..N PROVE Good(n + 1)
    OBVIOUS
  <2>1. (n + 1) - 1 = n /\ best[n + 1] = Pick(n + 1, best[n])
    BY <1>9
  <2>2. leaves[n + 1] \in A /\ leaves[n + 1] \in V
    BY <1>1
  <2>3. CASE n = 0
    <3>1. best[n + 1] = leaves[n + 1] /\ \A i \in 1..(n + 1) : i = n + 1
      BY <2>1, <2>3
    <3> QED BY <2>2, <3>1, RankOrders
  <2>4. CASE n # 0
    <3>1. n \in 1..N /\ Good(n) /\ n + 1 # 1
      BY <1>5, <1>11, <2>4
    <3>2. best[n] \in V /\ best[n] \in A
      BY <1>1, <3>1
    <3>3. \A i \in 1..(n + 1) : i = n + 1 \/ i \in 1..n
      OBVIOUS
    <3>4. \A i \in 1..n : leaves[i] \in A /\ ~RankLess(req, leaves[i], best[n])
      <4>1. \A i \in 1..n : i \in 1..N
        BY <1>5, <3>1
      <4> QED BY <1>1, <3>1, <4>1
    <3>5. CASE RankLess(req, leaves[n + 1], best[n])
      <4>1. best[n + 1] = leaves[n + 1]
        BY <2>1, <3>1, <3>5
      <4>2. \A i \in 1..n : ~RankLess(req, leaves[i], leaves[n + 1])
        BY <2>2, <3>2, <3>4, <3>5, RankOrders
      <4>3. ~RankLess(req, leaves[n + 1], leaves[n + 1])
        BY <2>2, RankOrders
      <4> QED BY <2>2, <3>3, <4>1, <4>2, <4>3
    <3>6. CASE ~RankLess(req, leaves[n + 1], best[n])
      <4>1. best[n + 1] = best[n]
        BY <2>1, <3>1, <3>6
      <4> QED BY <3>2, <3>3, <3>4, <3>6, <4>1
    <3> QED BY <3>5, <3>6
  <2> QED BY <2>3, <2>4
<1> HIDE DEF T
<1>12. N \in T
  BY <1>5, <1>10, <1>11, Inductive
<1>13. N \in 1..N
  BY <1>1
<1> QED BY <1>1, <1>2, <1>12, <1>13 DEF T, V

\* The plan the search settles on is feasible and no feasible assignment ranks before it
\* (planning/services.py:107-145).
THEOREM PrimaryIsBest ==
    ASSUME NEW req, ValidRequest(req)
    PROVE  /\ OptimalPrimary(req, Leaves(req)) \in FeasibleAssignments(req)
           /\ \A alloc \in FeasibleAssignments(req) :
                 ~RankLess(req, alloc, OptimalPrimary(req, Leaves(req)))
<1> DEFINE leaves == Leaves(req)
<1>1. /\ leaves \in Seq(FeasibleAssignments(req)) /\ Range(leaves) = FeasibleAssignments(req)
      /\ Len(leaves) # 0
  BY LeavesAre
<1>2. FeasibleAssignments(req) \subseteq Assignments(req)
  BY DEF FeasibleAssignments
<1> HIDE DEF leaves
<1>3. leaves \in Seq(Assignments(req))
  BY <1>1, <1>2, SeqMonotonic
<1>4. /\ OptimalPrimary(req, leaves) \in Range(leaves)
      /\ \A i \in DOMAIN leaves : ~RankLess(req, leaves[i], OptimalPrimary(req, leaves))
  BY <1>1, <1>3, PrimaryIsFirst
<1>5. \A alloc \in FeasibleAssignments(req) : ~RankLess(req, alloc, OptimalPrimary(req, leaves))
  BY <1>1, <1>4 DEF Range
<1> QED BY <1>1, <1>4, <1>5 DEF leaves

\* A list of one set's members, each once, has that set's size.
LEMMA ImageSize ==
    ASSUME NEW S, IsFiniteSet(S), NEW T, NEW f \in [S -> T],
           \A x, y \in S : f[x] = f[y] => x = y, \A t \in T : \E x \in S : f[x] = t
    PROVE  IsFiniteSet(T) /\ Cardinality(T) = Cardinality(S)
<1>1. f \in Bijection(S, T)
  BY DEF Bijection, Injection, IsInjective, Surjection
<1>2. ExistsBijection(S, T)
  BY <1>1 DEF ExistsBijection
<1> QED BY <1>2, FS_Bijection

LEMMA LesserIs ==
    ASSUME NEW a \in Int, NEW b \in Int
    PROVE  Min({a, b}) = IF a <= b THEN a ELSE b
<1>1. \E x \in {a, b} : \A y \in {a, b} : x <= y
  BY SMT
<1>2. Min({a, b}) = CHOOSE x \in {a, b} : \A y \in {a, b} : x <= y
  BY DEF Min
<1>3. Min({a, b}) \in {a, b} /\ \A y \in {a, b} : Min({a, b}) <= y
  BY <1>1, <1>2
<1> QED BY <1>3

\* The first of a finite set of positions are as many as there are, or as the limit allows.
LEMMA FirstOfSize ==
    ASSUME NEW P \in SUBSET Nat, IsFiniteSet(P), NEW limit \in Nat
    PROVE  /\ FirstOf(P, limit) \in SUBSET P
           /\ Cardinality(FirstOf(P, limit)) = IF Cardinality(P) <= limit THEN Cardinality(P) ELSE limit
<1> DEFINE less == {p \in P \X P : p[1] < p[2]}
           n == Cardinality(P)
           L == InOrder(P, less)
           k == IF n <= limit THEN n ELSE limit
           F == FirstOf(P, limit)
<1>1. \A x, y \in P : <<x, y>> \in less <=> x < y
  OBVIOUS
<1> HIDE DEF less
<1>2. StrictOrder(P, less)
  BY <1>1 DEF StrictOrder
<1>3. /\ n \in Nat /\ L \in [1..n -> P]
      /\ \A i, j \in 1..n : L[i] = L[j] => i = j
      /\ \A x \in P : \E i \in 1..n : L[i] = x
      /\ \A i \in 1..n : Cardinality({y \in P : <<y, L[i]>> \in less}) = i - 1
  BY <1>2, InOrderLists
<1> HIDE DEF L, n
<1>4. \A i \in 1..n : {y \in P : <<y, L[i]>> \in less} = {j \in P : j < L[i]}
  BY <1>1, <1>3
<1>5. F = {x \in P : Cardinality({j \in P : j < x}) < limit}
  BY DEF FirstOf
<1>6. \A i \in 1..n : Cardinality({j \in P : j < L[i]}) = i - 1
  BY <1>3, <1>4
<1>7. \A i \in 1..n : L[i] \in F <=> i <= limit
  <2> TAKE i \in 1..n
  <2>1. L[i] \in F <=> Cardinality({j \in P : j < L[i]}) < limit
    BY <1>3, <1>5
  <2>2. Cardinality({j \in P : j < L[i]}) = i - 1
    BY <1>6
  <2> QED BY <2>1, <2>2
<1>8. F \subseteq P
  BY <1>5
<1> HIDE DEF F
<1>9. k \in Nat /\ 1..k \subseteq 1..n /\ \A i \in 1..n : i \in 1..k <=> i <= limit
  BY <1>3
<1> HIDE DEF k
<1> DEFINE f == [i \in 1..k |-> L[i]]
<1>10. f \in [1..k -> F] /\ (\A i, j \in 1..k : f[i] = f[j] => i = j) /\ \A x \in F : \E i \in 1..k : f[i] = x
  BY <1>3, <1>7, <1>8, <1>9
<1>11. IsFiniteSet(1..k) /\ Cardinality(1..k) = k
  BY <1>9, FS_Interval
<1> HIDE DEF f
<1>12. Cardinality(F) = k
  BY <1>10, <1>11, ImageSize
<1> QED BY <1>8, <1>12 DEF F, k, n

\* The best plan of a request, and the feasible plans that meet as many mandatory demands.
BestOf(req) == OptimalPrimary(req, Leaves(req))

EquallyEntitled(req) ==
    {alloc \in FeasibleAssignments(req) : MandatoryMet(req, alloc) = MandatoryMet(req, BestOf(req))}

KeptOf(req) == KeptAlternatives(req, Leaves(req), BestOf(req))

\* The alternatives are other plans that meet as many mandatory demands, each once; there are as
\* many of them as there can be within the policy's limit (planning/services.py:148-205).
THEOREM AlternativesAre ==
    ASSUME NEW req, ValidRequest(req)
    PROVE  /\ IsFiniteSet(EquallyEntitled(req)) /\ BestOf(req) \in EquallyEntitled(req)
           /\ KeptOf(req) \subseteq EquallyEntitled(req) \ {BestOf(req)}
           /\ Cardinality(KeptOf(req)) + 1 = Min({Cardinality(EquallyEntitled(req)), 1 + req.policy.altLimit})
           /\ Lists(Alternatives(req, Leaves(req), BestOf(req)), KeptOf(req))
<1> DEFINE leaves == Leaves(req)
           N == Len(leaves)
           best == BestOf(req)
           limit == req.policy.altLimit
           equal == EquallyEntitled(req)
           E == equal \ {best}
           found == {i \in DOMAIN leaves : leaves[i] # best /\ MandatoryMet(req, leaves[i]) = MandatoryMet(req, best)}
           first == FirstOf(found, limit)
           kept == KeptOf(req)
<1>1. /\ leaves \in Seq(FeasibleAssignments(req)) /\ Range(leaves) = FeasibleAssignments(req)
      /\ IsInjective(leaves) /\ N \in Nat /\ DOMAIN leaves = 1..N
  BY LeavesAre, LenProperties
<1>2. best \in FeasibleAssignments(req)
  BY PrimaryIsBest DEF BestOf
<1>3. limit \in Nat
  BY DEF ValidRequest
<1>4. kept = {leaves[i] : i \in first}
  BY DEF KeptOf, KeptAlternatives
<1>5. E = {alloc \in FeasibleAssignments(req) :
               alloc # best /\ MandatoryMet(req, alloc) = MandatoryMet(req, best)}
      /\ best \in equal /\ equal = E \cup {best} /\ best \notin E
  BY <1>2 DEF EquallyEntitled
<1> HIDE DEF leaves, N, best, limit, equal, E, kept
<1>6. IsFiniteSet(1..N)
  BY <1>1, FS_Interval
<1>7. found \in SUBSET Nat /\ IsFiniteSet(found) /\ found \subseteq DOMAIN leaves
  <2>1. found \subseteq 1..N
    BY <1>1
  <2> HIDE DEF found
  <2>2. IsFiniteSet(found)
    BY <1>6, <2>1, FS_Subset
  <2> QED BY <1>1, <2>1, <2>2
<1>8. \A i \in found : leaves[i] \in E
  BY <1>1, <1>5 DEF Range
<1>9. \A alloc \in E : \E i \in found : leaves[i] = alloc
  BY <1>1, <1>5 DEF Range
<1> HIDE DEF found
<1>10. \A i, j \in found : leaves[i] = leaves[j] => i = j
  BY <1>1, <1>7 DEF IsInjective
<1>11. IsFiniteSet(E) /\ Cardinality(E) = Cardinality(found)
  <2> DEFINE f == [i \in found |-> leaves[i]]
  <2>1. /\ f \in [found -> E] /\ (\A i, j \in found : f[i] = f[j] => i = j)
        /\ \A t \in E : \E i \in found : f[i] = t
    BY <1>8, <1>9, <1>10
  <2> HIDE DEF f
  <2> QED BY <1>7, <2>1, ImageSize
<1>12. /\ first \in SUBSET found
       /\ Cardinality(first) = IF Cardinality(found) <= limit THEN Cardinality(found) ELSE limit
  BY <1>3, <1>7, FirstOfSize
<1> HIDE DEF first
<1>13. IsFiniteSet(kept) /\ Cardinality(kept) = Cardinality(first) /\ kept \subseteq E
  <2> DEFINE f == [i \in first |-> leaves[i]]
  <2>1. /\ f \in [first -> kept] /\ (\A i, j \in first : f[i] = f[j] => i = j)
        /\ \A t \in kept : \E i \in first : f[i] = t
    BY <1>4, <1>10, <1>12
  <2> HIDE DEF f
  <2>2. IsFiniteSet(first)
    BY <1>7, <1>12, FS_Subset
  <2>3. kept \subseteq E
    BY <1>4, <1>8, <1>12
  <2> QED BY <2>1, <2>2, <2>3, ImageSize
<1>14. IsFiniteSet(equal) /\ Cardinality(equal) = Cardinality(E) + 1
  BY <1>5, <1>11, FS_AddElement
<1>15. Cardinality(kept) + 1 = Min({Cardinality(equal), 1 + limit})
  <2>1. Cardinality(E) \in Nat
    BY <1>11, FS_CardinalityType
  <2> DEFINE n == Cardinality(E)
             k == Cardinality(kept)
  <2>2. Cardinality(equal) = n + 1 /\ n \in Nat /\ k = IF n <= limit THEN n ELSE limit
    BY <1>11, <1>12, <1>13, <1>14, <2>1
  <2> HIDE DEF n, k
  <2>3. Min({n + 1, 1 + limit}) = IF n + 1 <= 1 + limit THEN n + 1 ELSE 1 + limit
    BY <1>3, <2>2, LesserIs
  <2>4. k + 1 = Min({n + 1, 1 + limit})
    BY <1>3, <2>2, <2>3
  <2> QED BY <2>2, <2>4 DEF k
<1>16. Lists(Alternatives(req, leaves, best), kept)
  <2> DEFINE less == {p \in kept \X kept : RankLess(req, p[1], p[2])}
  <2>1. Alternatives(req, leaves, best) = InOrder(kept, less)
    BY DEF Alternatives, KeptOf, kept, leaves, best
  <2>2. \A x, y \in kept : <<x, y>> \in less <=> RankLess(req, x, y)
    OBVIOUS
  <2> HIDE DEF less
  <2>3. kept \subseteq Assignments(req)
    BY <1>5, <1>13 DEF FeasibleAssignments
  <2>4. \A x, y, z \in kept : /\ ~RankLess(req, x, x)
                              /\ RankLess(req, x, y) /\ RankLess(req, y, z) => RankLess(req, x, z)
                              /\ x = y \/ RankLess(req, x, y) \/ RankLess(req, y, x)
    BY <2>3, RankOrders
  <2>5. StrictOrder(kept, less)
    BY <2>2, <2>4 DEF StrictOrder
  <2> QED BY <1>13, <2>1, <2>5, InOrderLists DEF Lists
<1> QED BY <1>5, <1>13, <1>14, <1>15, <1>16 DEF kept, E, equal, best, limit, leaves

\* And they are in the order of their ranks (planning/services.py:205).
THEOREM AlternativesInOrder ==
    ASSUME NEW req, ValidRequest(req)
    PROVE  LET alternatives == Alternatives(req, Leaves(req), BestOf(req))
           IN  \A i, j \in DOMAIN alternatives :
                  i < j => RankLess(req, alternatives[i], alternatives[j])
<1> DEFINE kept == KeptOf(req)
           less == {p \in kept \X kept : RankLess(req, p[1], p[2])}
           alternatives == Alternatives(req, Leaves(req), BestOf(req))
<1>1. alternatives = InOrder(kept, less)
  BY DEF Alternatives, KeptOf
<1>2. \A x, y \in kept : <<x, y>> \in less <=> RankLess(req, x, y)
  OBVIOUS
<1>3. /\ IsFiniteSet(EquallyEntitled(req)) /\ kept \subseteq EquallyEntitled(req)
      /\ Lists(alternatives, kept)
  BY AlternativesAre
<1> HIDE DEF kept, less, alternatives
<1>4. IsFiniteSet(kept) /\ kept \subseteq Assignments(req)
  BY <1>3, FS_Subset DEF EquallyEntitled, FeasibleAssignments
<1>5. \A x, y, z \in kept : /\ ~RankLess(req, x, x)
                            /\ RankLess(req, x, y) /\ RankLess(req, y, z) => RankLess(req, x, z)
                            /\ x = y \/ RankLess(req, x, y) \/ RankLess(req, y, x)
  BY <1>4, RankOrders
<1>6. StrictOrder(kept, less)
  BY <1>2, <1>5 DEF StrictOrder
<1>7. \A i, j \in 1..Cardinality(kept) :
         i < j => <<InOrder(kept, less)[i], InOrder(kept, less)[j]>> \in less
  BY <1>4, <1>6, InOrderSorts
<1>8. DOMAIN alternatives = 1..Cardinality(kept)
      /\ \A i \in 1..Cardinality(kept) : alternatives[i] \in kept
  BY <1>3 DEF Lists
<1> QED BY <1>1, <1>2, <1>7, <1>8 DEF alternatives

-----------------------------------------------------------------------------
(* The recorded run                                                        *)

\* Every allocation a run of the request has to carry.
AllOf(req) == {BestOf(req)} \cup KeptOf(req)

\* A run keeps exactly these plans, each once and rendered for the request it was computed from.
Complete(run) ==
    LET req == run.input
    IN  /\ ValidRequest(req)
        /\ PlansOf(run) \in Seq({Render(req, alloc) : alloc \in AllOf(req)})
        /\ PlansOf(run)[1] = run.primary
        /\ \A alloc \in AllOf(req) : \E v \in DOMAIN PlansOf(run) : PlansOf(run)[v].alloc = alloc
        /\ \A v, w \in DOMAIN PlansOf(run) : PlansOf(run)[v].alloc = PlansOf(run)[w].alloc => v = w

LEMMA RecordedComplete ==
    ASSUME NEW req, ValidRequest(req)
    PROVE  Complete(RecordedRun(req)) /\ RecordedRun(req).input = req
<1> DEFINE run == RecordedRun(req)
           others == Alternatives(req, Leaves(req), BestOf(req))
           n == Len(others)
           best == BestOf(req)
           P == {Render(req, alloc) : alloc \in AllOf(req)}
           rest == [i \in DOMAIN others |-> Render(req, others[i])]
           head == <<Render(req, best)>>
           plans == head \o rest
<1>1. run.input = req /\ run.primary = Render(req, best) /\ run.alternatives = rest
  BY DEF RecordedRun, PlanningResult, BestOf
<1>2. PlansOf(run) = plans
  BY <1>1 DEF PlansOf
<1>3. Lists(others, KeptOf(req)) /\ best \notin KeptOf(req)
  BY AlternativesAre
<1>4. /\ n \in Nat /\ DOMAIN others = 1..n /\ Range(others) = KeptOf(req) /\ IsInjective(others)
  BY <1>3, ListedSeq
<1> HIDE DEF run, others, n, best
<1>5. AllOf(req) = {best} \cup KeptOf(req)
  BY DEF AllOf, best
<1>6. \A i \in 1..n : others[i] \in KeptOf(req) /\ rest[i] = Render(req, others[i])
  BY <1>4 DEF Range
<1>7. rest \in [1..n -> P]
  BY <1>4, <1>5, <1>6
<1> HIDE DEF rest, P
<1>8. rest \in Seq(P) /\ Len(rest) = n
  BY <1>4, <1>7
<1>9. head \in Seq(P) /\ Len(head) = 1 /\ head[1] = Render(req, best)
  BY <1>5 DEF P
<1> HIDE DEF head
<1>10. /\ plans \in Seq(P) /\ Len(plans) = 1 + n /\ DOMAIN plans = 1..(1 + n)
       /\ \A i \in 1..(1 + n) : plans[i] = IF i <= 1 THEN head[i] ELSE rest[i - 1]
  <2>1. /\ head \o rest \in Seq(P)
        /\ Len(head \o rest) = Len(head) + Len(rest)
        /\ \A i \in 1..(Len(head) + Len(rest)) :
              (head \o rest)[i] = IF i <= Len(head) THEN head[i] ELSE rest[i - Len(head)]
    BY ONLY <1>8, <1>9, ConcatProperties
  <2>2. DOMAIN plans = 1..Len(plans)
    BY <2>1, LenProperties
  <2> QED BY <1>8, <1>9, <2>1, <2>2
<1> HIDE DEF plans
<1>11. plans[1] = Render(req, best) /\ \A i \in 2..(1 + n) : i - 1 \in 1..n /\ plans[i] = Render(req, others[i - 1])
  <2>1. 1 \in 1..(1 + n) /\ plans[1] = head[1]
    BY <1>4, <1>10
  <2>2. ASSUME NEW i \in 2..(1 + n) PROVE i - 1 \in 1..n /\ plans[i] = rest[i - 1]
    BY <1>4, <1>10
  <2> QED BY <1>6, <1>9, <2>1, <2>2
<1>12. \A a : Render(req, a).alloc = a
  BY DEF Render
<1>13. plans[1].alloc = best /\ \A i \in 2..(1 + n) : i - 1 \in 1..n /\ plans[i].alloc = others[i - 1]
  BY <1>11, <1>12
<1>14. \A i \in 1..(1 + n) : i = 1 \/ i \in 2..(1 + n)
  BY <1>4
<1>15. ASSUME NEW alloc \in AllOf(req) PROVE \E v \in DOMAIN plans : plans[v].alloc = alloc
  <2>1. CASE alloc = best
    BY <1>4, <1>10, <1>13, <2>1
  <2>2. CASE alloc \in KeptOf(req)
    <3>1. PICK i \in 1..n : others[i] = alloc
      BY <1>4, <2>2 DEF Range
    <3>2. i + 1 \in 2..(1 + n) /\ i + 1 \in 1..(1 + n) /\ (i + 1) - 1 = i
      BY <1>4
    <3> QED BY <1>10, <1>13, <3>1, <3>2
  <2> QED BY <1>5, <2>1, <2>2
<1>16. ASSUME NEW v \in DOMAIN plans, NEW w \in DOMAIN plans, plans[v].alloc = plans[w].alloc PROVE v = w
  <2>1. \A i \in 1..n : others[i] # best
    BY <1>3, <1>6
  <2>2. CASE v = 1 \/ w = 1
    BY <1>10, <1>13, <1>14, <1>16, <2>1, <2>2
  <2>3. CASE v \in 2..(1 + n) /\ w \in 2..(1 + n)
    <3>1. v - 1 = w - 1
      BY <1>4, <1>13, <1>16, <2>3 DEF IsInjective
    <3> QED BY <2>3, <3>1
  <2> QED BY <1>10, <1>14, <2>2, <2>3
<1>17. plans \in Seq({Render(req, alloc) : alloc \in AllOf(req)})
  BY <1>10 DEF P
<1> HIDE DEF plans
<1>18. Complete(run)
  BY <1>1, <1>2, <1>11, <1>15, <1>16, <1>17 DEF Complete
<1> QED BY <1>1, <1>18 DEF run

LEMMA RemovedAt ==
    ASSUME NEW S, NEW s \in Seq(S), NEW i \in 1..Len(s)
    PROVE  /\ RemoveAt(s, i) \in Seq(S) /\ Len(RemoveAt(s, i)) = Len(s) - 1
           /\ \A j \in 1..(Len(s) - 1) : RemoveAt(s, i)[j] = IF j < i THEN s[j] ELSE s[j + 1]
<1> DEFINE n == Len(s)
           a == SubSeq(s, 1, i - 1)
           b == SubSeq(s, i + 1, n)
           la == Len(a)
           lb == Len(b)
<1>1. n \in Nat /\ i \in Int /\ 1 <= i /\ i <= n /\ \A j \in 1..n : s[j] \in S
  BY LenProperties, ElementOfSeq
<1>2. RemoveAt(s, i) = a \o b
  BY DEF RemoveAt
<1> HIDE DEF n
<1>3. /\ a \in Seq(S) /\ Len(a) = IF 1 <= i - 1 THEN (i - 1) - 1 + 1 ELSE 0
      /\ \A j \in 1..((i - 1) - 1 + 1) : a[j] = s[1 + j - 1]
  <2>1. 1 \in Int /\ i - 1 \in Int /\ \A j \in 1..(i - 1) : s[j] \in S
    BY <1>1
  <2> QED BY <2>1, SubSeqProperties
<1>4. /\ b \in Seq(S) /\ Len(b) = IF i + 1 <= n THEN n - (i + 1) + 1 ELSE 0
      /\ \A j \in 1..(n - (i + 1) + 1) : b[j] = s[(i + 1) + j - 1]
  <2>1. i + 1 \in Int /\ n \in Int /\ \A j \in (i + 1)..n : s[j] \in S
    BY <1>1
  <2> QED BY <2>1, SubSeqProperties
<1> HIDE DEF a, b
<1>5. la = i - 1 /\ lb = n - i
  BY <1>1, <1>3, <1>4
<1>6. /\ a \o b \in Seq(S) /\ Len(a \o b) = la + lb
      /\ \A j \in 1..(la + lb) : (a \o b)[j] = IF j <= la THEN a[j] ELSE b[j - la]
  BY <1>3, <1>4, ConcatProperties
<1> HIDE DEF la, lb
<1>7. ASSUME NEW j \in 1..(n - 1) PROVE (a \o b)[j] = IF j < i THEN s[j] ELSE s[j + 1]
  <2>1. (a \o b)[j] = IF j <= la THEN a[j] ELSE b[j - la]
    BY <1>1, <1>5, <1>6
  <2>2. CASE j < i
    <3>1. j \in 1..((i - 1) - 1 + 1) /\ 1 + j - 1 = j /\ j <= la
      BY <1>1, <1>5, <2>2
    <3> QED BY <1>3, <2>1, <2>2, <3>1
  <2>3. CASE ~(j < i)
    <3> DEFINE k == j - la
    <3>1. k \in 1..(n - (i + 1) + 1) /\ (i + 1) + k - 1 = j + 1 /\ ~(j <= la)
      BY <1>1, <1>5, <2>3
    <3> HIDE DEF k
    <3>2. b[k] = s[(i + 1) + k - 1]
      BY <1>4, <3>1
    <3> QED BY <2>1, <2>3, <3>1, <3>2 DEF k
  <2> QED BY <2>2, <2>3
<1>8. Len(a \o b) = n - 1
  BY <1>1, <1>5, <1>6
<1> QED BY <1>2, <1>6, <1>7, <1>8 DEF n

\* Selecting a plan only puts it first.
LEMMA SelectedComplete ==
    ASSUME NEW req, NEW run, Complete(run), NEW variant \in DOMAIN PlansOf(run), req = run.input
    PROVE  Complete(SelectedRun(req, run, variant)) /\ SelectedRun(req, run, variant).input = run.input
<1> DEFINE P == {Render(req, alloc) : alloc \in AllOf(req)}
           old == PlansOf(run)
           n == Len(old)
           head == <<old[variant]>>
           rest == RemoveAt(old, variant)
           new == SelectedRun(req, run, variant)
           plans == head \o rest
<1>1. /\ ValidRequest(req) /\ old \in Seq(P)
      /\ \A alloc \in AllOf(req) : \E v \in DOMAIN old : old[v].alloc = alloc
      /\ \A v, w \in DOMAIN old : old[v].alloc = old[w].alloc => v = w
  BY DEF Complete
<1>2. new.input = req /\ new.primary = old[variant] /\ new.alternatives = rest
  BY DEF SelectedRun
<1>3. PlansOf(new) = plans
  BY <1>2 DEF PlansOf
<1> HIDE DEF new, old, P
<1>4. n \in Nat /\ DOMAIN old = 1..n /\ variant \in 1..n /\ \A v \in 1..n : old[v] \in P
  BY <1>1, LenProperties, ElementOfSeq DEF old
<1>5. /\ rest \in Seq(P) /\ Len(rest) = n - 1
      /\ \A j \in 1..(n - 1) : rest[j] = IF j < variant THEN old[j] ELSE old[j + 1]
  <2>1. old \in Seq(P) /\ variant \in 1..Len(old)
    BY <1>1, <1>4
  <2>2. /\ RemoveAt(old, variant) \in Seq(P) /\ Len(RemoveAt(old, variant)) = Len(old) - 1
        /\ \A j \in 1..(Len(old) - 1) :
              RemoveAt(old, variant)[j] = IF j < variant THEN old[j] ELSE old[j + 1]
    BY ONLY <2>1, RemovedAt
  <2> QED BY <2>2
<1>6. head \in Seq(P) /\ Len(head) = 1 /\ head[1] = old[variant]
  BY <1>4
<1> HIDE DEF n, rest, head
<1>7. /\ plans \in Seq(P) /\ DOMAIN plans = 1..n
      /\ \A i \in 1..n : plans[i] = IF i <= 1 THEN head[i] ELSE rest[i - 1]
  <2>1. /\ head \o rest \in Seq(P)
        /\ Len(head \o rest) = Len(head) + Len(rest)
        /\ \A i \in 1..(Len(head) + Len(rest)) :
              (head \o rest)[i] = IF i <= Len(head) THEN head[i] ELSE rest[i - Len(head)]
    BY ONLY <1>5, <1>6, ConcatProperties
  <2>2. DOMAIN plans = 1..Len(plans)
    BY <2>1, LenProperties
  <2>3. Len(head) + Len(rest) = n
    BY <1>4, <1>5, <1>6
  <2> QED BY <1>6, <2>1, <2>2, <2>3
\* Where the plan that is put i-th came from.
<1> DEFINE from(i) == IF i = 1 THEN variant ELSE IF i - 1 < variant THEN i - 1 ELSE i
<1> HIDE DEF plans
<1>8. \A i \in 1..n : from(i) \in 1..n /\ plans[i] = old[from(i)]
  <2> TAKE i \in 1..n
  <2>1. CASE i = 1
    BY <1>4, <1>6, <1>7, <2>1
  <2>2. CASE i # 1
    <3>1. i - 1 \in 1..(n - 1) /\ ~(i <= 1) /\ (i - 1) + 1 = i /\ i \in 1..n
      BY <1>4, <2>2
    <3>2. plans[i] = rest[i - 1]
      BY <1>7, <3>1
    <3>3. rest[i - 1] = IF i - 1 < variant THEN old[i - 1] ELSE old[(i - 1) + 1]
      BY <1>5, <3>1
    <3>4. i - 1 \in 1..n
      BY <1>4, <3>1
    <3> QED BY <2>2, <3>1, <3>2, <3>3, <3>4
  <2> QED BY <2>1, <2>2
<1>9. \A i, j \in 1..n : from(i) = from(j) => i = j
  BY <1>4
<1>10. \A v \in 1..n : \E i \in 1..n : from(i) = v
  <2> TAKE v \in 1..n
  <2>1. CASE v = variant
    <3>1. 1 \in 1..n /\ from(1) = v
      BY <1>4, <2>1
    <3> QED BY <3>1
  <2>2. CASE v < variant
    <3>1. v + 1 \in 1..n /\ from(v + 1) = v
      BY <1>4, <2>2
    <3> QED BY <3>1
  <2>3. CASE v > variant
    <3>1. from(v) = v
      BY <1>4, <2>3
    <3> QED BY <3>1
  <2> QED BY <1>4, <2>1, <2>2, <2>3
<1> HIDE DEF from
<1>11. plans[1] = old[variant]
  <2>1. 1 \in 1..n
    BY <1>4
  <2> QED BY <1>6, <1>7, <2>1
<1>12. \A alloc \in AllOf(req) : \E v \in DOMAIN plans : plans[v].alloc = alloc
  <2> TAKE alloc \in AllOf(req)
  <2>1. PICK v \in 1..n : old[v].alloc = alloc
    BY <1>1, <1>4
  <2>2. PICK i \in 1..n : from(i) = v
    BY <1>10
  <2> QED BY <1>7, <1>8, <2>1, <2>2
<1>13. \A v, w \in DOMAIN plans : plans[v].alloc = plans[w].alloc => v = w
  <2> SUFFICES ASSUME NEW v \in DOMAIN plans, NEW w \in DOMAIN plans,
                      plans[v].alloc = plans[w].alloc
               PROVE  v = w
    OBVIOUS
  <2>1. v \in 1..n /\ w \in 1..n
    BY <1>7
  <2>2. from(v) \in 1..n /\ from(w) \in 1..n /\ old[from(v)].alloc = old[from(w)].alloc
    BY <1>8, <2>1
  <2>3. \A k, l \in 1..n : old[k].alloc = old[l].alloc => k = l
    BY <1>1, <1>4
  <2>4. from(v) = from(w)
    BY <2>2, <2>3
  <2> QED BY <1>9, <2>1, <2>4
<1>14. Complete(new)
  BY <1>1, <1>2, <1>3, <1>7, <1>11, <1>12, <1>13 DEF Complete, P
<1> QED BY <1>2, <1>14 DEF new
=============================================================================
