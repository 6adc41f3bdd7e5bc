---------------------------- MODULE Folds_proofs ----------------------------
(***************************************************************************)
(* What sums, folds, sequences made of sets and rankings are.  A recursive *)
(* function is unfolded, which needs that there is such a function: it is  *)
(* built up by the number of elements, and every induction is the search   *)
(* for a least counterexample.                                             *)
(***************************************************************************)
EXTENDS Integers, Sequences, FiniteSets, FiniteSetsExt, SequencesExt, FiniteSetTheorems, TLAPS

\* The sum of v[i] for the elements i of S.
Sum(v, S) == MapThenSumSet(LAMBDA i : v[i], S)

\* The element MapThenSumSet adds first.
Pick(s) == CHOOSE x \in s : TRUE

\* f is the recursive function of MapThenSumSet, on the subsets of S.
Adds(v, S, f) == f = [s \in SUBSET S |-> IF s = {} THEN 0 ELSE v[Pick(s)] + f[s \ {Pick(s)}]]

\* What MapThenSumSet is.
LEMMA SumUnfolds ==
  ASSUME NEW v, NEW S
  PROVE  Sum(v, S) = (CHOOSE f : Adds(v, S, f))[S]
BY Zenon DEF Sum, MapThenSumSet, MapThenFoldSet, Adds, Pick

\* A set of numbers that is not empty has a least one.
LEMMA Least ==
  ASSUME NEW T \in SUBSET Nat, T # {}
  PROVE  \E x \in T : \A y \in T : ~(y < x)
<1>1. PICK x \in T : \A y \in T : ~(<<y, x>> \in OpToRel(<, Nat))
  BY NatLessThanWellFounded, WFMin
<1>. QED BY <1>1 DEF OpToRel

\* A set without one of its elements.
LEMMA Without ==
  ASSUME NEW S, IsFiniteSet(S), NEW x \in S
  PROVE  /\ IsFiniteSet(S \ {x})
         /\ Cardinality(S) \in Nat /\ Cardinality(S \ {x}) \in Nat
         /\ Cardinality(S \ {x}) = Cardinality(S) - 1
BY FS_RemoveElement, FS_CardinalityType

\* The element added first is one of the set.
LEMMA PickIn ==
  ASSUME NEW s, s # {}
  PROVE  Pick(s) \in s
BY DEF Pick

\* There is a function as MapThenSumSet wants it.
LEMMA AddsExists ==
  ASSUME NEW v, NEW S, IsFiniteSet(S)
  PROVE  \E f : Adds(v, S, f)
<1> DEFINE Small(n) == {s \in SUBSET S : Cardinality(s) <= n}
           Has(n) == \E f : f = [s \in Small(n) |-> IF s = {} THEN 0 ELSE v[Pick(s)] + f[s \ {Pick(s)}]]
           T == {n \in Nat : ~Has(n)}
<1>0. \A s \in SUBSET S : IsFiniteSet(s) /\ Cardinality(s) \in Nat /\ Cardinality(s) <= Cardinality(S)
  BY FS_Subset, FS_CardinalityType
<1>1. Has(0)
  <2> DEFINE f == [s \in Small(0) |-> 0]
  <2>1. \A s \in Small(0) : s = {}
    BY <1>0, FS_EmptySet
  <2>2. f = [s \in Small(0) |-> IF s = {} THEN 0 ELSE v[Pick(s)] + f[s \ {Pick(s)}]]
    BY <2>1
  <2>. QED BY <2>2
<1>2. ASSUME NEW n \in Nat, Has(n)
      PROVE  Has(n + 1)
  <2>1. PICK f : f = [s \in Small(n) |-> IF s = {} THEN 0 ELSE v[Pick(s)] + f[s \ {Pick(s)}]]
    BY <1>2
  <2> DEFINE g == [s \in Small(n + 1) |-> IF s = {} THEN 0 ELSE v[Pick(s)] + f[s \ {Pick(s)}]]
  <2>2. ASSUME NEW s \in Small(n + 1), s # {}
        PROVE  g[s \ {Pick(s)}] = f[s \ {Pick(s)}]
    <3>1. Pick(s) \in s /\ IsFiniteSet(s)
      BY <1>0, <2>2, PickIn
    <3>2. Cardinality(s \ {Pick(s)}) = Cardinality(s) - 1 /\ Cardinality(s) \in Nat
      BY <3>1, Without
    <3>3. s \ {Pick(s)} \in Small(n) /\ s \ {Pick(s)} \in Small(n + 1)
      BY <3>2
    <3>. QED BY <2>1, <3>3
  <2>3. g = [s \in Small(n + 1) |-> IF s = {} THEN 0 ELSE v[Pick(s)] + g[s \ {Pick(s)}]]
    BY <2>2
  <2>. HIDE DEF g
  <2>. QED BY <2>3
<1>. HIDE DEF Has
<1>3. T = {}
  <2>1. SUFFICES ASSUME T # {} PROVE FALSE
    OBVIOUS
  <2>2. PICK n \in T : \A m \in T : ~(m < n)
    BY <2>1, Least
  <2>3. n # 0 /\ n \in Nat
    BY <1>1, <2>2
  <2>4. n - 1 \in Nat /\ n - 1 < n /\ (n - 1) + 1 = n
    BY <2>3
  <2>5. Has(n - 1)
    BY <2>2, <2>4
  <2>6. Has((n - 1) + 1)
    BY <1>2, <2>4, <2>5
  <2>. QED BY <2>2, <2>4, <2>6
<1>4. Has(Cardinality(S))
  BY <1>3, FS_CardinalityType
<1>5. Small(Cardinality(S)) = SUBSET S
  BY <1>0
<1>. QED BY <1>4, <1>5 DEF Has, Adds

\* Two such functions, on the subsets of two sets, agree where both are defined.
LEMMA AddsAgree ==
  ASSUME NEW v, NEW S, NEW R, IsFiniteSet(S), NEW f, NEW g, Adds(v, S, f), Adds(v, R, g)
  PROVE  \A s \in SUBSET (S \cap R) : f[s] = g[s]
<1> DEFINE T == {n \in Nat : \E s \in SUBSET (S \cap R) : Cardinality(s) = n /\ f[s] # g[s]}
<1>0. \A s \in SUBSET (S \cap R) : IsFiniteSet(s) /\ Cardinality(s) \in Nat
  BY FS_Subset, FS_CardinalityType
<1>1. T = {}
  <2>1. SUFFICES ASSUME T # {} PROVE FALSE
    OBVIOUS
  <2>2. PICK n \in T : \A m \in T : ~(m < n)
    BY <2>1, Least
  <2>3. PICK s \in SUBSET (S \cap R) : Cardinality(s) = n /\ f[s] # g[s]
    BY <2>2
  <2>a. s \in SUBSET S /\ s \in SUBSET R
    BY <2>3
  <2>4. CASE s = {}
    BY <2>3, <2>4, <2>a DEF Adds
  <2>5. CASE s # {}
    <3> DEFINE r == s \ {Pick(s)}
    <3>1. Pick(s) \in s
      BY <2>5, PickIn
    <3>2. Cardinality(r) \in Nat /\ Cardinality(r) < n
      BY <1>0, <2>3, <3>1, Without
    <3>3. r \in SUBSET (S \cap R)
      BY <2>3
    <3>4. f[r] = g[r]
      BY <2>2, <3>2, <3>3
    <3>5. f[s] = v[Pick(s)] + f[r]
      BY <2>5, <2>a DEF Adds
    <3>6. g[s] = v[Pick(s)] + g[r]
      BY <2>5, <2>a DEF Adds
    <3>. QED BY <2>3, <3>4, <3>5, <3>6
  <2>. QED BY <2>4, <2>5
<1>. QED BY <1>0, <1>1

\* Every such function yields the sums.
LEMMA AddsSums ==
  ASSUME NEW v, NEW S, IsFiniteSet(S), NEW f, Adds(v, S, f), NEW s \in SUBSET S
  PROVE  f[s] = Sum(v, s)
<1> DEFINE g == CHOOSE h : Adds(v, s, h)
<1>1. IsFiniteSet(s)
  BY FS_Subset
<1>2. Adds(v, s, g)
  BY <1>1, AddsExists
<1>3. Sum(v, s) = g[s]
  BY SumUnfolds
<1>. HIDE DEF g
<1>4. f[s] = g[s]
  BY <1>2, AddsAgree
<1>. QED BY <1>3, <1>4

\* The first step of a sum.
LEMMA SumPick ==
  ASSUME NEW v, NEW S, IsFiniteSet(S)
  PROVE  /\ S = {} => Sum(v, S) = 0
         /\ S # {} => Sum(v, S) = v[Pick(S)] + Sum(v, S \ {Pick(S)})
<1>1. PICK f : Adds(v, S, f)
  BY AddsExists
<1>2. \A s \in SUBSET S : f[s] = Sum(v, s)
  BY <1>1, AddsSums
<1>3. f[S] = IF S = {} THEN 0 ELSE v[Pick(S)] + f[S \ {Pick(S)}]
  BY <1>1 DEF Adds
<1>. QED BY <1>2, <1>3

\* A sum of integers is an integer, one of natural numbers a natural number.
LEMMA SumType ==
  ASSUME NEW v, NEW S, IsFiniteSet(S), NEW N, N = Nat \/ N = Int, \A x \in S : v[x] \in N
  PROVE  Sum(v, S) \in N
<1> DEFINE T == {n \in Nat : \E s \in SUBSET S : Cardinality(s) = n /\ Sum(v, s) \notin N}
<1>0. \A s \in SUBSET S : IsFiniteSet(s) /\ Cardinality(s) \in Nat
  BY FS_Subset, FS_CardinalityType
<1>1. T = {}
  <2>1. SUFFICES ASSUME T # {} PROVE FALSE
    OBVIOUS
  <2>2. PICK n \in T : \A m \in T : ~(m < n)
    BY <2>1, Least
  <2>3. PICK s \in SUBSET S : Cardinality(s) = n /\ Sum(v, s) \notin N
    BY <2>2
  <2>4. CASE s = {}
    <3>1. Sum(v, s) = 0
      BY <1>0, <2>4, SumPick
    <3>. QED BY <2>3, <3>1
  <2>5. CASE s # {}
    <3> DEFINE r == s \ {Pick(s)}
    <3>1. Pick(s) \in s
      BY <2>5, PickIn
    <3>2. Cardinality(r) \in Nat /\ Cardinality(r) < n
      BY <1>0, <2>3, <3>1, Without
    <3>3. Sum(v, r) \in N
      BY <2>2, <3>2
    <3>4. Sum(v, s) = v[Pick(s)] + Sum(v, r)
      BY <1>0, <2>5, SumPick
    <3>5. v[Pick(s)] \in N
      BY <3>1
    <3>. HIDE DEF r
    <3>. QED BY <2>3, <3>3, <3>4, <3>5
  <2>. QED BY <2>4, <2>5
<1>2. Cardinality(S) \notin T
  BY <1>1
<1>. QED BY <1>0, <1>2

\* A sum may begin with any of its elements.
LEMMA SumRemove ==
  ASSUME NEW v, NEW S, IsFiniteSet(S), \A x \in S : v[x] \in Int, NEW x \in S
  PROVE  Sum(v, S) = v[x] + Sum(v, S \ {x})
<1> DEFINE T == {n \in Nat : \E s \in SUBSET S : /\ Cardinality(s) = n
                                                 /\ \E y \in s : Sum(v, s) # v[y] + Sum(v, s \ {y})}
<1>0. \A s \in SUBSET S : IsFiniteSet(s) /\ Cardinality(s) \in Nat /\ Sum(v, s) \in Int
  BY FS_Subset, FS_CardinalityType, SumType
<1>1. T = {}
  <2>1. SUFFICES ASSUME T # {} PROVE FALSE
    OBVIOUS
  <2>2. PICK n \in T : \A m \in T : ~(m < n)
    BY <2>1, Least
  <2>3. PICK s \in SUBSET S : Cardinality(s) = n /\ \E y \in s : Sum(v, s) # v[y] + Sum(v, s \ {y})
    BY <2>2
  <2>4. PICK y \in s : Sum(v, s) # v[y] + Sum(v, s \ {y})
    BY <2>3
  <2> DEFINE p == Pick(s)
  <2>5. p \in s /\ Sum(v, s) = v[p] + Sum(v, s \ {p})
    BY <1>0, <2>4, PickIn, SumPick
  <2>. HIDE DEF p
  <2>6. p # y
    BY <2>4, <2>5
  <2>7. /\ Cardinality(s \ {p}) \in Nat /\ Cardinality(s \ {p}) < n
        /\ Cardinality(s \ {y}) \in Nat /\ Cardinality(s \ {y}) < n
    BY <1>0, <2>3, <2>4, <2>5, Without
  <2>8. Sum(v, s \ {p}) = v[y] + Sum(v, (s \ {p}) \ {y})
    <3>1. s \ {p} \in SUBSET S /\ y \in s \ {p}
      BY <2>4, <2>6
    <3>. QED BY <2>2, <2>7, <3>1
  <2>9. Sum(v, s \ {y}) = v[p] + Sum(v, (s \ {y}) \ {p})
    <3>1. s \ {y} \in SUBSET S /\ p \in s \ {y}
      BY <2>5, <2>6
    <3>. QED BY <2>2, <2>7, <3>1
  <2>10. (s \ {p}) \ {y} = (s \ {y}) \ {p}
    OBVIOUS
  <2>11. PICK c \in Int : c = Sum(v, (s \ {p}) \ {y})
    BY <1>0
  <2>12. PICK a \in Int : a = Sum(v, s \ {p})
    BY <1>0
  <2>13. PICK b \in Int : b = Sum(v, s \ {y})
    BY <1>0
  <2>14. v[p] \in Int /\ v[y] \in Int
    BY <2>4, <2>5
  <2>15. a = v[y] + c /\ b = v[p] + c
    BY <2>8, <2>9, <2>10, <2>11, <2>12, <2>13
  <2>16. v[p] + a = v[y] + b
    BY <2>14, <2>15
  <2>. QED BY <2>4, <2>5, <2>12, <2>13, <2>16
<1>2. Cardinality(S) \notin T
  BY <1>1
<1>. QED BY <1>0, <1>2

\* A sum with one more element.
LEMMA SumAdd ==
  ASSUME NEW v, NEW S, IsFiniteSet(S), NEW x, x \notin S, \A y \in S \cup {x} : v[y] \in Int
  PROVE  Sum(v, S \cup {x}) = Sum(v, S) + v[x]
<1>1. IsFiniteSet(S \cup {x})
  BY FS_AddElement
<1>2. (S \cup {x}) \ {x} = S
  OBVIOUS
<1>3. Sum(v, S \cup {x}) = v[x] + Sum(v, S)
  BY <1>1, <1>2, SumRemove
<1>4. Sum(v, S) \in Int
  BY SumType
<1>. QED BY <1>3, <1>4

\* The sum is what any such function says.
LEMMA SumIs ==
  ASSUME NEW v, NEW S, IsFiniteSet(S)
  PROVE  \A f : Adds(v, S, f) => f[S] = Sum(v, S)
BY AddsSums

\* A sum depends on the values of its elements only.
LEMMA SumSame ==
  ASSUME NEW v, NEW w, NEW S, IsFiniteSet(S), \A x \in S : v[x] = w[x]
  PROVE  Sum(v, S) = Sum(w, S)
<1>1. PICK f : Adds(v, S, f)
  BY AddsExists
<1>2. Adds(w, S, f)
  <2>1. \A s \in SUBSET S : s # {} => v[Pick(s)] = w[Pick(s)]
    BY PickIn
  <2>2. f = [s \in SUBSET S |-> IF s = {} THEN 0 ELSE v[Pick(s)] + f[s \ {Pick(s)}]]
    BY <1>1 DEF Adds
  <2>3. f = [s \in SUBSET S |-> IF s = {} THEN 0 ELSE w[Pick(s)] + f[s \ {Pick(s)}]]
    BY <2>1, <2>2
  <2>. QED BY <2>3 DEF Adds
<1>3. f[S] = Sum(v, S)
  BY <1>1, SumIs, Zenon
<1>4. f[S] = Sum(w, S)
  BY <1>2, SumIs, Zenon
<1>. QED BY <1>3, <1>4

\* A sum of zeros.
LEMMA SumZero ==
  ASSUME NEW v, NEW S, IsFiniteSet(S), \A x \in S : v[x] = 0
  PROVE  Sum(v, S) = 0
<1> DEFINE T == {n \in Nat : \E s \in SUBSET S : Cardinality(s) = n /\ Sum(v, s) # 0}
<1>0. \A s \in SUBSET S : IsFiniteSet(s) /\ Cardinality(s) \in Nat
  BY FS_Subset, FS_CardinalityType
<1>1. T = {}
  <2>1. SUFFICES ASSUME T # {} PROVE FALSE
    OBVIOUS
  <2>2. PICK n \in T : \A m \in T : ~(m < n)
    BY <2>1, Least
  <2>3. PICK s \in SUBSET S : Cardinality(s) = n /\ Sum(v, s) # 0
    BY <2>2
  <2>4. s # {} /\ Sum(v, s) = v[Pick(s)] + Sum(v, s \ {Pick(s)})
    BY <1>0, <2>3, SumPick
  <2> DEFINE r == s \ {Pick(s)}
  <2>5. Pick(s) \in s
    BY <2>4, PickIn
  <2>6. Cardinality(r) \in Nat /\ Cardinality(r) < n
    BY <1>0, <2>3, <2>5, Without
  <2>7. Sum(v, r) = 0 /\ v[Pick(s)] = 0
    BY <2>2, <2>5, <2>6
  <2>. HIDE DEF r
  <2>. QED BY <2>3, <2>4, <2>7 DEF r
<1>2. Cardinality(S) \notin T
  BY <1>1
<1>. QED BY <1>0, <1>2

----------------------------------------------------------------------------
(* Folds.  FoldLeft is a recursive function on the sets of positions: one  *)
(* that steps from the set without its last position.                      *)

\* f is the recursive function of a fold over n positions.
Folds(n, base, step, f) ==
  f = [s \in SUBSET (1..n) |-> IF s = {} THEN base ELSE step[<<f[s \ {Max(s)}], Max(s)>>]]

\* A set of natural numbers with a bound has a greatest one, and Max is it.
LEMMA MaxIs ==
  ASSUME NEW S \in SUBSET Nat, S # {}, NEW b \in Nat, \A y \in S : y <= b
  PROVE  Max(S) \in S /\ \A y \in S : y <= Max(S)
<1> DEFINE T == {u \in Nat : \A y \in S : y <= u}
<1>1. PICK u \in T : \A v \in T : ~(v < u)
  BY Least
<1>2. u \in S
  <2>1. SUFFICES ASSUME u \notin S PROVE FALSE
    OBVIOUS
  <2>2. \A y \in S : y < u
    BY <2>1
  <2>3. PICK z \in S : TRUE
    OBVIOUS
  <2>4. u - 1 \in Nat
    BY <2>2, <2>3
  <2>5. \A y \in S : y <= u - 1
    BY <2>2
  <2>. QED BY <1>1, <2>4, <2>5
<1>3. \E x \in S : \A y \in S : x >= y
  BY <1>2
<1>. QED BY <1>3 DEF Max

\* The least of a set of natural numbers is its Min.
LEMMA MinIs ==
  ASSUME NEW S \in SUBSET Nat, S # {}
  PROVE  Min(S) \in S /\ \A y \in S : Min(S) <= y
<1>1. \E x \in S : \A y \in S : x <= y
  BY Least
<1>. QED BY <1>1 DEF Min

\* The minimum of two.
LEMMA MinOfTwo ==
  ASSUME NEW a \in Int, NEW b \in Int
  PROVE  Min({a, b}) = IF a <= b THEN a ELSE b
<1>1. \E x \in {a, b} : \A y \in {a, b} : x <= y
  OBVIOUS
<1>2. Min({a, b}) \in {a, b} /\ \A y \in {a, b} : Min({a, b}) <= y
  BY <1>1 DEF Min
<1>. QED BY <1>2

\* The maximum of two.
LEMMA MaxOfTwo ==
  ASSUME NEW a \in Int, NEW b \in Int
  PROVE  Max({a, b}) = IF a >= b THEN a ELSE b
<1>1. \E x \in {a, b} : \A y \in {a, b} : x >= y
  OBVIOUS
<1>2. Max({a, b}) \in {a, b} /\ \A y \in {a, b} : Max({a, b}) >= y
  BY <1>1 DEF Max
<1>. QED BY <1>2

\* The last of the first positions.
LEMMA LastOf ==
  ASSUME NEW k \in Nat \ {0}
  PROVE  Max(1..k) = k /\ (1..k) \ {k} = 1..(k - 1) /\ 1..k # {}
<1>1. 1..k \in SUBSET Nat /\ 1..k # {} /\ \A y \in 1..k : y <= k
  OBVIOUS
<1>2. Max(1..k) \in 1..k /\ \A y \in 1..k : y <= Max(1..k)
  BY <1>1, MaxIs
<1>. QED BY <1>1, <1>2

\* What holds of 0 and of one more than each number below n it holds of, holds up to n.
LEMMA UpTo ==
  ASSUME NEW n \in Nat, NEW G, 0 \in G, \A i \in 0..(n - 1) : i \in G => i + 1 \in G
  PROVE  0..n \subseteq G
<1> DEFINE T == (0..n) \ G
<1>1. SUFFICES ASSUME T # {} PROVE FALSE
  OBVIOUS
<1>0. T \in SUBSET Nat
  OBVIOUS
<1>. HIDE DEF T
<1>2. PICK i \in T : \A j \in T : ~(j < i)
  BY <1>0, <1>1, Least
<1>3. i # 0 /\ i - 1 \in 0..(n - 1) /\ i - 1 \in 0..n /\ i - 1 < i /\ (i - 1) + 1 = i
  BY <1>2 DEF T
<1>. QED BY <1>2, <1>3 DEF T

\* A fold over n positions is there if its steps stay in a set A.
LEMMA FoldExists ==
  ASSUME NEW n \in Nat, NEW A, NEW base \in A, NEW step,
         \A a \in A, i \in 1..n : step[<<a, i>>] \in A
  PROVE  \E f : Folds(n, base, step, f) /\ \A s \in SUBSET (1..n) : f[s] \in A
<1> DEFINE Small(m) == {s \in SUBSET (1..n) : Cardinality(s) <= m}
           Is(m, f) == /\ f = [s \in Small(m) |-> IF s = {} THEN base ELSE step[<<f[s \ {Max(s)}], Max(s)>>]]
                       /\ \A s \in Small(m) : f[s] \in A
           G == {m \in Nat : \E f : Is(m, f)}
<1>0. \A s \in SUBSET (1..n) : IsFiniteSet(s) /\ Cardinality(s) \in Nat /\ Cardinality(s) <= n
  <2>1. IsFiniteSet(1..n) /\ Cardinality(1..n) = n
    BY FS_Interval
  <2>. QED BY <2>1, FS_Subset, FS_CardinalityType
<1>1. 0 \in G
  <2> DEFINE f == [s \in Small(0) |-> base]
  <2>1. ASSUME NEW s \in Small(0) PROVE s = {}
    <3>1. Cardinality(s) = 0 /\ IsFiniteSet(s)
      BY <1>0
    <3>. QED BY <3>1, FS_EmptySet
  <2>2. Is(0, f)
    BY <2>1
  <2>. QED BY <2>2
<1>2. ASSUME NEW m \in 0..(n - 1), m \in G
      PROVE  m + 1 \in G
  <2>1. PICK f : Is(m, f)
    BY <1>2
  <2> DEFINE g == [s \in Small(m + 1) |-> IF s = {} THEN base ELSE step[<<f[s \ {Max(s)}], Max(s)>>]]
  <2>2. ASSUME NEW s \in Small(m + 1), s # {}
        PROVE  /\ g[s \ {Max(s)}] = f[s \ {Max(s)}] /\ g[s \ {Max(s)}] \in A
               /\ Max(s) \in 1..n
    <3>0. s \in SUBSET (1..n) /\ Cardinality(s) <= m + 1
      BY <2>2
    <3>a. s \in SUBSET Nat /\ \A y \in s : y <= n
      BY <3>0
    <3>1. Max(s) \in s
      BY <2>2, <3>a, MaxIs
    <3>2. Cardinality(s \ {Max(s)}) = Cardinality(s) - 1 /\ Cardinality(s) \in Nat
      BY <1>0, <3>0, <3>1, Without
    <3>3. s \ {Max(s)} \in Small(m) /\ s \ {Max(s)} \in Small(m + 1)
      <4>1. Cardinality(s \ {Max(s)}) <= m /\ Cardinality(s \ {Max(s)}) <= m + 1
        BY <3>0, <3>2
      <4>2. s \ {Max(s)} \in SUBSET (1..n)
        BY <3>0
      <4>. QED BY <4>1, <4>2
    <3>. QED BY <2>1, <3>0, <3>1, <3>3
  <2>3. g = [s \in Small(m + 1) |-> IF s = {} THEN base ELSE step[<<g[s \ {Max(s)}], Max(s)>>]]
    BY <2>2
  <2>4. ASSUME NEW s \in Small(m + 1) PROVE g[s] \in A
    <3>1. CASE s = {}
      BY <3>1
    <3>2. CASE s # {}
      BY <2>2, <3>2
    <3>. QED BY <3>1, <3>2
  <2>. HIDE DEF g
  <2>5. Is(m + 1, g)
    BY <2>3, <2>4
  <2>. HIDE DEF Is
  <2>. QED BY <2>5
<1>. HIDE DEF Is
<1>3. 0..n \subseteq G
  BY <1>1, <1>2, UpTo
<1>4. n \in G
  BY <1>3
<1>5. PICK f : Is(n, f)
  BY <1>4
<1>6. Small(n) = SUBSET (1..n)
  BY <1>0
<1>. HIDE DEF Small
<1>. QED BY <1>5, <1>6 DEF Is, Folds

----------------------------------------------------------------------------
(* Sequences made of sets *)

\* SetToSeq holds every element once.
LEMMA SetToSeqIs ==
  ASSUME NEW S, IsFiniteSet(S)
  PROVE  /\ Cardinality(S) \in Nat
         /\ SetToSeq(S) \in [1..Cardinality(S) -> S]
         /\ \A i, j \in 1..Cardinality(S) : SetToSeq(S)[i] = SetToSeq(S)[j] => i = j
         /\ \A x \in S : \E i \in 1..Cardinality(S) : SetToSeq(S)[i] = x
<1> DEFINE n == Cardinality(S)
           f == SetToSeq(S)
<1>1. n \in Nat /\ ExistsBijection(1..n, S)
  BY FS_CardinalityType
<1>2. \E g \in [1..n -> S] : IsInjective(g)
  BY <1>1 DEF ExistsBijection, Bijection, Injection
<1>3. f \in [1..n -> S] /\ IsInjective(f)
  BY <1>2 DEF SetToSeq
<1>. HIDE DEF f
<1>4. f \in Injection(1..n, S)
  BY <1>3 DEF Injection
<1>5. IsFiniteSet(1..n) /\ Cardinality(1..n) = n
  BY <1>1, FS_Interval
<1>6. f \in Surjection(1..n, S)
  BY <1>4, <1>5, FS_Injection
<1>. QED BY <1>1, <1>3, <1>6 DEF IsInjective, Surjection, f

\* R orders S: any two elements are in one order, and it is transitive.
Orders(R, S) ==
  /\ \A x \in S : <<x, x>> \notin R
  /\ \A x, y \in S : x = y \/ <<x, y>> \in R \/ <<y, x>> \in R
  /\ \A x, y, z \in S : <<x, y>> \in R /\ <<y, z>> \in R => <<x, z>> \in R

\* f[k] is an element that k - 1 others come before, if there is one.
Ranks(f, S, R) ==
  \A k \in 1..Cardinality(S) :
    (\E x \in S : Cardinality({y \in S : <<y, x>> \in R}) = k - 1)
      => f[k] \in S /\ Cardinality({y \in S : <<y, f[k]>> \in R}) = k - 1

\* The elements by the number of those before them: each once, and in order.
LEMMA RankedIs ==
  ASSUME NEW S, IsFiniteSet(S), NEW R, Orders(R, S), NEW f, Ranks(f, S, R)
  PROVE  /\ Cardinality(S) \in Nat
         /\ \A i \in 1..Cardinality(S) : f[i] \in S
         /\ \A x \in S : \E i \in 1..Cardinality(S) : f[i] = x
         /\ \A i, j \in 1..Cardinality(S) : i < j <=> <<f[i], f[j]>> \in R
         /\ \A i, j \in 1..Cardinality(S) : f[i] = f[j] => i = j
<1> DEFINE n == Cardinality(S)
           below(x) == {y \in S : <<y, x>> \in R}
           r == [x \in S |-> Cardinality(below(x)) + 1]
<1>0. n \in Nat
  BY FS_CardinalityType
<1>1. ASSUME NEW x \in S
      PROVE  IsFiniteSet(below(x)) /\ Cardinality(below(x)) \in 0..(n - 1)
  <2>1. below(x) \in SUBSET S /\ below(x) # S
    BY DEF Orders
  <2>2. IsFiniteSet(below(x)) /\ Cardinality(below(x)) <= n /\ Cardinality(below(x)) # n
    BY <2>1, FS_Subset
  <2>3. Cardinality(below(x)) \in Nat
    BY <2>2, FS_CardinalityType
  <2>. QED BY <1>0, <2>2, <2>3
<1>2. ASSUME NEW x \in S, NEW y \in S, <<x, y>> \in R
      PROVE  Cardinality(below(x)) < Cardinality(below(y))
  <2>1. below(x) \in SUBSET below(y) /\ x \in below(y) /\ x \notin below(x)
    BY <1>2 DEF Orders
  <2>2. Cardinality(below(x)) <= Cardinality(below(y)) /\ Cardinality(below(x)) # Cardinality(below(y))
    BY <1>1, <2>1, FS_Subset
  <2>3. Cardinality(below(x)) \in Nat /\ Cardinality(below(y)) \in Nat
    BY <1>1, FS_CardinalityType
  <2>. QED BY <2>2, <2>3
<1>. HIDE DEF below
<1>3. r \in [S -> 1..n] /\ \A x \in S : r[x] = Cardinality(below(x)) + 1
  BY <1>0, <1>1
<1>4. \A x, y \in S : <<x, y>> \in R => r[x] < r[y]
  BY <1>1, <1>2, <1>3
<1>. HIDE DEF r
<1>5. ASSUME NEW x \in S, NEW y \in S, r[x] = r[y] PROVE x = y
  <2>1. r[x] \in Nat /\ r[y] \in Nat
    BY <1>0, <1>3
  <2>2. x = y \/ <<x, y>> \in R \/ <<y, x>> \in R
    BY DEF Orders
  <2>. QED BY <1>4, <1>5, <2>1, <2>2
<1>6. r \in Surjection(S, 1..n)
  <2>1. r \in Injection(S, 1..n)
    BY <1>3, <1>5 DEF Injection, IsInjective
  <2>2. IsFiniteSet(1..n) /\ Cardinality(1..n) = n
    BY <1>0, FS_Interval
  <2>. QED BY <2>1, <2>2, FS_Injection
<1>7. ASSUME NEW k \in 1..n PROVE f[k] \in S /\ r[f[k]] = k
  <2>1. PICK x \in S : r[x] = k
    BY <1>6 DEF Surjection
  <2>2. Cardinality(below(x)) = k - 1
    <3>1. Cardinality(below(x)) \in Nat /\ r[x] = Cardinality(below(x)) + 1
      BY <1>1, <1>3, FS_CardinalityType
    <3>. QED BY <2>1, <3>1
  <2>3. f[k] \in S /\ Cardinality(below(f[k])) = k - 1
    <3>1. \E z \in S : Cardinality({y \in S : <<y, z>> \in R}) = k - 1
      BY <2>2 DEF below
    <3>2. f[k] \in S /\ Cardinality({y \in S : <<y, f[k]>> \in R}) = k - 1
      BY <3>1 DEF Ranks
    <3>. QED BY <3>2 DEF below
  <2>4. r[f[k]] = (k - 1) + 1
    BY <1>3, <2>3
  <2>. QED BY <2>3, <2>4
<1>8. ASSUME NEW x \in S PROVE \E i \in 1..n : f[i] = x
  <2>1. r[x] \in 1..n /\ r[f[r[x]]] = r[x] /\ f[r[x]] \in S
    BY <1>3, <1>7
  <2>. QED BY <1>5, <2>1
<1>9. ASSUME NEW i \in 1..n, NEW j \in 1..n PROVE i < j <=> <<f[i], f[j]>> \in R
  <2>0. f[i] \in S /\ f[j] \in S /\ r[f[i]] = i /\ r[f[j]] = j /\ i \in Int /\ j \in Int
    <3>1. i \in Int /\ j \in Int
      BY <1>0
    <3>2. f[i] \in S /\ r[f[i]] = i
      BY <1>7
    <3>3. f[j] \in S /\ r[f[j]] = j
      BY <1>7
    <3>. QED BY <3>1, <3>2, <3>3
  <2>1. <<f[i], f[j]>> \in R => i < j
    BY <1>4, <2>0
  <2>2. <<f[j], f[i]>> \in R => j < i
    BY <1>4, <2>0
  <2>3. f[i] = f[j] => i = j
    BY <2>0
  <2>4. f[i] = f[j] \/ <<f[i], f[j]>> \in R \/ <<f[j], f[i]>> \in R
    BY <2>0 DEF Orders
  <2>5. i < j => ~(j < i) /\ i # j
    BY <2>0
  <2>. QED BY <2>1, <2>2, <2>3, <2>4, <2>5
<1>10. \A i, j \in 1..n : f[i] = f[j] => i = j
  BY <1>7
<1>11. \A i \in 1..n : f[i] \in S
  BY <1>7
<1>. QED BY <1>0, <1>8, <1>9, <1>10, <1>11
=============================================================================
