--------------------------- MODULE ThrottleProofs ---------------------------
(***************************************************************************)
(* Proofs about Throttle, for every set of writers or of readers, all      *)
(* rates and sizes of buffers, and every number of ticks of a period.      *)
(* Sums are summed one element at a time, so what holds of them is shown   *)
(* by induction over the number of elements; the induction itself rests on *)
(* the well-foundedness of the naturals.                                   *)
(***************************************************************************)
EXTENDS Throttle, Integers, FiniteSetTheorems, WellFoundedInduction, TLAPS

-----------------------------------------------------------------------------
(* Sums.  MapThenSumSet takes its elements as CHOOSE finds them; Sums is   *)
(* the function by which it does, on the parts of S.                       *)
Sum(g, S) == MapThenSumSet(LAMBDA x : g[x], S)

Any(s) == CHOOSE x \in s : TRUE
Sums(g, S) == CHOOSE iter : iter = [s \in SUBSET S |->
                 IF s = {} THEN 0 ELSE g[Any(s)] + iter[s \ {Any(s)}]]

(* The library's sum is that function.                                     *)
LEMMA SumIs == \A g, S : Sum(g, S) = Sums(g, S)[S]
  BY DEF Sum, Sums, Any, MapThenSumSet, MapThenFoldSet

(* Induction over the natural numbers, for a set of them.                  *)
LEMMA Induction ==
  ASSUME NEW T, 0 \in T, \A n \in Nat : n \in T => n + 1 \in T
  PROVE  \A n \in Nat : n \in T
<1> DEFINE Less == OpToRel(<, Nat)
           Rest == Nat \ T
<1> SUFFICES ASSUME Rest # {} PROVE FALSE
  OBVIOUS
<1>1. IsWellFoundedOn(Less, Nat)
  BY NatLessThanWellFounded
<1>2. PICK m \in Rest : \A y \in Rest : ~(<<y, m>> \in Less)
  BY <1>1, WFMin
<1>3. m \in Nat /\ m # 0 /\ m - 1 \in Nat
  <2> HIDE DEF Less
  <2>1. m \in Nat /\ m # 0
    OBVIOUS
  <2>2. QED
    BY <2>1
<1>4. m - 1 \notin T
  <2>1. m - 1 \in T => m - 1 + 1 \in T
    BY <1>3
  <2>2. m - 1 + 1 = m
    BY <1>3
  <2>3. QED
    BY <1>2, <2>1, <2>2
<1>5. <<m - 1, m>> \in Less
  <2>1. m - 1 < m
    BY <1>3
  <2>2. QED
    BY <1>3, <2>1 DEF OpToRel
<1>6. QED
  BY <1>2, <1>3, <1>4, <1>5

(* Induction over the parts of a finite set: what holds of none and comes  *)
(* with one more element holds of all of them.                             *)
LEMMA SetInduction ==
  ASSUME NEW S, IsFiniteSet(S), NEW T, {} \in T,
         \A s \in SUBSET S : s # {} /\ s \ {Any(s)} \in T => s \in T
  PROVE  \A s \in SUBSET S : s \in T
<1> DEFINE N == {n \in Nat : \A s \in SUBSET S : Cardinality(s) = n => s \in T}
<1>1. \A s \in SUBSET S : IsFiniteSet(s) /\ Cardinality(s) \in Nat
  BY FS_Subset, FS_CardinalityType
<1>2. 0 \in N
  BY <1>1, FS_EmptySet
<1>3. ASSUME NEW n \in Nat, n \in N PROVE n + 1 \in N
  <2>1. ASSUME NEW s \in SUBSET S, Cardinality(s) = n + 1 PROVE s \in T
    <3>1. s # {}
      BY <2>1, FS_EmptySet
    <3>2. Any(s) \in s
      BY <3>1 DEF Any
    <3>3. Cardinality(s \ {Any(s)}) = n
      BY <1>1, <2>1, <3>2, FS_RemoveElement
    <3>4. s \ {Any(s)} \in T
      BY <1>3, <3>3
    <3>5. QED
      BY <3>1, <3>4
  <2>2. QED
    BY <2>1
<1>4. \A n \in Nat : n \in N
  <2> HIDE DEF N
  <2> QED
    BY <1>2, <1>3, Induction
<1>5. QED
  BY <1>1, <1>4

(* The equation that a sum satisfies.                                      *)
LEMMA SumsExist ==
  ASSUME NEW S, IsFiniteSet(S), NEW g
  PROVE  Sums(g, S) = [s \in SUBSET S |-> IF s = {} THEN 0 ELSE g[Any(s)] + Sums(g, S)[s \ {Any(s)}]]
<1> DEFINE Small(n) == {s \in SUBSET S : Cardinality(s) <= n}
           Defined(f, n) == f = [s \in Small(n) |-> IF s = {} THEN 0 ELSE g[Any(s)] + f[s \ {Any(s)}]]
           N == {n \in Nat : \E f : Defined(f, n)}
<1>1. \A s \in SUBSET S : /\ IsFiniteSet(s) /\ Cardinality(s) \in Nat
                          /\ Cardinality(s) = 0 <=> s = {}
  BY FS_Subset, FS_CardinalityType, FS_EmptySet
<1>2. \A s \in SUBSET S : s # {} => s \ {Any(s)} \in SUBSET S /\ Cardinality(s \ {Any(s)}) = Cardinality(s) - 1
  <2> TAKE s \in SUBSET S
  <2> HAVE s # {}
  <2>1. Any(s) \in s
    BY DEF Any
  <2>2. QED
    BY <1>1, <2>1, FS_RemoveElement
<1>3. 0 \in N
  <2>1. Small(0) = {{}}
    BY <1>1
  <2>2. Defined([s \in Small(0) |-> 0], 0)
    BY <2>1
  <2>3. QED
    BY <2>2
<1>4. ASSUME NEW n \in Nat, n \in N PROVE n + 1 \in N
  <2>1. PICK f : Defined(f, n)
    BY <1>4
  <2> DEFINE h == [s \in Small(n + 1) |-> IF s = {} THEN 0 ELSE g[Any(s)] + f[s \ {Any(s)}]]
  <2>2. \A s \in Small(n) : h[s] = f[s]
    <3>1. Small(n) \subseteq Small(n + 1)
      BY <1>1
    <3>2. \A s \in Small(n) : f[s] = IF s = {} THEN 0 ELSE g[Any(s)] + f[s \ {Any(s)}]
      BY <2>1, Zenon
    <3>3. QED
      BY <3>1, <3>2, Zenon
  <2>3. \A s \in Small(n + 1) : s # {} => s \ {Any(s)} \in Small(n)
    BY <1>1, <1>2
  <2>4. Defined(h, n + 1)
    <3> HIDE DEF Small
    <3>1. \A s \in Small(n + 1) : s # {} => h[s \ {Any(s)}] = f[s \ {Any(s)}]
      BY <2>2, <2>3, Zenon
    <3>2. QED
      BY <3>1
  <2>5. n + 1 \in Nat
    OBVIOUS
  <2>6. QED
    <3> HIDE DEF Defined, h
    <3> QED
      BY <2>4, <2>5
<1>5. Cardinality(S) \in N
  <2>1. \A n \in Nat : n \in N
    <3> HIDE DEF N
    <3> QED
      BY <1>3, <1>4, Induction
  <2>2. QED
    BY <2>1, FS_CardinalityType
<1>6. Small(Cardinality(S)) = SUBSET S
  BY FS_Subset, <1>1
<1>7. \E f : f = [s \in SUBSET S |-> IF s = {} THEN 0 ELSE g[Any(s)] + f[s \ {Any(s)}]]
  BY <1>5, <1>6, Zenon
<1>8. QED
  BY <1>7, Zenon DEF Sums

(* A sum is one of its elements and the sum of the others.                 *)
LEMMA SumUnfolds ==
  ASSUME NEW S, IsFiniteSet(S), NEW g
  PROVE  /\ Sum(g, {}) = 0
         /\ \A s \in SUBSET S : s # {} => Sum(g, s) = g[Any(s)] + Sum(g, s \ {Any(s)})
<1>1. Sum(g, {}) = 0
  <2>1. IsFiniteSet({})
    BY FS_EmptySet
  <2>2. QED
    BY <2>1, SumsExist, SumIs
<1>2. \A s \in SUBSET S : IsFiniteSet(s)
  BY FS_Subset
<1>3. ASSUME NEW T, IsFiniteSet(T)
      PROVE  \A s \in SUBSET T : Sums(g, T)[s] = IF s = {} THEN 0 ELSE g[Any(s)] + Sums(g, T)[s \ {Any(s)}]
  <2> DEFINE F == Sums(g, T)
  <2>1. F = [s \in SUBSET T |-> IF s = {} THEN 0 ELSE g[Any(s)] + F[s \ {Any(s)}]]
    BY <1>3, SumsExist
  <2> HIDE DEF F
  <2>2. \A s \in SUBSET T : F[s] = IF s = {} THEN 0 ELSE g[Any(s)] + F[s \ {Any(s)}]
    BY <2>1
  <2>3. QED
    BY <2>2 DEF F
(* The sum of a part is the same, taken within the part or the whole.      *)
<1>4. ASSUME NEW T \in SUBSET S
      PROVE  \A s \in SUBSET T : Sums(g, T)[s] = Sums(g, S)[s]
  <2> DEFINE Same == {s \in SUBSET T : Sums(g, T)[s] = Sums(g, S)[s]}
  <2>1. IsFiniteSet(T)
    BY <1>2
  <2>2. {} \in Same
    BY <1>3, <2>1, Zenon
  <2>3. ASSUME NEW s \in SUBSET T, s # {}, s \ {Any(s)} \in Same
        PROVE  s \in Same
    <3>1. /\ Sums(g, T)[s] = g[Any(s)] + Sums(g, T)[s \ {Any(s)}]
          /\ Sums(g, S)[s] = g[Any(s)] + Sums(g, S)[s \ {Any(s)}]
      BY <1>3, <2>1, <2>3
    <3>2. QED
      BY <2>3, <3>1
  <2>4. \A s \in SUBSET T : s \in Same
    <3> HIDE DEF Same
    <3> QED
      BY <2>1, <2>2, <2>3, SetInduction
  <2>5. QED
    BY <2>4
<1>5. ASSUME NEW s \in SUBSET S, s # {}
      PROVE  Sum(g, s) = g[Any(s)] + Sum(g, s \ {Any(s)})
  <2>1. s \ {Any(s)} \in SUBSET s
    OBVIOUS
  <2>2. Sums(g, s)[s] = g[Any(s)] + Sums(g, s)[s \ {Any(s)}]
    BY <1>2, <1>3, <1>5
  <2>3. Sums(g, s)[s \ {Any(s)}] = Sums(g, s \ {Any(s)})[s \ {Any(s)}]
    <3>1. s \ {Any(s)} \in SUBSET S
      OBVIOUS
    <3>2. Sums(g, s)[s \ {Any(s)}] = Sums(g, S)[s \ {Any(s)}]
      BY <1>4, <2>1
    <3>3. Sums(g, s \ {Any(s)})[s \ {Any(s)}] = Sums(g, S)[s \ {Any(s)}]
      BY <1>4, <3>1
    <3>4. QED
      BY <3>2, <3>3
  <2>4. QED
    BY <2>2, <2>3, SumIs
<1>6. QED
  BY <1>1, <1>5

(* A sum of numbers, and what bounds it.                                   *)
LEMMA SumNat ==
  ASSUME NEW S, IsFiniteSet(S), NEW g, \A x \in S : g[x] \in Nat
  PROVE  \A s \in SUBSET S : Sum(g, s) \in Nat
<1> DEFINE T == {s \in SUBSET S : Sum(g, s) \in Nat}
<1>1. {} \in T
  BY SumUnfolds
<1>2. ASSUME NEW s \in SUBSET S, s # {}, s \ {Any(s)} \in T
      PROVE  s \in T
  <2>1. Any(s) \in S
    BY <1>2 DEF Any
  <2>2. Sum(g, s) = g[Any(s)] + Sum(g, s \ {Any(s)})
    BY <1>2, SumUnfolds
  <2>3. QED
    BY <1>2, <2>1, <2>2
<1>3. QED
  <2> HIDE DEF T
  <2>1. \A s \in SUBSET S : s \in T
    BY <1>1, <1>2, SetInduction
  <2>2. QED
    BY <2>1 DEF T

(* Any element can be taken out of a sum first.                            *)
LEMMA SumWithout ==
  ASSUME NEW S, IsFiniteSet(S), NEW g, \A x \in S : g[x] \in Nat
  PROVE  \A s \in SUBSET S : \A x \in s : Sum(g, s) = g[x] + Sum(g, s \ {x})
<1> DEFINE Any1(s, x) == Sum(g, s) = g[x] + Sum(g, s \ {x})
           N == {n \in Nat : \A s \in SUBSET S : Cardinality(s) = n => \A x \in s : Any1(s, x)}
<1>1. \A s \in SUBSET S : IsFiniteSet(s) /\ Cardinality(s) \in Nat
  BY FS_Subset, FS_CardinalityType
<1>2. 0 \in N
  BY <1>1, FS_EmptySet
<1>3. ASSUME NEW n \in Nat, n \in N PROVE n + 1 \in N
  <2>1. ASSUME NEW s \in SUBSET S, Cardinality(s) = n + 1, NEW x \in s
        PROVE  Any1(s, x)
    <3> DEFINE a == Any(s)
    <3>1. a \in s
      BY DEF Any
    <3>2. Sum(g, s) = g[a] + Sum(g, s \ {a})
      BY SumUnfolds
    <3>3. CASE x = a
      BY <3>2, <3>3
    <3>4. CASE x # a
      <4> HIDE DEF a
      <4>1. \A y \in s : s \ {y} \in SUBSET S /\ Cardinality(s \ {y}) = n
        <5> TAKE y \in s
        <5>1. IsFiniteSet(s) /\ s \ {y} \in SUBSET S
          BY <1>1
        <5>2. Cardinality(s \ {y}) = Cardinality(s) - 1
          BY <5>1, FS_RemoveElement
        <5>3. QED
          BY <2>1, <5>1, <5>2
      <4>2. Sum(g, s \ {a}) = g[x] + Sum(g, (s \ {a}) \ {x})
        BY <1>3, <3>1, <3>4, <4>1
      <4>3. Sum(g, s \ {x}) = g[a] + Sum(g, (s \ {x}) \ {a})
        BY <1>3, <3>1, <3>4, <4>1
      <4>4. (s \ {a}) \ {x} = (s \ {x}) \ {a} /\ (s \ {a}) \ {x} \in SUBSET S
        OBVIOUS
      <4>5. Sum(g, (s \ {a}) \ {x}) \in Nat /\ g[x] \in Nat /\ g[a] \in Nat
        BY <3>1, <4>4, SumNat
      <4>6. QED
        BY <3>2, <4>2, <4>3, <4>4, <4>5
    <3>5. QED
      BY <3>3, <3>4
  <2>2. QED
    BY <2>1
<1>4. \A n \in Nat : n \in N
  <2> HIDE DEF N
  <2> QED
    BY <1>2, <1>3, Induction
<1>5. QED
  BY <1>1, <1>4

(* What is bounded by two summands each is bounded by the two sums.        *)
LEMMA SumOfParts ==
  ASSUME NEW S, IsFiniteSet(S), NEW f, NEW g, NEW h,
         \A x \in S : f[x] \in Nat /\ g[x] \in Nat /\ h[x] \in Nat /\ f[x] <= g[x] + h[x]
  PROVE  Sum(f, S) <= Sum(g, S) + Sum(h, S)
<1> DEFINE T == {s \in SUBSET S : Sum(f, s) <= Sum(g, s) + Sum(h, s)}
<1>1. {} \in T
  BY SumUnfolds
<1>2. ASSUME NEW s \in SUBSET S, s # {}, s \ {Any(s)} \in T
      PROVE  s \in T
  <2> DEFINE a == Any(s)
             r == s \ {a}
  <2>1. a \in S /\ r \in SUBSET S
    BY <1>2 DEF Any
  <2>2. Sum(f, s) = f[a] + Sum(f, r) /\ Sum(g, s) = g[a] + Sum(g, r) /\ Sum(h, s) = h[a] + Sum(h, r)
    BY <1>2, SumUnfolds
  <2>3. Sum(f, r) \in Nat /\ Sum(g, r) \in Nat /\ Sum(h, r) \in Nat
    BY <2>1, SumNat
  <2>4. Sum(f, r) <= Sum(g, r) + Sum(h, r)
    BY <1>2
  <2>5. f[a] \in Nat /\ g[a] \in Nat /\ h[a] \in Nat /\ f[a] <= g[a] + h[a]
    BY <2>1
  <2> HIDE DEF a, r
  <2>6. Sum(f, s) <= Sum(g, s) + Sum(h, s)
    BY <2>2, <2>3, <2>4, <2>5
  <2>7. QED
    BY <2>6
<1>3. QED
  <2> HIDE DEF T
  <2>1. \A s \in SUBSET S : s \in T
    BY <1>1, <1>2, SetInduction
  <2>2. QED
    BY <2>1 DEF T

(* Equal summands are multiplied.                                          *)
LEMMA SumOfEqual ==
  ASSUME NEW S, IsFiniteSet(S), NEW f, NEW b \in Nat, \A x \in S : f[x] = b
  PROVE  Sum(f, S) = b * Cardinality(S)
<1> DEFINE T == {s \in SUBSET S : Sum(f, s) = b * Cardinality(s)}
<1>1. {} \in T
  BY SumUnfolds, FS_EmptySet
<1>2. ASSUME NEW s \in SUBSET S, s # {}, s \ {Any(s)} \in T
      PROVE  s \in T
  <2> DEFINE a == Any(s)
             r == s \ {a}
  <2>1. a \in s /\ r \in SUBSET S
    BY <1>2 DEF Any
  <2>2. Sum(f, s) = b + Sum(f, r)
    BY <1>2, <2>1, SumUnfolds
  <2>3. Cardinality(r) \in Nat /\ Cardinality(s) = Cardinality(r) + 1
    <3>1. IsFiniteSet(s) /\ IsFiniteSet(r) /\ Cardinality(s) \in Nat /\ Cardinality(r) \in Nat
      BY <2>1, FS_Subset, FS_CardinalityType
    <3>2. Cardinality(r) = Cardinality(s) - 1
      BY <2>1, <3>1, FS_RemoveElement
    <3>3. QED
      BY <3>1, <3>2
  <2>4. Sum(f, r) = b * Cardinality(r)
    BY <1>2
  <2>5. b * (Cardinality(r) + 1) = b + b * Cardinality(r)
    BY <2>3
  <2>6. QED
    BY <2>2, <2>3, <2>4, <2>5
<1>3. QED
  <2> HIDE DEF T
  <2>1. \A s \in SUBSET S : s \in T
    BY <1>1, <1>2, SetInduction
  <2>2. QED
    BY <2>1 DEF T

(* What one summand more or less makes.                                    *)
LEMMA SumChanges ==
  ASSUME NEW S, IsFiniteSet(S), NEW x \in S, NEW f, NEW g,
         \A y \in S : f[y] \in Nat /\ g[y] \in Nat,
         \A y \in S \ {x} : f[y] = g[y]
  PROVE  Sum(f, S) + g[x] = Sum(g, S) + f[x]
<1> DEFINE R == S \ {x}
           z == [y \in S |-> 0]
<1>1. IsFiniteSet(R) /\ R \in SUBSET S
  BY FS_RemoveElement
<1>2. Sum(f, S) = f[x] + Sum(f, R) /\ Sum(g, S) = g[x] + Sum(g, R)
  BY SumWithout
<1>3. Sum(f, R) \in Nat /\ Sum(g, R) \in Nat
  BY <1>1, SumNat
<1>4. Sum(z, R) = 0
  <2>1. Sum(z, R) = 0 * Cardinality(R)
    <3>1. \A y \in R : z[y] = 0
      OBVIOUS
    <3> HIDE DEF z, R
    <3>2. QED
      BY <1>1, <3>1, SumOfEqual
  <2>2. QED
    BY <1>1, <2>1, FS_CardinalityType
<1>5. Sum(f, R) <= Sum(g, R) + Sum(z, R) /\ Sum(g, R) <= Sum(f, R) + Sum(z, R)
  <2>1. \A y \in R : /\ f[y] \in Nat /\ g[y] \in Nat /\ z[y] \in Nat
                     /\ f[y] <= g[y] + z[y] /\ g[y] <= f[y] + z[y]
    OBVIOUS
  <2> HIDE DEF z, R
  <2>2. QED
    BY <1>1, <2>1, SumOfParts
<1>6. QED
  BY <1>2, <1>3, <1>4, <1>5

(* A row of numbers is summed from its end.                                *)
LEMMA SumOfRow ==
  ASSUME NEW n \in Nat, NEW f, \A k \in 1..n : f[k] \in Nat, NEW m \in 1..n
  PROVE  Sum(f, 1..m) = f[m] + Sum(f, 1..(m - 1)) /\ Sum(f, 1..(m - 1)) \in Nat
<1> DEFINE S == 1..n
<1>1. /\ IsFiniteSet(S) /\ 1..m \in SUBSET S /\ 1..(m - 1) \in SUBSET S
      /\ m \in 1..m /\ (1..m) \ {m} = 1..(m - 1) /\ \A k \in S : f[k] \in Nat
  BY FS_Interval
<1> HIDE DEF S
<1>2. Sum(f, 1..m) = f[m] + Sum(f, (1..m) \ {m})
  BY <1>1, SumWithout
<1>3. Sum(f, 1..(m - 1)) \in Nat
  BY <1>1, SumNat
<1>4. QED
  BY <1>1, <1>2, <1>3, Zenon

(* A row of numbers that moves on by one place loses the last.             *)
LEMMA SumShifted ==
  ASSUME NEW n \in Nat, NEW f, NEW g,
         \A k \in 1..n : f[k] \in Nat /\ g[k] \in Nat,
         \A k \in 1..n : g[k] = IF k = 1 THEN 0 ELSE f[k - 1]
  PROVE  Sum(g, 1..n) <= Sum(f, 1..n)
<1> DEFINE T == {m \in Nat : m < n => Sum(g, 1..(m + 1)) = Sum(f, 1..m)}
<1>1. \A m \in Nat : IsFiniteSet(1..m)
  BY FS_Interval
<1>2. \A m \in 1..n : /\ 1..m \in SUBSET (1..n) /\ m \in 1..m /\ (1..m) \ {m} = 1..(m - 1)
                      /\ 1..(m - 1) \in SUBSET (1..n)
  OBVIOUS
<1>3. \A m \in 1..n : /\ Sum(f, 1..m) = f[m] + Sum(f, 1..(m - 1))
                      /\ Sum(g, 1..m) = g[m] + Sum(g, 1..(m - 1))
                      /\ Sum(f, 1..(m - 1)) \in Nat /\ Sum(g, 1..(m - 1)) \in Nat
  BY SumOfRow
<1>4. Sum(f, {}) = 0 /\ Sum(g, {}) = 0
  BY FS_EmptySet, SumUnfolds
<1>5. 0 \in T
  <2>1. CASE 0 < n
    <3>1. 1 \in 1..n /\ 1..0 = {} /\ 1 - 1 = 0
      BY <2>1
    <3>2. Sum(g, 1..1) = g[1] + Sum(g, 1..0)
      BY <1>3, <3>1
    <3>3. g[1] = 0
      BY <3>1
    <3>4. QED
      BY <1>4, <3>1, <3>2, <3>3
  <2>2. QED
    BY <2>1
<1>6. ASSUME NEW m \in Nat, m \in T PROVE m + 1 \in T
  <2>1. CASE m + 1 < n
    <3>1. Sum(g, 1..(m + 1)) = Sum(f, 1..m)
      BY <1>6, <2>1
    <3>2. m + 1 \in 1..n /\ m + 2 \in 1..n /\ m + 1 - 1 = m /\ m + 2 - 1 = m + 1 /\ m + 2 # 1 /\ m + 1 + 1 = m + 2
      BY <2>1
    <3>3. Sum(g, 1..(m + 2)) = g[m + 2] + Sum(g, 1..(m + 1)) /\ Sum(f, 1..(m + 1)) = f[m + 1] + Sum(f, 1..m)
      BY <1>3, <3>2
    <3>4. g[m + 2] = f[m + 1]
      BY <3>2
    <3>5. Sum(g, 1..(m + 2)) = Sum(f, 1..(m + 1))
      BY <3>1, <3>3, <3>4
    <3>6. QED
      BY <3>2, <3>5
  <2>2. QED
    BY <2>1
<1>7. CASE n = 0
  <2>1. 1..n = {}
    BY <1>7
  <2>2. QED
    BY <1>4, <2>1
<1>8. CASE n > 0
  <2>1. n \in 1..n /\ n - 1 \in Nat /\ n - 1 < n /\ n - 1 + 1 = n
    BY <1>8
  <2>2. n - 1 \in T
    <3> HIDE DEF T
    <3> QED
      BY <1>5, <1>6, <2>1, Induction
  <2>3. Sum(g, 1..n) = Sum(f, 1..(n - 1))
    BY <2>1, <2>2
  <2>4. Sum(f, 1..n) = f[n] + Sum(f, 1..(n - 1)) /\ Sum(f, 1..(n - 1)) \in Nat /\ f[n] \in Nat
    BY <1>3, <2>1
  <2>5. QED
    BY <2>3, <2>4
<1>9. QED
  BY <1>7, <1>8

-----------------------------------------------------------------------------
(* Rounded division.                                                       *)
LEMMA DivType ==
  ASSUME NEW a \in Nat, NEW b \in Nat \ {0}
  PROVE  a \div b \in Nat /\ b * (a \div b) <= a /\ a < b * (a \div b) + b
  OBVIOUS

(* The quotient is the greatest number that fits.                          *)
LEMMA DivIsMost ==
  ASSUME NEW a \in Nat, NEW b \in Nat \ {0}, NEW q \in Nat, b * q <= a
  PROVE  q <= a \div b
<1> DEFINE d == a \div b
<1>1. d \in Nat /\ a < b * d + b
  BY DivType
<1> HIDE DEF d
<1>2. ASSUME q >= d + 1 PROVE FALSE
  <2>1. PICK e \in Nat : q = d + 1 + e
    <3>1. q - (d + 1) \in Nat /\ q = d + 1 + (q - (d + 1))
      BY <1>1, <1>2
    <3>2. QED
      BY <3>1
  <2>2. b * q = b * d + b + b * e
    BY <1>1, <2>1
  <2>3. b * e \in Nat /\ b * d \in Nat
    BY <1>1, <2>1
  <2>4. QED
    BY <1>1, <2>2, <2>3
<1>3. q <= d
  BY <1>1, <1>2
<1>4. QED
  BY <1>3 DEF d

(* More divided is no less.                                                *)
LEMMA DivMonotonic ==
  ASSUME NEW a \in Nat, NEW c \in Nat, a <= c, NEW b \in Nat \ {0}
  PROVE  a \div b <= c \div b
<1> DEFINE d == a \div b
<1>1. d \in Nat /\ b * d <= a
  BY DivType
<1> HIDE DEF d
<1>2. b * d <= c
  BY <1>1
<1>3. d <= c \div b
  BY <1>1, <1>2, DivIsMost
<1>4. QED
  BY <1>3 DEF d

(* n equal parts of a rate, each rounded twice, are no more than the whole *)
(* rounded once.                                                           *)
LEMMA PartsFit ==
  ASSUME NEW r \in Nat, NEW n \in Nat \ {0}, NEW b \in Nat \ {0}
  PROVE  ((r \div n) \div b) * n <= r \div b
<1> DEFINE p == r \div n
           q == p \div b
<1>1. p \in Nat /\ n * p <= r
  BY DivType
<1> HIDE DEF p
<1>2. q \in Nat /\ b * q <= p
  BY <1>1, DivType
<1> HIDE DEF q
<1>3. n * (b * q) <= r
  <2>1. PICK e \in Nat : p = b * q + e
    <3>1. b * q \in Nat
      BY <1>2
    <3>2. p - b * q \in Nat /\ p = b * q + (p - b * q)
      BY <1>1, <1>2, <3>1
    <3>3. QED
      BY <3>2
  <2> DEFINE m == b * q
  <2>2. m \in Nat /\ p = m + e
    BY <1>2, <2>1
  <2> HIDE DEF m
  <2>3. n * p = n * m + n * e /\ n * e \in Nat /\ n * m \in Nat
    BY <2>1, <2>2
  <2>4. n * m <= r
    BY <1>1, <2>3
  <2>5. QED
    BY <2>4 DEF m
<1>4. q * n \in Nat /\ b * (q * n) = n * (b * q)
  BY <1>2
<1>5. q * n <= r \div b
  BY <1>3, <1>4, DivIsMost
<1>6. QED
  BY <1>5 DEF q, p

(* The greatest of finitely many numbers is one of them.                   *)
LEMMA MaxIsGreatest ==
  ASSUME NEW S, IsFiniteSet(S), S \subseteq Nat, S # {}
  PROVE  Max(S) \in S /\ \A y \in S : Max(S) >= y
<1> DEFINE T == {s \in SUBSET S : s # {} => \E x \in s : \A y \in s : x >= y}
<1>1. {} \in T
  OBVIOUS
<1>2. ASSUME NEW s \in SUBSET S, s # {}, s \ {Any(s)} \in T
      PROVE  s \in T
  <2> DEFINE a == Any(s)
             r == s \ {a}
  <2>1. a \in s /\ r \in SUBSET S /\ s = r \cup {a}
    BY <1>2 DEF Any
  <2>2. r # {} => \E x \in r : \A y \in r : x >= y
    BY <1>2
  <2> HIDE DEF a, r
  <2>3. CASE r = {}
    BY <2>1, <2>3
  <2>4. CASE r # {}
    <3>1. PICK x \in r : \A y \in r : x >= y
      BY <2>2, <2>4
    <3>2. x \in Nat /\ a \in Nat /\ r \subseteq Nat
      BY <2>1
    <3>3. CASE x >= a
      BY <2>1, <3>1, <3>2, <3>3
    <3>4. CASE a >= x
      BY <2>1, <3>1, <3>2, <3>4
    <3>5. QED
      BY <3>2, <3>3, <3>4
  <2>5. QED
    BY <2>3, <2>4
<1>3. \A s \in SUBSET S : s \in T
  <2> HIDE DEF T
  <2> QED
    BY <1>1, <1>2, SetInduction
<1>4. QED
  BY <1>3 DEF Max

(* The lesser of two numbers, with which the history stops counting.       *)
LEMMA LesserOfTwo ==
  ASSUME NEW a \in Nat, NEW b \in Nat
  PROVE  Min({a, b}) \in Nat /\ Min({a, b}) <= a
<1>1. \E x \in {a, b} : \A y \in {a, b} : x <= y
  OBVIOUS
<1>2. QED
  BY <1>1 DEF Min

-----------------------------------------------------------------------------
(* The inductive invariant.  Of the pool: where setSharedRates has been,   *)
(* every user has the share that the rate and the number of users make.    *)
Shared ==
  /\ maxRate \in Rates
  /\ givenOut \subseteq Users /\ IsFiniteSet(givenOut) /\ locked \subseteq givenOut
  /\ \A u \in givenOut \ locked : maxPerBatch[u] = Share(maxRate, givenOut)

TypeOK ==
  /\ maxPerBatch \in [Users -> 0..Highest]
  /\ batchDone \in [Users -> Nat]
  /\ sinceBatch \in [Users -> 0..Resolution]
  /\ op \in [Users -> [pc : {"idle", "can", "do", "limit"}, left : Nat, can : Nat]]
  /\ recent \in [Users -> [1..Resolution -> Nat]]

(* Of a user: what it counts, with what it was allowed, fits the highest   *)
(* share.                                                                  *)
Counts(u) ==
  /\ batchDone[u] <= Highest
  /\ op[u].pc = "do" => batchDone[u] + op[u].can <= Highest

(* What a user passed in the last ticks belongs to the period it counts,   *)
(* in which the counter sees it until Limit, or to the one before, which   *)
(* gives way as the present one grows.                                     *)
Rows == [1..Resolution -> Nat]
Total(row) == Sum(row, 1..Resolution)
InPeriods(u, now, before) ==
  /\ \A k \in 1..Resolution : recent[u][k] <= now[k] + before[k]
  /\ Total(now) <= IF op[u].pc = "limit" THEN Highest ELSE batchDone[u]
  /\ Total(before) <= Highest
  /\ \A k \in 1..sinceBatch[u] : before[k] = 0

Periods(u) == \E now, before \in Rows : InPeriods(u, now, before)

Kept == \A u \in Users \ Failing : Counts(u) /\ Periods(u)
IInv == Shared /\ TypeOK /\ Kept

-----------------------------------------------------------------------------
(* The highest share is that of one user at the highest rate.              *)
LEMMA HighestOfAll ==
  ASSUME ThrottleAssumption
  PROVE  Highest \in Nat /\ \A rate \in Rates : rate \div Batches <= Highest
<1>1. Max(Rates) \in Rates /\ \A rate \in Rates : rate <= Max(Rates)
  <2>1. Max(Rates) \in Rates /\ \A rate \in Rates : Max(Rates) >= rate
    BY MaxIsGreatest DEF ThrottleAssumption
  <2>2. QED
    BY <2>1 DEF ThrottleAssumption
<1>2. QED
  BY <1>1, DivType, DivMonotonic DEF ThrottleAssumption, Highest

(* As many shares as there are users fit the rate.                         *)
LEMMA SharesAreParts ==
  ASSUME ThrottleAssumption, NEW rate \in Rates, NEW S, IsFiniteSet(S), S # {}
  PROVE  /\ Share(rate, S) \in 0..Highest
         /\ Share(rate, S) * Cardinality(S) <= rate \div Batches
<1> DEFINE n == Cardinality(S)
           q == Share(rate, S)
<1>1. n \in Nat \ {0} /\ rate \in Nat /\ Batches \in Nat \ {0}
  BY FS_CardinalityType, FS_EmptySet DEF ThrottleAssumption
<1>2. q \in Nat /\ rate \div Batches \in Nat
  BY <1>1, DivType DEF Share
<1>3. q * n <= rate \div Batches
  BY <1>1, PartsFit DEF Share
<1>4. q <= q * n
  <2> HIDE DEF q, n
  <2>1. PICK e \in Nat : n = 1 + e
    <3>1. n - 1 \in Nat /\ n = 1 + (n - 1)
      BY <1>1
    <3>2. QED
      BY <3>1
  <2>2. q * n = q + q * e /\ q * e \in Nat
    BY <1>2, <2>1
  <2>3. QED
    BY <1>2, <2>2
<1>5. rate \div Batches <= Highest /\ Highest \in Nat
  BY HighestOfAll
<1>6. q * n \in Nat
  BY <1>1, <1>2
<1>7. QED
  <2> HIDE DEF q, n
  <2>1. q \in 0..Highest /\ q * n <= rate \div Batches
    BY <1>2, <1>3, <1>4, <1>5, <1>6
  <2>2. QED
    BY <2>1 DEF q, n

(* When setSharedRates has been everywhere the shares fit the rate.        *)
LEMMA SharedFits == ThrottleAssumption /\ Shared => SharesFit
<1> SUFFICES ASSUME ThrottleAssumption, Shared, Unlocked
             PROVE  MapThenSumSet(LAMBDA u : maxPerBatch[u], givenOut) <= maxRate \div Batches
  BY DEF SharesFit
<1>1. maxRate \in Rates /\ maxRate \in Nat /\ IsFiniteSet(givenOut)
      /\ \A u \in givenOut : maxPerBatch[u] = Share(maxRate, givenOut)
  BY DEF Shared, Unlocked, ThrottleAssumption
<1>2. Sum(maxPerBatch, givenOut) <= maxRate \div Batches
  <2>1. CASE givenOut = {}
    <3>1. Sum(maxPerBatch, givenOut) = 0
      BY <1>1, <2>1, SumUnfolds
    <3>2. maxRate \div Batches \in Nat
      BY <1>1, DivType DEF ThrottleAssumption
    <3>3. QED
      BY <3>1, <3>2
  <2>2. CASE givenOut # {}
    <3>1. Share(maxRate, givenOut) \in Nat
      BY <1>1, <2>2, SharesAreParts, HighestOfAll
    <3>2. Sum(maxPerBatch, givenOut) = Share(maxRate, givenOut) * Cardinality(givenOut)
      BY <1>1, <3>1, SumOfEqual
    <3>3. QED
      BY <1>1, <2>2, <3>2, SharesAreParts
  <2>3. QED
    BY <2>1, <2>2
<1>3. QED
  BY <1>2 DEF Sum

(* What fits two periods is no more than twice the highest share.          *)
LEMMA PeriodsFit ==
  ASSUME ThrottleAssumption, TypeOK, NEW u \in Users, Counts(u), Periods(u)
  PROVE  Passed(u) <= 2 * Highest
<1>1. PICK now \in Rows, before \in Rows : InPeriods(u, now, before)
  BY DEF Periods
<1>2. IsFiniteSet(1..Resolution) /\ Resolution \in Nat
  BY FS_Interval DEF ThrottleAssumption
<1>3. \A k \in 1..Resolution : /\ recent[u][k] \in Nat /\ now[k] \in Nat /\ before[k] \in Nat
                               /\ recent[u][k] <= now[k] + before[k]
  BY <1>1 DEF TypeOK, Rows, InPeriods
<1>4. Sum(recent[u], 1..Resolution) <= Total(now) + Total(before)
  BY <1>2, <1>3, SumOfParts DEF Total
<1>5. Total(now) \in Nat /\ Total(before) \in Nat /\ Sum(recent[u], 1..Resolution) \in Nat
  BY <1>2, <1>3, SumNat DEF Total
<1>6. Total(now) <= Highest /\ Total(before) <= Highest
  <2>1. batchDone[u] \in Nat /\ batchDone[u] <= Highest /\ Highest \in Nat
    BY HighestOfAll DEF TypeOK, Counts
  <2>2. QED
    BY <1>1, <1>5, <2>1 DEF InPeriods
<1>7. Highest \in Nat
  BY HighestOfAll
<1>8. Sum(recent[u], 1..Resolution) <= 2 * Highest
  BY <1>4, <1>5, <1>6, <1>7
<1>9. QED
  BY <1>8 DEF Passed, Sum

(* So the invariant is enough.                                             *)
LEMMA InvariantKeepsRate == ThrottleAssumption /\ IInv => RateKept
  BY SharedFits, PeriodsFit DEF IInv, Kept, RateKept, TwoBatches

-----------------------------------------------------------------------------
(* No bytes for as long as the rows reach.                                 *)
LEMMA NothingPassed ==
  ASSUME ThrottleAssumption
  PROVE  \E zero \in Rows : Total(zero) = 0 /\ \A k \in 1..Resolution : zero[k] = 0
<1> DEFINE zero == [k \in 1..Resolution |-> 0]
<1>1. zero \in Rows /\ IsFiniteSet(1..Resolution) /\ \A k \in 1..Resolution : zero[k] = 0
  BY FS_Interval DEF Rows, ThrottleAssumption
<1> HIDE DEF zero
<1>2. Total(zero) = 0 * Cardinality(1..Resolution)
  BY <1>1, SumOfEqual DEF Total
<1>3. QED
  BY <1>1, <1>2, FS_CardinalityType

(* With nothing given out and nothing passed the invariant holds.          *)
LEMMA InitInvariant == ThrottleAssumption /\ Init => IInv
<1> SUFFICES ASSUME ThrottleAssumption, Init PROVE IInv
  OBVIOUS
<1>1. Highest \in Nat /\ Resolution \in Nat \ {0} /\ IsFiniteSet({})
  BY HighestOfAll, FS_EmptySet DEF ThrottleAssumption
<1>2. Shared
  BY <1>1 DEF Init, Shared
<1>3. TypeOK
  BY <1>1 DEF Init, TypeOK, NoOp, Long
<1>4. ASSUME NEW u \in Users PROVE Counts(u) /\ Periods(u)
  <2>1. Counts(u)
    BY <1>1, <1>3 DEF Init, Counts, NoOp
  <2>2. PICK zero \in Rows : Total(zero) = 0 /\ \A k \in 1..Resolution : zero[k] = 0
    BY NothingPassed
  <2>3. /\ recent[u] = [k \in 1..Resolution |-> 0] /\ sinceBatch[u] = Resolution
        /\ batchDone[u] = 0 /\ op[u].pc = "idle"
    BY DEF Init, NoOp, Long
  <2>4. InPeriods(u, zero, zero)
    BY <1>1, <2>2, <2>3 DEF InPeriods
  <2>5. QED
    BY <2>1, <2>2, <2>4 DEF Periods
<1>5. QED
  BY <1>2, <1>3, <1>4 DEF IInv, Kept

(* Every step keeps what is said of the pool.                              *)
LEMMA SharedStep ==
  ThrottleAssumption /\ TypeOK /\ Shared /\ [Next]_vars => Shared'
<1> SUFFICES ASSUME ThrottleAssumption, TypeOK, Shared, [Next]_vars PROVE Shared'
  OBVIOUS
<1> USE DEF Shared
<1>1. CASE \E rate \in Rates : SetRate(rate)
  BY <1>1 DEF SetRate
<1>2. ASSUME NEW u \in Users, Get(u) PROVE Shared'
  <2>1. IsFiniteSet(givenOut')
    BY <1>2, FS_AddElement DEF Get
  <2>2. QED
    BY <1>2, <2>1 DEF Get
<1>3. ASSUME NEW u \in Users, Release(u) PROVE Shared'
  <2>1. IsFiniteSet(givenOut')
    BY <1>3, FS_RemoveElement DEF Release
  <2>2. QED
    BY <1>3, <2>1 DEF Release
<1>4. ASSUME NEW u \in Users, setSharedRates(u) PROVE Shared'
  BY <1>4 DEF setSharedRates, TypeOK
<1>5. CASE UNCHANGED <<maxRate, givenOut, locked, maxPerBatch>>
  BY <1>5 DEF Share
<1>6. QED
  <2>1. CASE Tick
    BY <1>5, <2>1 DEF Tick
  <2>2. ASSUME NEW u \in Users, Throttled(u) PROVE Shared'
    BY <1>5, <2>2 DEF Throttled, CanDo, Unthrottled, Write, WriteFails, Read, Limit
  <2>3. ASSUME NEW u \in Users, NEW n \in Lens, Call(u, n) PROVE Shared'
    BY <1>5, <2>3 DEF Call
  <2>4. CASE UNCHANGED vars
    BY <1>5, <2>4 DEF vars
  <2>5. QED
    BY <1>1, <1>2, <1>3, <1>4, <2>1, <2>2, <2>3, <2>4 DEF Next

(* Every step keeps the types.                                             *)
LEMMA TypeStep ==
  ThrottleAssumption /\ TypeOK /\ Shared /\ [Next]_vars => TypeOK'
<1> SUFFICES ASSUME ThrottleAssumption, TypeOK, Shared, [Next]_vars PROVE TypeOK'
  OBVIOUS
<1>1. Highest \in Nat /\ Resolution \in Nat \ {0} /\ Lens \subseteq Nat /\ Counted \in Nat
      /\ (Highest \in Nat)'
  BY HighestOfAll DEF ThrottleAssumption, Counted, Highest
<1> USE DEF TypeOK
<1>2. ASSUME NEW u \in Users, NEW n \in Nat, Pass(u, n)
      PROVE  recent' \in [Users -> [1..Resolution -> Nat]]
  <2>1. recent[u][1] + n \in Nat
    BY <1>1
  <2>2. Min({recent[u][1] + n, Counted}) \in Nat
    BY <1>1, <2>1, LesserOfTwo
  <2>3. QED
    BY <1>2, <2>2 DEF Pass
<1>3. CASE \E rate \in Rates : SetRate(rate)
  BY <1>3 DEF SetRate
<1>4. ASSUME NEW u \in Users PROVE Get(u) => TypeOK'
  BY <1>1 DEF Get, Long
<1>5. ASSUME NEW u \in Users PROVE Release(u) => TypeOK'
  BY DEF Release
<1>6. ASSUME NEW u \in Users, setSharedRates(u) PROVE TypeOK'
  <2>1. Share(maxRate, givenOut) \in 0..Highest
    <3>1. maxRate \in Rates /\ IsFiniteSet(givenOut) /\ givenOut # {}
      BY <1>6 DEF Shared, setSharedRates
    <3>2. QED
      BY <3>1, SharesAreParts
  <2>2. QED
    BY <1>6, <2>1 DEF setSharedRates
<1>7. ASSUME NEW u \in Users, NEW n \in Lens, Call(u, n) PROVE TypeOK'
  BY <1>1, <1>7 DEF Call
<1>8. ASSUME NEW u \in Users, CanDo(u) PROVE TypeOK'
  <2>1. maxPerBatch[u] \in Nat /\ batchDone[u] \in Nat
    BY <1>1
  <2>2. (IF maxPerBatch[u] > batchDone[u] THEN maxPerBatch[u] - batchDone[u] ELSE 0) \in Nat
    BY <2>1
  <2>3. QED
    BY <1>8, <2>2 DEF CanDo
<1>9. ASSUME NEW u \in Users, Unthrottled(u) PROVE TypeOK'
  <2>1. PICK n \in 0..op[u].left : Pass(u, n) /\ Did(u, n) /\ Returns(u)
    BY <1>9 DEF Unthrottled
  <2>2. n \in Nat
    OBVIOUS
  <2>3. recent' \in [Users -> [1..Resolution -> Nat]]
    BY <1>2, <2>1, <2>2
  <2>4. batchDone' \in [Users -> Nat] /\ op' \in [Users -> [pc : {"idle", "can", "do", "limit"}, left : Nat, can : Nat]]
    BY <2>1, <2>2 DEF Did, Returns, NoOp
  <2>5. QED
    BY <1>9, <2>3, <2>4 DEF Unthrottled
<1>10. ASSUME NEW u \in Users, Write(u) PROVE TypeOK'
  <2>1. op[u].can \in Nat /\ op[u].left \in Nat /\ op[u].left - op[u].can \in Nat
    BY <1>10 DEF Write
  <2>2. recent' \in [Users -> [1..Resolution -> Nat]]
    BY <1>2, <1>10, <2>1 DEF Write
  <2>3. op' \in [Users -> [pc : {"idle", "can", "do", "limit"}, left : Nat, can : Nat]]
    BY <1>10, <2>1 DEF Write
  <2>4. QED
    BY <1>10, <2>2, <2>3 DEF Write
<1>11. ASSUME NEW u \in Users, WriteFails(u) PROVE TypeOK'
  <2>1. PICK n \in 0..op[u].can : Pass(u, n)
    BY <1>11 DEF WriteFails
  <2>2. recent' \in [Users -> [1..Resolution -> Nat]]
    BY <1>2, <2>1
  <2>3. QED
    BY <1>11, <2>2 DEF WriteFails, Returns, NoOp
<1>12. ASSUME NEW u \in Users, Read(u) PROVE TypeOK'
  <2>1. PICK n \in 0..op[u].can : Pass(u, n)
    BY <1>12 DEF Read
  <2>2. recent' \in [Users -> [1..Resolution -> Nat]]
    BY <1>2, <2>1
  <2>3. QED
    BY <1>12, <2>2 DEF Read
<1>13. ASSUME NEW u \in Users, Limit(u) PROVE TypeOK'
  <2> DEFINE Calls == [pc : {"idle", "can", "do", "limit"}, left : Nat, can : Nat]
  <2>1. op[u] \in Calls
    OBVIOUS
  <2>2. [op[u] EXCEPT !.pc = "can"] \in Calls /\ NoOp \in Calls
    BY <2>1 DEF NoOp
  <2>3. (IF u \in Writers THEN [op[u] EXCEPT !.pc = "can"] ELSE NoOp) \in Calls
    BY <2>2, Zenon
  <2>4. op' \in [Users -> Calls]
    <3> HIDE DEF Calls
    <3>1. op' = [op EXCEPT ![u] = IF u \in Writers THEN [op[u] EXCEPT !.pc = "can"] ELSE NoOp]
      BY <1>13, Zenon DEF Limit
    <3>2. op \in [Users -> Calls]
      BY Zenon DEF Calls
    <3>3. QED
      BY <2>3, <3>1, <3>2, Zenon
  <2>5. sinceBatch' \in [Users -> 0..Resolution] /\ batchDone' \in [Users -> Nat]
    BY <1>1, <1>13 DEF Limit
  <2>6. QED
    BY <1>13, <2>4, <2>5 DEF Limit
<1>14. CASE Tick
  <2>1. sinceBatch' \in [Users -> 0..Resolution]
    BY <1>1, <1>14 DEF Tick, Long
  <2>2. recent' \in [Users -> [1..Resolution -> Nat]]
    BY <1>1, <1>14 DEF Tick
  <2>3. QED
    BY <1>14, <2>1, <2>2 DEF Tick
<1>15. CASE UNCHANGED vars
  BY <1>15 DEF vars
<1>16. QED
  BY <1>3, <1>4, <1>5, <1>6, <1>7, <1>8, <1>9, <1>10, <1>11, <1>12, <1>13, <1>14, <1>15 DEF Next, Throttled

-----------------------------------------------------------------------------
(* A user's part of the invariant.                                         *)
Mine(u) == <<op[u], batchDone[u], sinceBatch[u], recent[u]>>
Fits(u) == Counts(u) /\ Periods(u)

(* A user whose fields stay as they are still fits.                        *)
LEMMA UserStays ==
  ASSUME NEW u \in Users, Fits(u), Mine(u)' = Mine(u)
  PROVE  Fits(u)'
<1>1. op'[u] = op[u] /\ batchDone'[u] = batchDone[u] /\ sinceBatch'[u] = sinceBatch[u] /\ recent'[u] = recent[u]
  BY DEF Mine
<1>2. Counts(u)'
  BY <1>1 DEF Fits, Counts, Highest
<1>3. \A now, before \in Rows : InPeriods(u, now, before) => InPeriods(u, now, before)'
  BY <1>1 DEF InPeriods, Highest, Total, Rows
<1>4. PICK now \in Rows, before \in Rows : InPeriods(u, now, before)
  BY DEF Fits, Periods
<1>5. InPeriods(u, now, before)'
  BY <1>3, <1>4
<1>6. QED
  BY <1>2, <1>5 DEF Fits, Periods, Rows

(* What a user passes on is counted in the present period.                 *)
LEMMA Passing ==
  ASSUME ThrottleAssumption, TypeOK, NEW u \in Users, NEW n \in Nat, Pass(u, n),
         NEW now \in Rows, NEW before \in Rows, InPeriods(u, now, before)
  PROVE  \E more \in Rows : /\ Total(more) = Total(now) + n
                            /\ \A k \in 1..Resolution : recent'[u][k] <= more[k] + before[k]
<1> DEFINE more == [now EXCEPT ![1] = @ + n]
<1>1. /\ Resolution \in Nat \ {0} /\ IsFiniteSet(1..Resolution) /\ 1 \in 1..Resolution
      /\ Counted \in Nat
  <2>1. Resolution \in Nat \ {0} /\ Highest \in Nat
    BY HighestOfAll DEF ThrottleAssumption
  <2>2. IsFiniteSet(1..Resolution)
    BY <2>1, FS_Interval
  <2>3. QED
    BY <2>1, <2>2 DEF Counted
<1>2. \A k \in 1..Resolution : now[k] \in Nat /\ before[k] \in Nat /\ recent[u][k] \in Nat
  BY DEF Rows, TypeOK
<1>3. more \in Rows /\ more[1] = now[1] + n /\ \A k \in (1..Resolution) \ {1} : more[k] = now[k]
  BY <1>1 DEF Rows
<1>4. \A k \in 1..Resolution : more[k] \in Nat
  BY <1>3 DEF Rows
<1> HIDE DEF more
<1>5. Total(more) = Total(now) + n
  <2>1. Sum(more, 1..Resolution) + now[1] = Sum(now, 1..Resolution) + more[1]
    <3> DEFINE S == 1..Resolution
    <3>1. IsFiniteSet(S) /\ 1 \in S /\ \A k \in S : more[k] \in Nat /\ now[k] \in Nat
      BY <1>1, <1>2, <1>4
    <3>2. \A k \in S \ {1} : more[k] = now[k]
      BY <1>3
    <3> HIDE DEF S
    <3>3. Sum(more, S) + now[1] = Sum(now, S) + more[1]
      BY <3>1, <3>2, SumChanges
    <3>4. QED
      BY <3>3 DEF S
  <2>2. Sum(more, 1..Resolution) \in Nat /\ Sum(now, 1..Resolution) \in Nat
    BY <1>1, <1>2, <1>4, SumNat
  <2>3. now[1] \in Nat /\ more[1] = now[1] + n
    BY <1>1, <1>2, <1>3
  <2>4. Sum(more, 1..Resolution) = Sum(now, 1..Resolution) + n
    BY <2>1, <2>2, <2>3
  <2>5. QED
    BY <2>4 DEF Total
<1>6. ASSUME NEW k \in 1..Resolution PROVE recent'[u][k] <= more[k] + before[k]
  <2>1. recent[u][k] <= now[k] + before[k]
    BY DEF InPeriods
  <2>2. CASE k = 1
    <3> DEFINE sum == recent[u][1] + n
    <3>1. sum \in Nat
      BY <1>1, <1>2
    <3>2. recent'[u][1] = Min({sum, Counted})
      BY <1>1 DEF Pass, TypeOK
    <3>3. recent'[u][1] \in Nat /\ recent'[u][1] <= sum
      <4> HIDE DEF sum
      <4> QED
        BY <1>1, <3>1, <3>2, LesserOfTwo
    <3>4. QED
      BY <1>1, <1>2, <1>3, <2>1, <2>2, <3>3
  <2>3. CASE k # 1
    <3>1. recent'[u][k] = recent[u][k]
      BY <1>1, <2>3 DEF Pass, TypeOK
    <3>2. QED
      BY <1>3, <2>1, <2>3, <3>1
  <2>4. QED
    BY <2>2, <2>3
<1>7. QED
  BY <1>3, <1>5, <1>6

(* Every step keeps what is said of a user.  When a period ends its row    *)
(* becomes the one before, which by then is empty; a tick moves both.      *)
LEMMA UserStep ==
  ASSUME ThrottleAssumption, TypeOK, Shared, NEW u \in Users \ Failing, Fits(u), [Next]_vars
  PROVE  Fits(u)'
<1>1. /\ Highest \in Nat /\ Highest' = Highest /\ Resolution \in Nat \ {0} /\ u \in Users
      /\ batchDone[u] \in Nat /\ sinceBatch[u] \in 0..Resolution
      /\ op[u].pc \in {"idle", "can", "do", "limit"} /\ op[u].can \in Nat /\ op[u].left \in Nat
  BY HighestOfAll DEF ThrottleAssumption, TypeOK, Highest
<1>2. PICK now \in Rows, before \in Rows : InPeriods(u, now, before)
  BY DEF Fits, Periods
<1>3. /\ \A k \in 1..Resolution : /\ now[k] \in Nat /\ before[k] \in Nat /\ recent[u][k] \in Nat
                                  /\ recent[u][k] <= now[k] + before[k]
      /\ Total(now) \in Nat /\ Total(before) \in Nat /\ Total(before) <= Highest
      /\ batchDone[u] <= Highest
      /\ Total(now) <= Highest
  <2>1. \A k \in 1..Resolution : /\ now[k] \in Nat /\ before[k] \in Nat /\ recent[u][k] \in Nat
                                 /\ recent[u][k] <= now[k] + before[k]
    BY <1>2 DEF Rows, TypeOK, InPeriods
  <2>2. IsFiniteSet(1..Resolution)
    BY <1>1, FS_Interval
  <2>3. Total(now) \in Nat /\ Total(before) \in Nat
    BY <2>1, <2>2, SumNat DEF Total
  <2>4. /\ Total(before) <= Highest /\ batchDone[u] <= Highest
        /\ Total(now) <= IF op[u].pc = "limit" THEN Highest ELSE batchDone[u]
    BY <1>2 DEF Fits, Counts, InPeriods
  <2>5. Total(now) <= Highest
    BY <1>1, <2>3, <2>4
  <2>6. QED
    BY <2>1, <2>3, <2>4, <2>5
(* To keep the rows is enough where no bytes pass and no time does.        *)
<1>4. ASSUME Counts(u)', recent'[u] = recent[u], sinceBatch'[u] = sinceBatch[u],
             op'[u].pc # "limit", op[u].pc # "limit", batchDone'[u] = batchDone[u]
      PROVE  Fits(u)'
  <2>1. InPeriods(u, now, before)'
    BY <1>2, <1>4 DEF InPeriods, Highest, Total
  <2>2. QED
    BY <1>4, <2>1 DEF Fits, Periods, Rows
(* A row of what was passed takes the place of the present one.            *)
<1>5. ASSUME NEW n \in Nat, Pass(u, n), sinceBatch' = sinceBatch, Counts(u)',
             Total(now) + n <= IF op'[u].pc = "limit" THEN Highest ELSE batchDone'[u]
      PROVE  Fits(u)'
  <2>1. PICK more \in Rows : /\ Total(more) = Total(now) + n
                             /\ \A k \in 1..Resolution : recent'[u][k] <= more[k] + before[k]
    BY <1>2, <1>5, Passing
  <2>2. InPeriods(u, more, before)'
    BY <1>2, <1>5, <2>1 DEF InPeriods, Highest, Total
  <2>3. QED
    BY <1>5, <2>1, <2>2 DEF Fits, Periods, Rows
<1>6. CASE Mine(u)' = Mine(u)
  BY <1>1, <1>6, UserStays
(* What others do leaves a user as it is. *)
<1>7. ASSUME NEW w \in Users \ {u} PROVE
        /\ Get(w) \/ Throttled(w) => Mine(u)' = Mine(u)
        /\ \A n \in Lens : Call(w, n) => Mine(u)' = Mine(u)
  <2>1. Get(w) => Mine(u)' = Mine(u)
    BY DEF Get, Mine, TypeOK
  <2>2. \A n \in Lens : Call(w, n) => Mine(u)' = Mine(u)
    BY DEF Call, Mine, TypeOK
  <2>3. CanDo(w) \/ Limit(w) => Mine(u)' = Mine(u)
    BY DEF CanDo, Limit, Mine, TypeOK
  <2>4. Unthrottled(w) => Mine(u)' = Mine(u)
    BY DEF Unthrottled, Pass, Did, Returns, Mine, TypeOK
  <2>5. Write(w) \/ WriteFails(w) \/ Read(w) => Mine(u)' = Mine(u)
    BY DEF Write, WriteFails, Read, Pass, Returns, Mine, TypeOK
  <2>6. QED
    BY <2>1, <2>2, <2>3, <2>4, <2>5 DEF Throttled
<1>8. CASE Get(u)
  <2>1. PICK zero \in Rows : Total(zero) = 0 /\ \A k \in 1..Resolution : zero[k] = 0
    BY NothingPassed
  <2>2. /\ recent'[u] = [k \in 1..Resolution |-> 0] /\ sinceBatch'[u] = Resolution
        /\ batchDone'[u] = 0 /\ op'[u].pc = "idle"
    BY <1>1, <1>8 DEF Get, TypeOK, Long
  <2>3. Counts(u)'
    BY <1>1, <2>2 DEF Counts
  <2>4. InPeriods(u, zero, zero)'
    BY <1>1, <2>1, <2>2 DEF InPeriods, Total
  <2>5. QED
    BY <2>1, <2>3, <2>4 DEF Fits, Periods, Rows
<1>9. ASSUME NEW n \in Lens, Call(u, n) PROVE Fits(u)'
  <2>1. /\ op'[u].pc = "can" /\ op[u].pc = "idle"
        /\ UNCHANGED <<batchDone, sinceBatch, recent>>
    BY <1>1, <1>9 DEF Call, TypeOK
  <2>2. Counts(u)'
    BY <1>1, <1>3, <2>1 DEF Counts
  <2>3. QED
    BY <1>4, <2>1, <2>2
<1>10. CASE CanDo(u)
  <2>1. /\ op'[u].pc = "do" /\ op[u].pc = "can"
        /\ op'[u].can = IF maxPerBatch[u] > batchDone[u] THEN maxPerBatch[u] - batchDone[u] ELSE 0
        /\ UNCHANGED <<batchDone, sinceBatch, recent>>
    BY <1>1, <1>10 DEF CanDo, TypeOK
  <2>2. maxPerBatch[u] \in 0..Highest
    BY <1>1 DEF TypeOK
  <2>3. batchDone[u] + op'[u].can <= Highest
    BY <1>1, <1>3, <2>1, <2>2
  <2>4. Counts(u)'
    BY <1>1, <1>3, <2>1, <2>3 DEF Counts
  <2>5. QED
    BY <1>4, <2>1, <2>4
<1>11. CASE Unthrottled(u)
  <2>1. PICK n \in 0..op[u].left : Pass(u, n) /\ Did(u, n) /\ Returns(u)
    BY <1>11 DEF Unthrottled
  <2>2. /\ n \in Nat /\ n <= op[u].can /\ op[u].pc = "do" /\ op'[u].pc = "idle"
        /\ batchDone'[u] = batchDone[u] + n /\ sinceBatch' = sinceBatch
    BY <1>1, <1>11, <2>1 DEF Unthrottled, Did, Returns, NoOp, TypeOK
  <2>3. batchDone[u] + op[u].can <= Highest /\ Total(now) <= batchDone[u]
    BY <1>2, <2>2 DEF Fits, Counts, InPeriods
  <2>4. Counts(u)'
    BY <1>1, <2>2, <2>3 DEF Counts
  <2>5. Total(now) + n <= batchDone'[u]
    BY <1>1, <1>3, <2>2, <2>3
  <2>6. QED
    BY <1>5, <2>1, <2>2, <2>4, <2>5
<1>12. CASE Write(u) \/ Read(u)
  <2>1. PICK n \in 0..op[u].can : Pass(u, n)
    BY <1>1, <1>12 DEF Write, Read
  <2>2. /\ n \in Nat /\ n <= op[u].can /\ op[u].pc = "do" /\ op'[u].pc = "limit"
        /\ batchDone' = batchDone /\ sinceBatch' = sinceBatch
    BY <1>1, <1>12, <2>1 DEF Write, Read, TypeOK
  <2>3. batchDone[u] + op[u].can <= Highest /\ Total(now) <= batchDone[u]
    BY <1>2, <2>2 DEF Fits, Counts, InPeriods
  <2>4. Counts(u)'
    BY <1>1, <1>3, <2>2 DEF Counts
  <2>5. Total(now) + n <= Highest
    BY <1>1, <1>3, <2>2, <2>3
  <2>6. QED
    BY <1>5, <2>1, <2>2, <2>4, <2>5
<1>13. CASE Limit(u)
  <2>1. PICK zero \in Rows : Total(zero) = 0 /\ \A k \in 1..Resolution : zero[k] = 0
    BY NothingPassed
  <2>2. /\ sinceBatch[u] = Resolution /\ sinceBatch'[u] = 0 /\ batchDone'[u] = 0
        /\ recent' = recent
    BY <1>1, <1>13 DEF Limit, TypeOK
  <2>3. op'[u].pc \in {"can", "idle"}
    <3>1. op'[u] = IF u \in Writers THEN [op[u] EXCEPT !.pc = "can"] ELSE NoOp
      BY <1>1, <1>13 DEF Limit, TypeOK
    <3>2. [op[u] EXCEPT !.pc = "can"].pc = "can"
      BY <1>1 DEF TypeOK
    <3>3. NoOp.pc = "idle"
      BY DEF NoOp
    <3>4. QED
      BY <3>1, <3>2, <3>3, Zenon
  <2>4. Counts(u)'
    BY <1>1, <2>2, <2>3 DEF Counts
  <2>5. \A k \in 1..Resolution : before[k] = 0
    BY <1>2, <2>2 DEF InPeriods
  <2>6. InPeriods(u, zero, now)'
    <3>1. \A k \in 1..Resolution : recent'[u][k] <= zero[k] + now[k]
      BY <1>3, <2>1, <2>2, <2>5
    <3>2. Total(zero) <= batchDone'[u] /\ Total(now) <= Highest
      BY <1>3, <2>1, <2>2
    <3>3. \A k \in 1..(sinceBatch'[u]) : now[k] = 0
      BY <2>2
    <3>4. QED
      BY <1>1, <2>3, <3>1, <3>2, <3>3 DEF InPeriods, Total
  <2>7. QED
    BY <2>1, <2>4, <2>6 DEF Fits, Periods, Rows
<1>14. CASE Tick
  <2> DEFINE Shift(row) == [k \in 1..Resolution |-> IF k = 1 THEN 0 ELSE row[k - 1]]
  <2>1. ASSUME NEW row \in Rows
        PROVE  Shift(row) \in Rows /\ Total(Shift(row)) \in Nat /\ Total(Shift(row)) <= Total(row)
    <3>1. Shift(row) \in Rows
      BY <1>1 DEF Rows
    <3>2. \A k \in 1..Resolution : row[k] \in Nat /\ Shift(row)[k] \in Nat
      BY <3>1 DEF Rows
    <3>3. \A k \in 1..Resolution : Shift(row)[k] = IF k = 1 THEN 0 ELSE row[k - 1]
      OBVIOUS
    <3> HIDE DEF Shift
    <3>4. Total(Shift(row)) <= Total(row)
      BY <1>1, <3>2, <3>3, SumShifted DEF Total
    <3>5. IsFiniteSet(1..Resolution)
      BY <1>1, FS_Interval
    <3>6. Total(Shift(row)) \in Nat
      BY <3>2, <3>5, SumNat DEF Total
    <3>7. QED
      BY <3>1, <3>4, <3>6
  <2>2. /\ recent'[u] = [k \in 1..Resolution |-> IF k = 1 THEN 0 ELSE recent[u][k - 1]]
        /\ sinceBatch'[u] = IF sinceBatch[u] < Resolution THEN sinceBatch[u] + 1 ELSE Resolution
        /\ batchDone' = batchDone /\ op' = op
    BY <1>1, <1>14 DEF Tick, Long
  <2>3. Counts(u)'
    BY <2>2 DEF Fits, Counts, Highest
  <2>4. ASSUME NEW k \in 1..Resolution PROVE recent'[u][k] <= Shift(now)[k] + Shift(before)[k]
    <3>1. CASE k = 1
      BY <1>1, <2>2, <3>1
    <3>2. CASE k # 1
      <4>1. k - 1 \in 1..Resolution
        BY <1>1, <3>2
      <4>2. recent[u][k - 1] <= now[k - 1] + before[k - 1]
        BY <1>3, <4>1
      <4>3. /\ recent'[u][k] = recent[u][k - 1] /\ Shift(now)[k] = now[k - 1]
            /\ Shift(before)[k] = before[k - 1]
        BY <2>2, <3>2
      <4>4. QED
        BY <4>2, <4>3
    <3>3. QED
      BY <3>1, <3>2
  <2>5. \A k \in 1..(sinceBatch'[u]) : Shift(before)[k] = 0
    <3>1. \A k \in 1..sinceBatch[u] : before[k] = 0
      BY <1>2 DEF InPeriods
    <3>2. QED
      BY <1>1, <2>2, <3>1
  <2>6. Total(Shift(now)) <= (IF op[u].pc = "limit" THEN Highest ELSE batchDone[u])
    <3>1. Total(now) <= IF op[u].pc = "limit" THEN Highest ELSE batchDone[u]
      BY <1>2 DEF InPeriods
    <3>2. Total(Shift(now)) \in Nat /\ Total(Shift(now)) <= Total(now)
      BY <2>1
    <3> HIDE DEF Shift
    <3>3. QED
      BY <1>1, <1>3, <3>1, <3>2
  <2>7. Total(Shift(before)) <= Highest
    <3>1. Total(Shift(before)) \in Nat /\ Total(Shift(before)) <= Total(before)
      BY <2>1
    <3> HIDE DEF Shift
    <3>2. QED
      BY <1>1, <1>3, <3>1
  <2>8. Shift(now) \in Rows /\ Shift(before) \in Rows
    BY <2>1
  <2> HIDE DEF Shift
  <2>9. InPeriods(u, Shift(now), Shift(before))'
    BY <1>1, <2>2, <2>4, <2>5, <2>6, <2>7 DEF InPeriods, Total
  <2>10. QED
    BY <2>3, <2>8, <2>9 DEF Fits, Periods, Rows
<1>15. CASE UNCHANGED vars
  BY <1>6, <1>15 DEF vars, Mine
<1>16. ~WriteFails(u)
  BY DEF WriteFails
<1>17. CASE Next
  <2>1. ASSUME NEW w \in Users,
               Get(w) \/ Release(w) \/ setSharedRates(w) \/ Throttled(w) \/ \E n \in Lens : Call(w, n)
        PROVE  Fits(u)'
    <3>1. CASE w = u
      <4>1. Release(u) => Mine(u)' = Mine(u)
        BY DEF Release, Mine
      <4>2. setSharedRates(u) => Mine(u)' = Mine(u)
        BY DEF setSharedRates, Mine
      <4>3. QED
        BY <1>6, <1>8, <1>9, <1>10, <1>11, <1>12, <1>13, <1>16, <2>1, <3>1, <4>1, <4>2 DEF Throttled
    <3>2. CASE w # u
      <4>1. Release(w) \/ setSharedRates(w) => Mine(u)' = Mine(u)
        BY DEF Release, setSharedRates, Mine
      <4>2. QED
        BY <1>6, <1>7, <2>1, <3>2, <4>1
    <3>3. QED
      BY <3>1, <3>2
  <2>2. ASSUME NEW rate \in Rates, SetRate(rate) PROVE Fits(u)'
    BY <1>6, <2>2 DEF SetRate, Mine
  <2>3. QED
    BY <1>14, <1>17, <2>1, <2>2 DEF Next
<1>18. QED
  BY <1>15, <1>17

(* Every step of the pool, of a user and of the clock keeps the invariant. *)
LEMMA StepInvariant == ThrottleAssumption /\ IInv /\ [Next]_vars => IInv'
<1> SUFFICES ASSUME ThrottleAssumption, IInv, [Next]_vars PROVE IInv'
  OBVIOUS
<1>1. Shared /\ TypeOK /\ \A u \in Users \ Failing : Fits(u)
  BY DEF IInv, Kept, Fits
<1>2. Shared' /\ TypeOK'
  BY <1>1, SharedStep, TypeStep
<1>3. \A u \in Users \ Failing : Fits(u)'
  BY <1>1, UserStep
<1>4. QED
  BY <1>2, <1>3 DEF IInv, Kept, Fits

-----------------------------------------------------------------------------
(* The invariant holds in every state, and with it what RateKept says of   *)
(* pool.go and limiter.go: the shares of a pool's writers (or readers) add *)
(* up to no more than its rate whenever its lock is free, and in no period *)
(* does a user whose writer does not fail pass more than two periods'      *)
(* worth of bytes.                                                         *)
THEOREM RateIsKept ==
  ASSUME ThrottleAssumption
  PROVE  Spec => []RateKept
<1>1. Init => IInv
  BY InitInvariant
<1>2. IInv /\ [Next]_vars => IInv'
  BY StepInvariant
<1>3. IInv => RateKept
  BY InvariantKeepsRate
<1>4. QED
  BY <1>1, <1>2, <1>3, PTL DEF Spec
=============================================================================
