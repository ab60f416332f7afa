----------------------------- MODULE DataLemmas -----------------------------
(***************************************************************************)
(* Facts about numbers and finite sets that the proofs of several          *)
(* components cite.  The induction theorems of the library take the        *)
(* property as an operator; here it is a set of numbers.                   *)
(***************************************************************************)
EXTENDS Integers, FiniteSetsExt, FiniteSetTheorems, TLAPS

(* A set of natural numbers that is not empty has a least element: the     *)
(* sets of the members up to one of them are ordered by inclusion.         *)
LEMMA LeastElement ==
    ASSUME NEW S \in SUBSET Nat, S # {}
    PROVE  \E x \in S : \A y \in S : x <= y
<1> DEFINE UpTo(x) == {y \in S : y <= x}
           T == {UpTo(x) : x \in S}
<1>1. T \subseteq FiniteSubsetsOf(S)
  <2> SUFFICES ASSUME NEW x \in S PROVE UpTo(x) \in FiniteSubsetsOf(S)
    OBVIOUS
  <2>1. IsFiniteSet(UpTo(x))
    BY FS_BoundedSetOfNaturals
  <2> QED BY <2>1 DEF FiniteSubsetsOf
<1>2. PICK X \in T : \A Y \in T : <<Y, X>> \notin StrictSubsetOrdering(S)
  <2>1. IsWellFoundedOn(StrictSubsetOrdering(S), FiniteSubsetsOf(S))
    BY FS_StrictSubsetOrderingWellFounded
  <2>2. T # {}
    OBVIOUS
  <2> QED BY <2>1, <2>2, <1>1, WFMin
<1>3. PICK x \in S : X = UpTo(x)
  BY <1>2
<1>4. ASSUME NEW y \in S, y < x PROVE FALSE
  <2>1. UpTo(y) \in T
    OBVIOUS
  <2>2. x \in Nat /\ y \in Nat
    OBVIOUS
  <2>3. UpTo(y) \subseteq UpTo(x)
    <3> SUFFICES ASSUME NEW z \in UpTo(y) PROVE z <= x
      OBVIOUS
    <3>1. z \in Nat /\ z <= y
      OBVIOUS
    <3> QED BY <3>1, <2>2, <1>4
  <2>4. x \in UpTo(x) /\ x \notin UpTo(y)
    BY <2>2, <1>4
  <2>5. <<UpTo(y), X>> \in StrictSubsetOrdering(S)
    BY <2>3, <2>4, <1>3 DEF StrictSubsetOrdering
  <2> QED BY <2>1, <2>5, <1>2
<1> QED BY <1>4

(* The minimum of a set of natural numbers is its least member. *)
LEMMA MinIsLeast ==
    ASSUME NEW S \in SUBSET Nat, S # {}
    PROVE  Min(S) \in S /\ \A y \in S : Min(S) <= y
<1>1. PICK x \in S : \A y \in S : x <= y
  BY LeastElement
<1>2. \A y \in S : x =< y
  BY <1>1
<1> QED BY <1>2 DEF Min

(* A bounded set of natural numbers that is not empty has a greatest one. *)
LEMMA GreatestElement ==
    ASSUME NEW n \in Nat, NEW S \in SUBSET (0..n), S # {}
    PROVE  \E x \in S : \A y \in S : x >= y
<1> DEFINE T == {n - x : x \in S}
<1>1. T \in SUBSET Nat /\ T # {}
  <2>1. \A x \in S : n - x \in Nat
    OBVIOUS
  <2>2. \E x \in S : n - x \in T
    OBVIOUS
  <2> QED BY <2>1, <2>2
<1>2. PICK t \in T : \A u \in T : t <= u
  BY <1>1, LeastElement
<1>3. PICK x \in S : t = n - x
  BY <1>2
<1>4. ASSUME NEW y \in S PROVE x >= y
  <2>1. n - y \in T /\ x \in Int /\ y \in Int
    OBVIOUS
  <2>2. n - x <= n - y
    BY <1>2, <1>3, <2>1
  <2> QED BY <2>1, <2>2
<1> QED BY <1>4

(* Whole division keeps the order. *)
LEMMA DivMonotone ==
    ASSUME NEW a \in Nat, NEW b \in Nat, NEW P \in Nat \ {0}, a <= b
    PROVE  a \div P <= b \div P
<1> DEFINE q == a \div P
           r == b \div P
<1>1. q \in Int /\ r \in Int /\ P * q <= a /\ b < P * r + P
  OBVIOUS
<1> HIDE DEF q, r
<1>2. SUFFICES ASSUME r < q PROVE FALSE
  BY <1>1 DEF q, r
<1>3. P * q >= P * (r + 1) /\ P * (r + 1) = P * r + P
  BY <1>1, <1>2
<1> QED BY <1>1, <1>3

(* Induction over the natural numbers: the step may fail only outside S. *)
LEMMA SetInduction ==
    ASSUME NEW S, 0 \in S, \A n \in Nat \cap S : n + 1 \in S
    PROVE  Nat \subseteq S
<1> SUFFICES ASSUME NEW k \in Nat \ S PROVE FALSE
  OBVIOUS
<1>1. PICK x \in Nat \ S : \A y \in Nat \ S : x <= y
  BY LeastElement
<1>2. x # 0 /\ x - 1 \in Nat /\ x - 1 \in S
  BY <1>1
<1> QED BY <1>1, <1>2

(* A part of a finite set that leaves something out is smaller. *)
LEMMA PartIsSmaller ==
    ASSUME NEW S, IsFiniteSet(S), NEW T \in SUBSET S, T # S
    PROVE  /\ Cardinality(T) \in Nat /\ Cardinality(S) \in Nat
           /\ Cardinality(T) < Cardinality(S)
<1>1. IsFiniteSet(T) /\ Cardinality(T) <= Cardinality(S) /\ Cardinality(S) # Cardinality(T)
  BY FS_Subset
<1>2. Cardinality(T) \in Nat /\ Cardinality(S) \in Nat
  BY <1>1, FS_CardinalityType
<1> QED BY <1>1, <1>2

(* In a finite set with a strict total order each place is taken, by one:  *)
(* for each number below its size there is one member with so many others  *)
(* before it.                                                              *)
Orders(R, S) ==
    /\ \A x \in S : <<x, x>> \notin R
    /\ \A x, y, z \in S : <<x, y>> \in R /\ <<y, z>> \in R => <<x, z>> \in R
    /\ \A x, y \in S : x = y \/ <<x, y>> \in R \/ <<y, x>> \in R

Under(x, S, R) == {y \in S : <<y, x>> \in R}

LEMMA PlacesAreTaken ==
    ASSUME NEW S, IsFiniteSet(S), NEW R, Orders(R, S)
    PROVE  /\ Cardinality(S) \in Nat
           /\ \A x \in S : Cardinality(Under(x, S, R)) \in 0..(Cardinality(S) - 1)
           /\ \A i \in 0..(Cardinality(S) - 1) : \E x \in S : Cardinality(Under(x, S, R)) = i
           /\ \A x, y \in S : Cardinality(Under(x, S, R)) = Cardinality(Under(y, S, R)) => x = y
<1> DEFINE n == Cardinality(S)
           place == [x \in S |-> Cardinality(Under(x, S, R))]
<1>1. n \in Nat
  BY FS_CardinalityType
<1>2. ASSUME NEW x \in S
      PROVE  /\ Under(x, S, R) \subseteq S /\ Under(x, S, R) # S /\ IsFiniteSet(Under(x, S, R))
             /\ Cardinality(Under(x, S, R)) \in 0..(n - 1)
  <2>1. Under(x, S, R) \in SUBSET S /\ x \in S \ Under(x, S, R)
    BY DEF Under, Orders
  <2>2. Cardinality(Under(x, S, R)) \in Nat /\ Cardinality(Under(x, S, R)) < n
    <3> QED BY <2>1, PartIsSmaller
  <2>3. IsFiniteSet(Under(x, S, R))
    <3> QED BY <2>1, FS_Subset
  <2> QED BY <2>1, <2>2, <2>3, <1>1
<1>3. ASSUME NEW x \in S, NEW y \in S, <<x, y>> \in R
      PROVE  Cardinality(Under(x, S, R)) < Cardinality(Under(y, S, R))
  <2>1. Under(x, S, R) \in SUBSET Under(y, S, R)
    BY <1>3 DEF Under, Orders
  <2>2. x \in Under(y, S, R) /\ x \notin Under(x, S, R)
    BY <1>3 DEF Under, Orders
  <2>3. Under(x, S, R) # Under(y, S, R) /\ IsFiniteSet(Under(y, S, R))
    <3> QED BY <2>2, <1>2
  <2> QED BY <2>1, <2>3, PartIsSmaller
<1>4. ASSUME NEW x \in S, NEW y \in S, Cardinality(Under(x, S, R)) = Cardinality(Under(y, S, R))
      PROVE  x = y
  <2>1. Cardinality(Under(x, S, R)) \in Int /\ Cardinality(Under(y, S, R)) \in Int
    <3> QED BY <1>2, <1>1
  <2>2. <<x, y>> \notin R /\ <<y, x>> \notin R
    <3>1. <<x, y>> \in R => Cardinality(Under(x, S, R)) < Cardinality(Under(y, S, R))
      BY <1>3
    <3>2. <<y, x>> \in R => Cardinality(Under(y, S, R)) < Cardinality(Under(x, S, R))
      BY <1>3
    <3> QED BY <3>1, <3>2, <2>1, <1>4
  <2> QED BY <2>2 DEF Orders
<1>5. place \in Injection(S, 0..(n - 1))
  <2>1. place \in [S -> 0..(n - 1)]
    BY <1>2
  <2>2. \A x, y \in S : place[x] = place[y] => x = y
    BY <1>4
  <2> HIDE DEF place
  <2> QED BY <2>1, <2>2 DEF Injection, IsInjective
<1>6. IsFiniteSet(0..(n - 1)) /\ Cardinality(0..(n - 1)) = n
  <2> HIDE DEF n
  <2>1. 0 \in Int /\ n - 1 \in Int
    BY <1>1
  <2>2. IsFiniteSet(0..(n - 1))
        /\ Cardinality(0..(n - 1)) = IF 0 > n - 1 THEN 0 ELSE (n - 1) - 0 + 1
    BY <2>1, FS_Interval
  <2> QED BY <2>2, <1>1
<1>7. place \in Surjection(S, 0..(n - 1))
  <2> HIDE DEF place
  <2> QED BY <1>5, <1>6, FS_Injection
<1>8. \A i \in 0..(n - 1) : \E x \in S : Cardinality(Under(x, S, R)) = i
  BY <1>7 DEF Surjection
<1> QED BY <1>1, <1>2, <1>4, <1>8

(* The maximum of a finite set of integers is its greatest member.         *)
LEMMA FiniteMax ==
    ASSUME NEW S \in SUBSET Int, IsFiniteSet(S), S # {}
    PROVE  Max(S) \in S /\ \A y \in S : Max(S) >= y
<1> DEFINE R == {p \in S \X S : p[1] < p[2]}
           n == Cardinality(S)
<1>1. Orders(R, S)
  <2>1. \A x \in S : <<x, x>> \notin R
    OBVIOUS
  <2>2. ASSUME NEW x \in S, NEW y \in S, NEW z \in S, <<x, y>> \in R, <<y, z>> \in R
        PROVE  <<x, z>> \in R
    <3>1. x < y /\ y < z /\ x \in Int /\ y \in Int /\ z \in Int
      BY <2>2
    <3>2. x < z
      BY <3>1
    <3> QED BY <3>2
  <2>3. ASSUME NEW x \in S, NEW y \in S PROVE x = y \/ <<x, y>> \in R \/ <<y, x>> \in R
    <3>1. x \in Int /\ y \in Int
      OBVIOUS
    <3>2. x = y \/ x < y \/ y < x
      BY <3>1
    <3> QED BY <3>2
  <2> HIDE DEF R
  <2> QED BY <2>1, <2>2, <2>3 DEF Orders
<1>2. n \in Nat /\ n # 0
  BY FS_CardinalityType, FS_EmptySet
<1>3. PICK x \in S : Cardinality(Under(x, S, R)) = n - 1
  <2>1. n - 1 \in 0..(n - 1)
    BY <1>2
  <2> HIDE DEF R
  <2> QED BY <1>1, <2>1, PlacesAreTaken
<1>4. ASSUME NEW y \in S, <<x, y>> \in R PROVE FALSE
  <2> HIDE DEF R
  <2>1. Under(x, S, R) \subseteq Under(y, S, R) /\ x \in Under(y, S, R) /\ x \notin Under(x, S, R)
    BY <1>1, <1>4 DEF Under, Orders
  <2>2. Under(y, S, R) \in SUBSET S
    BY DEF Under
  <2>3. IsFiniteSet(Under(y, S, R))
    BY <2>2, FS_Subset
  <2>4. Cardinality(Under(x, S, R)) < Cardinality(Under(y, S, R))
    BY <2>1, <2>3, PartIsSmaller
  <2>5. Cardinality(Under(y, S, R)) \in 0..(n - 1)
    BY <1>1, PlacesAreTaken
  <2> QED BY <2>4, <2>5, <1>2, <1>3
<1>5. \A y \in S : x >= y
  <2> SUFFICES ASSUME NEW y \in S PROVE x >= y
    OBVIOUS
  <2>1. x \in Int /\ y \in Int /\ ~(x < y)
    BY <1>4
  <2> QED BY <2>1
<1> QED BY <1>5 DEF Max

(* The image of a finite set is finite. *)
LEMMA ImageIsFinite ==
    ASSUME NEW S, IsFiniteSet(S), NEW f
    PROVE  IsFiniteSet({f[x] : x \in S})
<1> DEFINE T == {f[x] : x \in S}
           g == [x \in S |-> f[x]]
<1>1. g \in Surjection(S, T)
  BY DEF Surjection
<1> HIDE DEF g, T
<1>2. IsFiniteSet(T)
  BY <1>1, FS_Surjection
<1> QED BY <1>2 DEF T

(* Sums of a function over a finite set: the fold of the library, which    *)
(* takes any order, is a sum in every order.                               *)
Summed(h, f, subsets) ==
    h = [s \in subsets |-> IF s = {} THEN 0
                           ELSE f[CHOOSE x \in s : TRUE] + h[s \ {CHOOSE x \in s : TRUE}]]

LEMMA SumDefined ==
    ASSUME NEW S, IsFiniteSet(S), NEW f
    PROVE  \E h : Summed(h, f, SUBSET S)
<1> DEFINE Small(n) == {s \in SUBSET S : Cardinality(s) <= n}
           N == {n \in Nat : \E h : Summed(h, f, Small(n))}
           c(s) == CHOOSE x \in s : TRUE
<1>1. \A s \in SUBSET S : IsFiniteSet(s) /\ Cardinality(s) \in Nat /\ (Cardinality(s) = 0 <=> s = {})
  BY FS_Subset, FS_CardinalityType, FS_EmptySet
<1>2. \A s \in SUBSET S : s # {} => /\ c(s) \in s /\ s \ {c(s)} \in SUBSET S
                                    /\ Cardinality(s \ {c(s)}) = Cardinality(s) - 1
  <2> SUFFICES ASSUME NEW s \in SUBSET S, s # {}
               PROVE  /\ c(s) \in s /\ s \ {c(s)} \in SUBSET S
                      /\ Cardinality(s \ {c(s)}) = Cardinality(s) - 1
    OBVIOUS
  <2>1. c(s) \in s
    OBVIOUS
  <2> HIDE DEF c
  <2> QED BY <2>1, <1>1, FS_RemoveElement
<1> HIDE DEF c
<1>3. 0 \in N
  <2> DEFINE h == [s \in Small(0) |-> 0]
  <2>1. \A s \in Small(0) : s = {}
    BY <1>1
  <2>2. Summed(h, f, Small(0))
    <3> HIDE DEF Small
    <3> QED BY <2>1 DEF Summed
  <2> QED BY <2>2
<1>4. ASSUME NEW n \in Nat \cap N PROVE n + 1 \in N
  <2>1. PICK g : Summed(g, f, Small(n))
    OBVIOUS
  <2> DEFINE h == [s \in Small(n + 1) |-> IF s = {} THEN 0 ELSE f[c(s)] + g[s \ {c(s)}]]
  <2>2. \A s \in Small(n) : s \in Small(n + 1) /\ h[s] = g[s]
    <3> SUFFICES ASSUME NEW s \in Small(n) PROVE s \in Small(n + 1) /\ h[s] = g[s]
      OBVIOUS
    <3>1. s \in Small(n + 1)
      BY <1>1
    <3>2. g[s] = IF s = {} THEN 0 ELSE f[c(s)] + g[s \ {c(s)}]
      <4> HIDE DEF Small
      <4> QED BY <2>1 DEF Summed, c
    <3> HIDE DEF Small
    <3> QED BY <3>1, <3>2
  <2>3. \A s \in Small(n + 1) : s # {} => s \ {c(s)} \in Small(n)
    BY <1>1, <1>2
  <2>4. Summed(h, f, Small(n + 1))
    <3>1. \A s \in Small(n + 1) : s # {} => h[s \ {c(s)}] = g[s \ {c(s)}]
      <4> HIDE DEF Small, h
      <4> QED BY <2>2, <2>3
    <3>2. h = [s \in Small(n + 1) |-> IF s = {} THEN 0 ELSE f[c(s)] + h[s \ {c(s)}]]
      <4> HIDE DEF Small
      <4>1. \A s \in Small(n + 1) :
               (IF s = {} THEN 0 ELSE f[c(s)] + g[s \ {c(s)}])
                  = (IF s = {} THEN 0 ELSE f[c(s)] + h[s \ {c(s)}])
        <5> HIDE DEF h
        <5> QED BY <3>1
      <4> QED BY <4>1
    <3> HIDE DEF Small, h
    <3> QED BY <3>2 DEF Summed, c
  <2> HIDE DEF Small, h
  <2>5. n + 1 \in Nat
    OBVIOUS
  <2> QED BY <2>4, <2>5
<1>5. Cardinality(S) \in N
  <2> HIDE DEF N
  <2>1. Nat \subseteq N
    BY <1>3, <1>4, SetInduction
  <2> QED BY <2>1, FS_CardinalityType
<1>6. Small(Cardinality(S)) = SUBSET S
  <2>1. \A s \in SUBSET S : Cardinality(s) <= Cardinality(S)
    BY FS_Subset
  <2> QED BY <2>1
<1> HIDE DEF Small
<1> QED BY <1>5, <1>6

(* A sum over a part of a set is the one found on the way to the whole.    *)
LEMMA SumsAgree ==
    ASSUME NEW S, IsFiniteSet(S), NEW T \in SUBSET S, NEW f, NEW h, NEW g,
           Summed(h, f, SUBSET S), Summed(g, f, SUBSET T)
    PROVE  g[T] = h[T]
<1> DEFINE N == {n \in Nat : \A s \in SUBSET T : Cardinality(s) = n => g[s] = h[s]}
           c(s) == CHOOSE x \in s : TRUE
<1>1. \A s \in SUBSET T : /\ IsFiniteSet(s) /\ Cardinality(s) \in Nat
                          /\ (Cardinality(s) = 0 <=> s = {}) /\ s \in SUBSET S
  BY FS_Subset, FS_CardinalityType, FS_EmptySet
<1>2. \A s \in SUBSET T :
         /\ h[s] = IF s = {} THEN 0 ELSE f[c(s)] + h[s \ {c(s)}]
         /\ g[s] = IF s = {} THEN 0 ELSE f[c(s)] + g[s \ {c(s)}]
  BY <1>1 DEF Summed
<1>3. \A s \in SUBSET T : s # {} => /\ c(s) \in s /\ s \ {c(s)} \in SUBSET T
                                    /\ Cardinality(s \ {c(s)}) = Cardinality(s) - 1
  <2> SUFFICES ASSUME NEW s \in SUBSET T, s # {}
               PROVE  /\ c(s) \in s /\ s \ {c(s)} \in SUBSET T
                      /\ Cardinality(s \ {c(s)}) = Cardinality(s) - 1
    OBVIOUS
  <2>1. c(s) \in s
    OBVIOUS
  <2> HIDE DEF c
  <2> QED BY <2>1, <1>1, FS_RemoveElement
<1> HIDE DEF c
<1>4. 0 \in N
  BY <1>1, <1>2
<1>5. ASSUME NEW n \in Nat \cap N PROVE n + 1 \in N
  <2> SUFFICES ASSUME NEW s \in SUBSET T, Cardinality(s) = n + 1 PROVE g[s] = h[s]
    OBVIOUS
  <2>1. s # {}
    BY <1>1
  <2>2. g[s \ {c(s)}] = h[s \ {c(s)}]
    BY <2>1, <1>3
  <2> QED BY <2>1, <2>2, <1>2
<1> HIDE DEF N
<1>6. Nat \subseteq N
  BY <1>4, <1>5, SetInduction
<1> QED BY <1>1, <1>6 DEF N

LEMMA SumSteps ==
    ASSUME NEW S, IsFiniteSet(S), NEW f
    PROVE  /\ S = {} => SumFunctionOnSet(f, S) = 0
           /\ S # {} => \E x \in S : SumFunctionOnSet(f, S) = f[x] + SumFunctionOnSet(f, S \ {x})
<1> DEFINE F(T) == CHOOSE h : Summed(h, f, SUBSET T)
           c == CHOOSE x \in S : TRUE
<1>1. \A T : SumFunctionOnSet(f, T) = F(T)[T]
  BY DEF SumFunctionOnSet, FoldFunctionOnSet, MapThenFoldSet, Summed
<1>2. \A T \in SUBSET S : Summed(F(T), f, SUBSET T)
  <2> SUFFICES ASSUME NEW T \in SUBSET S PROVE Summed(F(T), f, SUBSET T)
    OBVIOUS
  <2>1. \E h : Summed(h, f, SUBSET T)
    BY FS_Subset, SumDefined
  <2> QED BY <2>1
<1> HIDE DEF F
<1>3. F(S)[S] = IF S = {} THEN 0 ELSE f[c] + F(S)[S \ {c}]
  BY <1>2 DEF Summed
<1>4. F(S \ {c})[S \ {c}] = F(S)[S \ {c}]
  <2> DEFINE T == S \ {c}
  <2>1. T \in SUBSET S
    OBVIOUS
  <2> HIDE DEF T
  <2> DEFINE g == F(T)
             h == F(S)
  <2>2. Summed(g, f, SUBSET T) /\ Summed(h, f, SUBSET S)
    BY <2>1, <1>2
  <2> HIDE DEF g, h
  <2>3. g[T] = h[T]
    BY <2>1, <2>2, SumsAgree
  <2> QED BY <2>3 DEF T, g, h
<1>5. S # {} => c \in S
  OBVIOUS
<1> HIDE DEF c
<1> QED BY <1>1, <1>3, <1>4, <1>5

(* A sum of integers is one, whichever member is taken out first.          *)
LEMMA SumPicks ==
    ASSUME NEW S, IsFiniteSet(S), NEW f, \A x \in S : f[x] \in Int
    PROVE  /\ SumFunctionOnSet(f, S) \in Int
           /\ \A y \in S : SumFunctionOnSet(f, S) = f[y] + SumFunctionOnSet(f, S \ {y})
<1> DEFINE Good(X) == /\ SumFunctionOnSet(f, X) \in Int
                      /\ \A y \in X : SumFunctionOnSet(f, X) = f[y] + SumFunctionOnSet(f, X \ {y})
           N == {n \in Nat : \A X \in SUBSET S : Cardinality(X) <= n => Good(X)}
<1>1. \A X \in SUBSET S : /\ IsFiniteSet(X) /\ Cardinality(X) \in Nat
                          /\ (Cardinality(X) = 0 <=> X = {})
                          /\ \A y \in X : X \ {y} \in SUBSET S /\ Cardinality(X \ {y}) = Cardinality(X) - 1
  <2>1. \A X \in SUBSET S : IsFiniteSet(X) /\ Cardinality(X) \in Nat
    BY FS_Subset, FS_CardinalityType
  <2>2. \A X \in SUBSET S : Cardinality(X) = 0 <=> X = {}
    BY <2>1, FS_EmptySet
  <2>3. ASSUME NEW X \in SUBSET S, NEW y \in X PROVE Cardinality(X \ {y}) = Cardinality(X) - 1
    BY <2>1, FS_RemoveElement
  <2> QED BY <2>1, <2>2, <2>3
<1>2. Good({})
  <2>1. IsFiniteSet({}) /\ SumFunctionOnSet(f, {}) = 0
    BY FS_EmptySet, SumSteps
  <2> QED BY <2>1
<1>3. 0 \in N
  <2> HIDE DEF Good
  <2> QED BY <1>1, <1>2
<1>4. ASSUME NEW n \in Nat \cap N PROVE n + 1 \in N
  <2> SUFFICES ASSUME NEW X \in SUBSET S, Cardinality(X) <= n + 1 PROVE Good(X)
    OBVIOUS
  <2> SUFFICES ASSUME X # {} PROVE Good(X)
    BY <1>2
  <2>1. IsFiniteSet(X)
    BY <1>1
  <2>2. PICK c \in X : SumFunctionOnSet(f, X) = f[c] + SumFunctionOnSet(f, X \ {c})
    BY <2>1, SumSteps
  <2>3. \A y \in X : Good(X \ {y}) /\ f[y] \in Int
    <3> HIDE DEF Good
    <3> QED BY <1>1
  <2>4. SumFunctionOnSet(f, X) \in Int
    BY <2>2, <2>3
  <2>5. ASSUME NEW y \in X, y # c PROVE SumFunctionOnSet(f, X) = f[y] + SumFunctionOnSet(f, X \ {y})
    <3> DEFINE Z == (X \ {c}) \ {y}
    <3>1. Z = (X \ {y}) \ {c} /\ y \in X \ {c} /\ c \in X \ {y}
      BY <2>5
    <3>2. /\ SumFunctionOnSet(f, X \ {c}) = f[y] + SumFunctionOnSet(f, Z)
          /\ SumFunctionOnSet(f, X \ {y}) = f[c] + SumFunctionOnSet(f, Z)
      <4>1. SumFunctionOnSet(f, X \ {c}) = f[y] + SumFunctionOnSet(f, (X \ {c}) \ {y})
        BY <2>3, <3>1
      <4>2. SumFunctionOnSet(f, X \ {y}) = f[c] + SumFunctionOnSet(f, (X \ {y}) \ {c})
        BY <2>3, <3>1
      <4> HIDE DEF Good
      <4> QED BY <4>1, <4>2, <3>1
    <3>3. SumFunctionOnSet(f, Z) \in Int
      <4>1. X \ {c} \in SUBSET S /\ Cardinality(X \ {c}) <= n /\ Cardinality(X \ {c}) \in Nat
        BY <1>1
      <4>2. Z \in SUBSET S /\ Cardinality(Z) = Cardinality(X \ {c}) - 1
        BY <3>1, <4>1, <1>1
      <4>3. Cardinality(Z) <= n
        BY <4>1, <4>2
      <4>4. Good(Z)
        <5> HIDE DEF Good
        <5> QED BY <4>2, <4>3
      <4> QED BY <4>4
    <3> QED BY <2>2, <2>3, <3>2, <3>3
  <2> QED BY <2>2, <2>4, <2>5
<1> HIDE DEF N
<1>5. Nat \subseteq N
  BY <1>3, <1>4, SetInduction
<1> QED BY <1>1, <1>5 DEF N

(* The sum of differences is the difference of the sums. *)
LEMMA SumOfDifferences ==
    ASSUME NEW S, IsFiniteSet(S), NEW f, NEW g, NEW h,
           \A x \in S : f[x] \in Int /\ g[x] \in Int /\ h[x] = f[x] - g[x]
    PROVE  SumFunctionOnSet(h, S) = SumFunctionOnSet(f, S) - SumFunctionOnSet(g, S)
<1> DEFINE N == {n \in Nat : \A X \in SUBSET S :
                    Cardinality(X) = n =>
                       SumFunctionOnSet(h, X) = SumFunctionOnSet(f, X) - SumFunctionOnSet(g, X)}
<1>1. \A X \in SUBSET S : /\ IsFiniteSet(X) /\ Cardinality(X) \in Nat
                          /\ (Cardinality(X) = 0 <=> X = {})
  BY FS_Subset, FS_CardinalityType, FS_EmptySet
<1>2. \A x \in S : f[x] \in Int /\ g[x] \in Int /\ h[x] \in Int
  OBVIOUS
<1>3. 0 \in N
  <2>1. SumFunctionOnSet(h, {}) = SumFunctionOnSet(f, {}) - SumFunctionOnSet(g, {})
    <3>1. /\ IsFiniteSet({}) /\ SumFunctionOnSet(h, {}) = 0
          /\ SumFunctionOnSet(f, {}) = 0 /\ SumFunctionOnSet(g, {}) = 0
      BY FS_EmptySet, SumSteps
    <3> QED BY <3>1
  <2>2. ASSUME NEW X \in SUBSET S, Cardinality(X) = 0
        PROVE  SumFunctionOnSet(h, X) = SumFunctionOnSet(f, X) - SumFunctionOnSet(g, X)
    <3>1. X = {}
      BY <1>1, <2>2
    <3> QED BY <3>1, <2>1
  <2> QED BY <2>2
<1>4. ASSUME NEW n \in Nat \cap N PROVE n + 1 \in N
  <2> SUFFICES ASSUME NEW X \in SUBSET S, Cardinality(X) = n + 1
               PROVE  SumFunctionOnSet(h, X) = SumFunctionOnSet(f, X) - SumFunctionOnSet(g, X)
    OBVIOUS
  <2>1. IsFiniteSet(X) /\ X # {}
    BY <1>1
  <2>2. PICK y \in X : TRUE
    BY <2>1
  <2> DEFINE Y == X \ {y}
  <2>3. /\ SumFunctionOnSet(f, X) = f[y] + SumFunctionOnSet(f, Y)
        /\ SumFunctionOnSet(g, X) = g[y] + SumFunctionOnSet(g, Y)
        /\ SumFunctionOnSet(h, X) = h[y] + SumFunctionOnSet(h, Y)
    <3>1. \A x \in X : f[x] \in Int /\ g[x] \in Int /\ h[x] \in Int
      BY <1>2
    <3> HIDE DEF N
    <3>2. SumFunctionOnSet(f, X) = f[y] + SumFunctionOnSet(f, Y)
      BY <3>1, <2>1, SumPicks
    <3>3. SumFunctionOnSet(g, X) = g[y] + SumFunctionOnSet(g, Y)
      BY <3>1, <2>1, SumPicks
    <3>4. SumFunctionOnSet(h, X) = h[y] + SumFunctionOnSet(h, Y)
      BY <3>1, <2>1, SumPicks
    <3> QED BY <3>2, <3>3, <3>4
  <2>4. IsFiniteSet(Y) /\ Cardinality(Y) = n /\ Y \in SUBSET S
    <3>1. Y \in SUBSET S /\ n \in Nat
      OBVIOUS
    <3>2. Cardinality(Y) = Cardinality(X) - 1
      BY <2>1, FS_RemoveElement
    <3> HIDE DEF Y, N
    <3> QED BY <3>1, <3>2, <1>1
  <2> HIDE DEF Y
  <2>5. SumFunctionOnSet(f, Y) \in Int /\ SumFunctionOnSet(g, Y) \in Int /\ SumFunctionOnSet(h, Y) \in Int
    BY <2>4, <1>2, SumPicks
  <2>6. SumFunctionOnSet(h, Y) = SumFunctionOnSet(f, Y) - SumFunctionOnSet(g, Y)
    BY <2>4
  <2> QED BY <2>3, <2>5, <2>6, <1>2
<1> HIDE DEF N
<1>5. Nat \subseteq N
  BY <1>3, <1>4, SetInduction
<1> QED BY <1>1, <1>5 DEF N

(* Members whose number is 0 do not count. *)
LEMMA SumOfPart ==
    ASSUME NEW S, IsFiniteSet(S), NEW T \in SUBSET S, NEW f, NEW g,
           \A x \in S : g[x] = IF x \in T THEN f[x] ELSE 0,
           \A x \in T : f[x] \in Int
    PROVE  SumFunctionOnSet(g, S) = SumFunctionOnSet(f, T)
<1> DEFINE N == {n \in Nat : \A X \in SUBSET S :
                    Cardinality(X) = n => SumFunctionOnSet(g, X) = SumFunctionOnSet(f, X \cap T)}
<1>1. \A X \in SUBSET S : /\ IsFiniteSet(X) /\ Cardinality(X) \in Nat
                          /\ (Cardinality(X) = 0 <=> X = {}) /\ IsFiniteSet(X \cap T)
  <2>1. \A X \in SUBSET S : IsFiniteSet(X)
    BY FS_Subset
  <2>2. \A X \in SUBSET S : X \cap T \in SUBSET S
    OBVIOUS
  <2> QED BY <2>1, <2>2, FS_CardinalityType, FS_EmptySet
<1>2. \A x \in S : g[x] \in Int
  OBVIOUS
<1>3. 0 \in N
  <2>1. IsFiniteSet({}) /\ SumFunctionOnSet(g, {}) = 0 /\ SumFunctionOnSet(f, {}) = 0
    BY FS_EmptySet, SumSteps
  <2>2. {} \cap T = {}
    OBVIOUS
  <2>3. SumFunctionOnSet(g, {}) = SumFunctionOnSet(f, {} \cap T)
    BY <2>1, <2>2
  <2> QED BY <2>3, <1>1
<1>4. ASSUME NEW n \in Nat \cap N PROVE n + 1 \in N
  <2> SUFFICES ASSUME NEW X \in SUBSET S, Cardinality(X) = n + 1
               PROVE  SumFunctionOnSet(g, X) = SumFunctionOnSet(f, X \cap T)
    OBVIOUS
  <2>1. IsFiniteSet(X) /\ X # {} /\ IsFiniteSet(X \cap T)
    BY <1>1
  <2>2. PICK y \in X : TRUE
    BY <2>1
  <2> DEFINE Y == X \ {y}
  <2>3. SumFunctionOnSet(g, X) = g[y] + SumFunctionOnSet(g, Y)
    <3>1. \A x \in X : g[x] \in Int
      BY <1>2
    <3> HIDE DEF N
    <3> QED BY <3>1, <2>1, SumPicks
  <2>4. IsFiniteSet(Y) /\ Cardinality(Y) = n /\ Y \in SUBSET S
    <3>1. Y \in SUBSET S /\ n \in Nat
      OBVIOUS
    <3>2. Cardinality(Y) = Cardinality(X) - 1
      BY <2>1, FS_RemoveElement
    <3>3. IsFiniteSet(Y)
      BY <3>1, FS_Subset
    <3> HIDE DEF Y, N
    <3> QED BY <3>1, <3>2, <3>3
  <2>5. SumFunctionOnSet(g, Y) = SumFunctionOnSet(f, Y \cap T) /\ SumFunctionOnSet(g, Y) \in Int
    <3> HIDE DEF Y
    <3>1. SumFunctionOnSet(g, Y) \in Int
      BY <2>4, <1>2, SumPicks
    <3> QED BY <3>1, <2>4
  <2>6. CASE y \in T
    <3>1. y \in X \cap T /\ \A x \in X \cap T : f[x] \in Int
      BY <2>6
    <3>2. SumFunctionOnSet(f, X \cap T) = f[y] + SumFunctionOnSet(f, (X \cap T) \ {y})
      <4> DEFINE Z == X \cap T
      <4>1. IsFiniteSet(Z) /\ y \in Z /\ \A x \in Z : f[x] \in Int
        BY <2>1, <3>1
      <4> HIDE DEF Z
      <4>2. SumFunctionOnSet(f, Z) = f[y] + SumFunctionOnSet(f, Z \ {y})
        BY <4>1, SumPicks
      <4> QED BY <4>2 DEF Z
    <3>3. (X \cap T) \ {y} = Y \cap T
      OBVIOUS
    <3>4. g[y] = f[y]
      BY <2>6
    <3> QED BY <3>2, <3>3, <3>4, <2>3, <2>5
  <2>7. CASE y \notin T
    <3>1. X \cap T = Y \cap T
      BY <2>7
    <3>2. SumFunctionOnSet(g, X) = SumFunctionOnSet(g, Y)
      <4>1. g[y] = 0
        BY <2>7
      <4> HIDE DEF N, Y
      <4> QED BY <4>1, <2>3, <2>5
    <3> HIDE DEF N, Y
    <3> QED BY <3>1, <3>2, <2>5
  <2> QED BY <2>6, <2>7
<1> HIDE DEF N
<1>5. Nat \subseteq N
  BY <1>3, <1>4, SetInduction
<1>6. S \cap T = T /\ S \in SUBSET S
  OBVIOUS
<1>7. SumFunctionOnSet(g, S) = SumFunctionOnSet(f, S \cap T)
  BY <1>1, <1>5, <1>6 DEF N
<1> QED BY <1>6, <1>7

(* A sum of natural numbers is one. *)
LEMMA SumOfNaturals ==
    ASSUME NEW S, IsFiniteSet(S), NEW f, \A x \in S : f[x] \in Nat
    PROVE  SumFunctionOnSet(f, S) \in Nat
<1> DEFINE N == {n \in Nat : \A X \in SUBSET S : Cardinality(X) = n => SumFunctionOnSet(f, X) \in Nat}
<1>1. \A X \in SUBSET S : /\ IsFiniteSet(X) /\ Cardinality(X) \in Nat
                          /\ (Cardinality(X) = 0 <=> X = {})
  BY FS_Subset, FS_CardinalityType, FS_EmptySet
<1>2. 0 \in N
  <2>1. IsFiniteSet({}) /\ SumFunctionOnSet(f, {}) = 0
    BY FS_EmptySet, SumSteps
  <2>2. ASSUME NEW X \in SUBSET S, Cardinality(X) = 0 PROVE SumFunctionOnSet(f, X) \in Nat
    <3>1. X = {}
      BY <1>1, <2>2
    <3> QED BY <3>1, <2>1
  <2> QED BY <2>2
<1>3. ASSUME NEW n \in Nat \cap N PROVE n + 1 \in N
  <2> SUFFICES ASSUME NEW X \in SUBSET S, Cardinality(X) = n + 1
               PROVE  SumFunctionOnSet(f, X) \in Nat
    OBVIOUS
  <2>1. IsFiniteSet(X) /\ X # {} /\ n \in Nat
    BY <1>1
  <2>2. PICK y \in X : SumFunctionOnSet(f, X) = f[y] + SumFunctionOnSet(f, X \ {y})
    BY <2>1, SumSteps
  <2>3. Cardinality(X \ {y}) = n /\ X \ {y} \in SUBSET S
    <3>1. Cardinality(X \ {y}) = Cardinality(X) - 1
      BY <2>1, FS_RemoveElement
    <3> HIDE DEF N
    <3> QED BY <3>1, <2>1
  <2>4. SumFunctionOnSet(f, X \ {y}) \in Nat /\ f[y] \in Nat
    BY <2>3
  <2> QED BY <2>2, <2>4
<1> HIDE DEF N
<1>4. Nat \subseteq N
  BY <1>2, <1>3, SetInduction
<1> QED BY <1>1, <1>4 DEF N

LEMMA MaxOfTwo ==
    ASSUME NEW a \in Int, NEW b \in Int
    PROVE  Max({a, b}) = IF b > a THEN b ELSE a
<1> DEFINE m == IF b > a THEN b ELSE a
<1>1. m \in {a, b} /\ \A y \in {a, b} : m >= y
  OBVIOUS
<1>2. \A x \in {a, b} : (\A y \in {a, b} : x >= y) => x = m
  OBVIOUS
<1> HIDE DEF m
<1> QED BY <1>1, <1>2 DEF Max, m

LEMMA MinOfTwo ==
    ASSUME NEW a \in Int, NEW b \in Int
    PROVE  Min({a, b}) = IF b < a THEN b ELSE a
<1> DEFINE m == IF b < a THEN b ELSE a
<1>1. m \in {a, b} /\ \A y \in {a, b} : m =< y
  OBVIOUS
<1>2. \A x \in {a, b} : (\A y \in {a, b} : x =< y) => x = m
  OBVIOUS
<1> HIDE DEF m
<1> QED BY <1>1, <1>2 DEF Min, m
=============================================================================
