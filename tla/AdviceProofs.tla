---------------------------- MODULE AdviceProofs ----------------------------
(***************************************************************************)
(* Theorems about what the daemon tells its readers of the quotas, for any *)
(* providers, windows, kinds of window, clocks and histories.              *)
(*                                                                         *)
(* Every answer is a function of the cache, of the usage history and of    *)
(* the clock, so the invariant says what those three have to do with each  *)
(* other and with the providers' truth: a cached item is what one poll     *)
(* saw, a sample is what one poll saw, the samples of a series are some of *)
(* those polls at different times, and between two of them the counter     *)
(* rose by no more than was consumed.  The rest is about the functions:    *)
(* sums over the pairs of samples, rounding, clamps, minima and the order  *)
(* of a ranking.                                                           *)
(***************************************************************************)
EXTENDS Advice, FiniteSetTheorems, TLAPS

-----------------------------------------------------------------------------
(* Induction and sums over finite sets. *)

(* Induction, for a set of naturals. *)
LEMMA NatSetInduction ==
  ASSUME NEW T \in SUBSET Nat, 0 \in T, \A n \in T : n + 1 \in T
  PROVE  T = Nat
<1> SUFFICES ASSUME NEW n \in Nat, n \notin T PROVE FALSE  OBVIOUS
<1> DEFINE A == T \cap (0..n)
           f == [x \in A |-> x + 1]
<1>1. IsFiniteSet(0..n) /\ A \in SUBSET (0..n)  BY FS_Interval
<1>2. IsFiniteSet(A) /\ Cardinality(A) \in Nat  BY <1>1, FS_Subset, FS_CardinalityType
<1>3. \A x \in A : x + 1 \in A \ {0}
  <2> SUFFICES ASSUME NEW x \in A PROVE x + 1 \in A \ {0}  OBVIOUS
  <2>1. x \in Nat /\ x <= n /\ x # n  OBVIOUS
  <2> QED BY <2>1
<1>4. f \in Injection(A, A \ {0})
  <2>1. f \in [A -> A \ {0}]  BY <1>3
  <2>2. \A x, y \in A : f[x] = f[y] => x = y
    <3> SUFFICES ASSUME NEW x \in A, NEW y \in A, f[x] = f[y] PROVE x = y  OBVIOUS
    <3>1. f[x] = x + 1 /\ f[y] = y + 1  OBVIOUS
    <3>2. x \in Int /\ y \in Int  OBVIOUS
    <3> QED BY <3>1, <3>2
  <2> QED BY <2>1, <2>2 DEF Injection, IsInjective
<1>5. 0 \in A  OBVIOUS
<1>6. IsFiniteSet(A \ {0}) /\ Cardinality(A \ {0}) = Cardinality(A) - 1
  BY <1>2, <1>5, FS_RemoveElement
<1>7. Cardinality(A) <= Cardinality(A \ {0})
  <2> HIDE DEF A, f
  <2> QED BY <1>4, <1>6, FS_Injection
<1> QED BY <1>2, <1>6, <1>7

(* A nonempty set of naturals has a least element. *)
LEMMA NatMinimum ==
  ASSUME NEW S \in SUBSET Nat, S # {}
  PROVE  \E m \in S : \A x \in S : m <= x
<1> SUFFICES ASSUME \A m \in S : \E x \in S : x < m PROVE FALSE  OBVIOUS
<1> DEFINE T == {n \in Nat : \A m \in S : n <= m}
<1>1. 0 \in T  OBVIOUS
<1>2. \A n \in T : n + 1 \in T
  <2> SUFFICES ASSUME NEW n \in T, NEW m \in S PROVE n + 1 <= m  OBVIOUS
  <2>1. PICK x \in S : x < m  OBVIOUS
  <2>2. n <= x  OBVIOUS
  <2> QED BY <2>1, <2>2
<1>3. T = Nat
  <2> HIDE DEF T
  <2>1. T \in SUBSET Nat  BY DEF T
  <2> QED BY <1>1, <1>2, <2>1, NatSetInduction
<1>4. PICK m \in S : TRUE  OBVIOUS
<1>5. m + 1 \in T  BY <1>3
<1> QED BY <1>5

(* A finite nonempty set of integers has a greatest element. *)
LEMMA FiniteMaximum ==
  ASSUME NEW S \in SUBSET Int, IsFiniteSet(S), S # {}
  PROVE  \E m \in S : \A x \in S : x <= m
<1> DEFINE HasMax(U) == \E m \in U : \A x \in U : x <= m
           T == {n \in Nat : \A U \in SUBSET S : U # {} /\ Cardinality(U) = n => HasMax(U)}
<1>0. \A U \in SUBSET S : IsFiniteSet(U) /\ Cardinality(U) \in Nat  BY FS_Subset, FS_CardinalityType
<1>1. 0 \in T
  BY <1>0, FS_EmptySet
<1>2. ASSUME NEW n \in T PROVE n + 1 \in T
  <2>1. ASSUME NEW U \in SUBSET S, U # {}, Cardinality(U) = n + 1
        PROVE  HasMax(U)
    <3>1. PICK y \in U : TRUE  BY <2>1
    <3>2. U \ {y} \in SUBSET S /\ Cardinality(U \ {y}) = n
      BY <1>0, <2>1, FS_RemoveElement
    <3>3. CASE U \ {y} = {}
      <4>1. \A x \in U : x = y  BY <3>3
      <4>2. y \in Int  OBVIOUS
      <4> QED BY <4>1, <4>2
    <3>4. CASE U \ {y} # {}
      <4>1. PICK m \in U \ {y} : \A x \in U \ {y} : x <= m
        <5>1. HasMax(U \ {y})  BY <3>2, <3>4
        <5> QED BY <5>1
      <4>2. \A x \in U : x = y \/ x <= m  BY <4>1
      <4>3. y \in Int /\ m \in Int /\ m \in U  OBVIOUS
      <4>4. CASE y <= m  BY <4>2, <4>3, <4>4
      <4>5. CASE m < y
        <5>1. \A x \in U : x <= y  BY <4>2, <4>3, <4>5
        <5> QED BY <5>1
      <4> QED BY <4>3, <4>4, <4>5
    <3> QED BY <3>3, <3>4
  <2>2. n + 1 \in Nat  OBVIOUS
  <2> HIDE DEF HasMax
  <2> QED BY <2>1, <2>2
<1>3. T = Nat
  <2> HIDE DEF T
  <2>1. T \in SUBSET Nat  BY DEF T
  <2> QED BY <1>1, <1>2, <2>1, NatSetInduction
<1>4. HasMax(S)
  <2>1. Cardinality(S) \in T  BY <1>0, <1>3
  <2> QED BY <2>1
<1> QED BY <1>4

(* The sum of a function over a finite set.  Its definition chooses, at each *)
(* step, some element of the set that is left, and the function that does so  *)
(* is itself the choice of a solution of its equation: there is one, and any  *)
(* two of them agree. *)
Chosen(s) == CHOOSE x \in s : TRUE
Step(f, D, it) == [s \in D |-> IF s = {} THEN 0 ELSE f[Chosen(s)] + it[s \ {Chosen(s)}]]

SumIter(f, S) == CHOOSE it : it = Step(f, SUBSET S, it)

(* The library writes the sum as this iteration. *)
LEMMA SumUnfold ==
  ASSUME NEW f, NEW S
  PROVE  SumFunctionOnSet(f, S) = SumIter(f, S)[S]
BY DEF SumFunctionOnSet, FoldFunctionOnSet, MapThenFoldSet, SumIter, Step, Chosen

(* The element chosen is one. *)
LEMMA ChosenIsIn ==
  ASSUME NEW s, s # {}
  PROVE  Chosen(s) \in s
BY DEF Chosen

(* A set without one of its elements is smaller by one. *)
LEMMA OneLess ==
  ASSUME NEW S, IsFiniteSet(S), NEW n \in Nat, Cardinality(S) = n + 1
  PROVE  /\ S # {} /\ Chosen(S) \in S
         /\ \A x \in S : Cardinality(S \ {x}) = n
<1>1. S # {}
  <2>1. n + 1 # 0  OBVIOUS
  <2> QED BY <2>1, FS_EmptySet
<1>2. Chosen(S) \in S  BY <1>1, ChosenIsIn
<1>3. ASSUME NEW x \in S PROVE Cardinality(S \ {x}) = n
  <2>1. Cardinality(S \ {x}) = (n + 1) - 1  BY FS_RemoveElement
  <2> QED BY <2>1
<1> QED BY <1>1, <1>2, <1>3

(* The equation of the iteration has a solution. *)
LEMMA SumIterExists ==
  ASSUME NEW f, NEW S, IsFiniteSet(S)
  PROVE  \E it : it = Step(f, SUBSET S, it)
<1> DEFINE D(n) == {U \in SUBSET S : Cardinality(U) <= n}
           T == {n \in Nat : \E it : it = Step(f, D(n), it)}
<1>0. \A U \in SUBSET S : IsFiniteSet(U) /\ Cardinality(U) \in Nat  BY FS_Subset, FS_CardinalityType
<1>1. 0 \in T
  <2>1. \A U \in D(0) : U = {}  BY <1>0, FS_EmptySet
  <2> DEFINE it == [U \in D(0) |-> 0]
  <2>2. Step(f, D(0), it) = [U \in D(0) |-> 0]
    <3> HIDE DEF D
    <3> QED BY <2>1 DEF Step
  <2>3. it = Step(f, D(0), it)  BY <2>2
  <2> QED BY <2>3
<1>2. ASSUME NEW n \in T PROVE n + 1 \in T
  <2>1. PICK g : g = Step(f, D(n), g)  OBVIOUS
  <2> DEFINE h == Step(f, D(n + 1), g)
  <2>2. \A U \in D(n) : h[U] = g[U]
    <3>1. \A U \in D(n) : U \in D(n + 1)  BY <1>0
    <3> HIDE DEF D
    <3> QED BY <2>1, <3>1 DEF Step
  <2>3. \A U \in D(n + 1) : U # {} => U \ {Chosen(U)} \in D(n)
    BY <1>0, FS_RemoveElement, ChosenIsIn
  <2>4. h = Step(f, D(n + 1), h)
    <3> HIDE DEF D
    <3>1. \A U \in D(n + 1) : U # {} => h[U \ {Chosen(U)}] = g[U \ {Chosen(U)}]  BY <2>2, <2>3
    <3> HIDE DEF h
    <3>2. h = Step(f, D(n + 1), g)  BY DEF h
    <3> QED BY <3>1, <3>2 DEF Step
  <2>5. n + 1 \in Nat  OBVIOUS
  <2> HIDE DEF h, D
  <2> QED BY <2>4, <2>5
<1>3. T = Nat
  <2> HIDE DEF T
  <2>1. T \in SUBSET Nat  BY DEF T
  <2> QED BY <1>1, <1>2, <2>1, NatSetInduction
<1>4. Cardinality(S) \in T  BY <1>0, <1>3
<1>5. D(Cardinality(S)) = SUBSET S  BY <1>0, FS_Subset
<1> HIDE DEF D
<1> QED BY <1>4, <1>5

(* So the iteration satisfies its equation. *)
LEMMA SumIterStep ==
  ASSUME NEW f, NEW S, IsFiniteSet(S), NEW U \in SUBSET S
  PROVE  SumIter(f, S)[U] = IF U = {} THEN 0 ELSE f[Chosen(U)] + SumIter(f, S)[U \ {Chosen(U)}]
<1>1. SumIter(f, S) = Step(f, SUBSET S, SumIter(f, S))  BY SumIterExists DEF SumIter
<1> QED BY <1>1 DEF Step

(* The iteration of a larger set gives the same on a smaller one. *)
LEMMA SumItersAgree ==
  ASSUME NEW f, NEW S, IsFiniteSet(S), NEW T \in SUBSET S
  PROVE  SumIter(f, S)[T] = SumIter(f, T)[T]
<1> DEFINE g == SumIter(f, S)
           h == SumIter(f, T)
           N == {n \in Nat : \A U \in SUBSET T : Cardinality(U) = n => g[U] = h[U]}
<1>0. \A U \in SUBSET S : IsFiniteSet(U) /\ Cardinality(U) \in Nat  BY FS_Subset, FS_CardinalityType
<1>a. \A U \in SUBSET T : U \in SUBSET S  OBVIOUS
<1>e. \A U \in SUBSET T : /\ g[U] = IF U = {} THEN 0 ELSE f[Chosen(U)] + g[U \ {Chosen(U)}]
                          /\ h[U] = IF U = {} THEN 0 ELSE f[Chosen(U)] + h[U \ {Chosen(U)}]
  <2>1. IsFiniteSet(T)  BY <1>0
  <2>2. \A U \in SUBSET T : h[U] = IF U = {} THEN 0 ELSE f[Chosen(U)] + h[U \ {Chosen(U)}]
    BY <2>1, SumIterStep
  <2>3. \A U \in SUBSET S : g[U] = IF U = {} THEN 0 ELSE f[Chosen(U)] + g[U \ {Chosen(U)}]
    BY SumIterStep
  <2> HIDE DEF g, h
  <2> QED BY <1>a, <2>2, <2>3
<1> HIDE DEF g, h
<1>1. 0 \in N
  <2>1. \A U \in SUBSET T : Cardinality(U) = 0 => U = {}  BY <1>0, <1>a, FS_EmptySet
  <2> QED BY <2>1, <1>e
<1>2. ASSUME NEW n \in N PROVE n + 1 \in N
  <2>1. ASSUME NEW U \in SUBSET T, Cardinality(U) = n + 1 PROVE g[U] = h[U]
    <3>0. IsFiniteSet(U) /\ n \in Nat  BY <1>0, <1>a
    <3>1. U # {} /\ Chosen(U) \in U /\ Cardinality(U \ {Chosen(U)}) = n
      BY <2>1, <3>0, OneLess
    <3>2. U \ {Chosen(U)} \in SUBSET T /\ Cardinality(U \ {Chosen(U)}) = n
      BY <3>1
    <3>3. g[U \ {Chosen(U)}] = h[U \ {Chosen(U)}]  BY <3>2
    <3> QED BY <1>e, <3>1, <3>3
  <2> QED BY <2>1
<1>3. N = Nat
  <2> HIDE DEF N
  <2>1. N \in SUBSET Nat  BY DEF N
  <2> QED BY <1>1, <1>2, <2>1, NatSetInduction
<1>4. Cardinality(T) \in N  BY <1>0, <1>3
<1>5. g[T] = h[T]  BY <1>4
<1> QED BY <1>5 DEF g, h

(* The sum of a set is its chosen element and the sum of the rest. *)
LEMMA SumEquation ==
  ASSUME NEW f, NEW S, IsFiniteSet(S)
  PROVE  SumFunctionOnSet(f, S) =
           IF S = {} THEN 0
           ELSE f[Chosen(S)] + SumFunctionOnSet(f, S \ {Chosen(S)})
<1>1. S \in SUBSET S /\ S \ {Chosen(S)} \in SUBSET S  OBVIOUS
<1>2. SumIter(f, S)[S] = IF S = {} THEN 0 ELSE f[Chosen(S)] + SumIter(f, S)[S \ {Chosen(S)}]
  BY <1>1, SumIterStep
<1>3. SumIter(f, S)[S \ {Chosen(S)}] = SumIter(f, S \ {Chosen(S)})[S \ {Chosen(S)}]
  BY <1>1, SumItersAgree
<1> QED BY <1>2, <1>3, SumUnfold

(* What the sum is: an integer, nothing over the empty set, and any element *)
(* can be split off. *)
LEMMA SumType ==
  ASSUME NEW f, NEW S, IsFiniteSet(S), \A x \in S : f[x] \in Int
  PROVE  \A U \in SUBSET S : SumFunctionOnSet(f, U) \in Int
<1> DEFINE N == {n \in Nat : \A U \in SUBSET S : Cardinality(U) = n => SumFunctionOnSet(f, U) \in Int}
<1>0. \A U \in SUBSET S : IsFiniteSet(U) /\ Cardinality(U) \in Nat  BY FS_Subset, FS_CardinalityType
<1>1. 0 \in N
  <2>1. ASSUME NEW U \in SUBSET S, Cardinality(U) = 0 PROVE SumFunctionOnSet(f, U) = 0
    <3>1. U = {}  BY <1>0, <2>1, FS_EmptySet
    <3> QED BY <1>0, <3>1, SumEquation
  <2> QED BY <2>1
<1>2. ASSUME NEW n \in N PROVE n + 1 \in N
  <2>1. ASSUME NEW U \in SUBSET S, Cardinality(U) = n + 1 PROVE SumFunctionOnSet(f, U) \in Int
    <3>0. IsFiniteSet(U) /\ n \in Nat  BY <1>0
    <3>1. U # {} /\ Chosen(U) \in U /\ Cardinality(U \ {Chosen(U)}) = n
      BY <2>1, <3>0, OneLess
    <3>2. U \ {Chosen(U)} \in SUBSET S /\ Cardinality(U \ {Chosen(U)}) = n
      BY <3>1
    <3>3. SumFunctionOnSet(f, U \ {Chosen(U)}) \in Int  BY <3>2
    <3>4. f[Chosen(U)] \in Int  BY <3>1, ChosenIsIn
    <3>5. SumFunctionOnSet(f, U) = f[Chosen(U)] + SumFunctionOnSet(f, U \ {Chosen(U)})
      BY <1>0, <3>1, SumEquation
    <3> QED BY <3>3, <3>4, <3>5
  <2> QED BY <2>1
<1>3. N = Nat
  <2> HIDE DEF N
  <2>1. N \in SUBSET Nat  BY DEF N
  <2> QED BY <1>1, <1>2, <2>1, NatSetInduction
<1> QED BY <1>0, <1>3

(* The order in which elements are taken does not matter. *)
LEMMA SumSplit ==
  ASSUME NEW f, NEW S, IsFiniteSet(S), \A x \in S : f[x] \in Int
  PROVE  \A U \in SUBSET S : \A x \in U :
           SumFunctionOnSet(f, U) = f[x] + SumFunctionOnSet(f, U \ {x})
<1> DEFINE Sum(U) == SumFunctionOnSet(f, U)
           N == {n \in Nat : \A U \in SUBSET S : Cardinality(U) = n =>
                   \A x \in U : Sum(U) = f[x] + Sum(U \ {x})}
<1>0. \A U \in SUBSET S : IsFiniteSet(U) /\ Cardinality(U) \in Nat  BY FS_Subset, FS_CardinalityType
<1>t. \A U \in SUBSET S : Sum(U) \in Int  BY SumType
<1>e. \A U \in SUBSET S : U # {} => Sum(U) = f[Chosen(U)] + Sum(U \ {Chosen(U)})
  BY <1>0, SumEquation
<1> HIDE DEF Sum
<1>1. 0 \in N
  <2>1. \A U \in SUBSET S : Cardinality(U) = 0 => U = {}  BY <1>0, FS_EmptySet
  <2> QED BY <2>1
<1>2. ASSUME NEW n \in N PROVE n + 1 \in N
  <2>1. ASSUME NEW U \in SUBSET S, Cardinality(U) = n + 1, NEW x \in U
        PROVE  Sum(U) = f[x] + Sum(U \ {x})
    <3> DEFINE y == Chosen(U)
    <3>1. y \in U  BY ChosenIsIn
    <3>2. Sum(U) = f[y] + Sum(U \ {y})  BY <1>e, <3>1
    <3> HIDE DEF y
    <3>3. CASE x = y  BY <3>2, <3>3
    <3>4. CASE x # y
      <4>0. IsFiniteSet(U) /\ n \in Nat /\ Cardinality(U) = n + 1  BY <1>0, <2>1
      <4>c. \A z \in U : Cardinality(U \ {z}) = n  BY <4>0, OneLess
      <4>1. /\ U \ {y} \in SUBSET S /\ Cardinality(U \ {y}) = n /\ x \in U \ {y}
            /\ U \ {x} \in SUBSET S /\ Cardinality(U \ {x}) = n /\ y \in U \ {x}
        BY <4>c, <3>1, <3>4
      <4>2. Sum(U \ {y}) = f[x] + Sum((U \ {y}) \ {x})  BY <4>1
      <4>3. Sum(U \ {x}) = f[y] + Sum((U \ {x}) \ {y})  BY <4>1
      <4>4. (U \ {y}) \ {x} = (U \ {x}) \ {y}  OBVIOUS
      <4>5. (U \ {y}) \ {x} \in SUBSET S  OBVIOUS
      <4>6. /\ f[x] \in Int /\ f[y] \in Int /\ Sum((U \ {y}) \ {x}) \in Int
            /\ Sum(U \ {x}) \in Int
        BY <1>t, <3>1, <4>1, <4>5
      <4>7. Sum(U) = f[y] + (f[x] + Sum((U \ {y}) \ {x}))  BY <3>2, <4>2
      <4>8. Sum(U \ {x}) = f[y] + Sum((U \ {y}) \ {x})  BY <4>3, <4>4
      <4> HIDE DEF N
      <4> QED BY <4>6, <4>7, <4>8
    <3> QED BY <3>3, <3>4
  <2> QED BY <2>1
<1>3. N = Nat
  <2> HIDE DEF N
  <2>1. N \in SUBSET Nat  BY DEF N
  <2> QED BY <1>1, <1>2, <2>1, NatSetInduction
<1>4. \A U \in SUBSET S : \A x \in U : Sum(U) = f[x] + Sum(U \ {x})  BY <1>0, <1>3
<1> QED BY <1>4 DEF Sum

(* Of naturals the sum is a natural, no term exceeds it, and only zeros make zero. *)
LEMMA SumOfNaturals ==
  ASSUME NEW f, NEW S, IsFiniteSet(S), \A x \in S : f[x] \in Nat
  PROVE  /\ SumFunctionOnSet(f, S) \in Nat
         /\ \A x \in S : f[x] <= SumFunctionOnSet(f, S)
         /\ (\A x \in S : f[x] = 0) => SumFunctionOnSet(f, S) = 0
<1> DEFINE F(U) == SumFunctionOnSet(f, U)
           N == {n \in Nat : \A U \in SUBSET S : Cardinality(U) = n =>
                   F(U) \in Nat /\ ((\A x \in U : f[x] = 0) => F(U) = 0)}
<1>0. \A U \in SUBSET S : IsFiniteSet(U) /\ Cardinality(U) \in Nat  BY FS_Subset, FS_CardinalityType
<1>e. \A U \in SUBSET S : F(U) = IF U = {} THEN 0 ELSE f[Chosen(U)] + F(U \ {Chosen(U)})
  BY <1>0, SumEquation
<1>i. \A x \in S : f[x] \in Int  OBVIOUS
<1>s. \A U \in SUBSET S : \A x \in U : F(U) = f[x] + F(U \ {x})
  BY <1>i, SumSplit
<1> HIDE DEF F
<1>1. 0 \in N
  <2>1. \A U \in SUBSET S : Cardinality(U) = 0 => U = {}  BY <1>0, FS_EmptySet
  <2>2. F({}) = 0  BY <1>e
  <2> QED BY <2>1, <2>2
<1>2. ASSUME NEW n \in N PROVE n + 1 \in N
  <2>1. ASSUME NEW U \in SUBSET S, Cardinality(U) = n + 1
        PROVE  F(U) \in Nat /\ ((\A x \in U : f[x] = 0) => F(U) = 0)
    <3>0. IsFiniteSet(U) /\ n \in Nat  BY <1>0
    <3>1. U # {} /\ Chosen(U) \in U /\ Cardinality(U \ {Chosen(U)}) = n
      BY <2>1, <3>0, OneLess
    <3>2. U \ {Chosen(U)} \in SUBSET S /\ Cardinality(U \ {Chosen(U)}) = n
      BY <3>1
    <3>3. /\ F(U \ {Chosen(U)}) \in Nat
          /\ (\A x \in U \ {Chosen(U)} : f[x] = 0) => F(U \ {Chosen(U)}) = 0
      BY <3>2
    <3>4. f[Chosen(U)] \in Nat  BY <3>1
    <3>5. F(U) = f[Chosen(U)] + F(U \ {Chosen(U)})  BY <1>e, <3>1
    <3> HIDE DEF N
    <3>6. F(U) \in Nat  BY <3>3, <3>4, <3>5
    <3>7. (\A x \in U : f[x] = 0) => F(U) = 0  BY <3>1, <3>3, <3>4, <3>5
    <3> QED BY <3>6, <3>7
  <2> QED BY <2>1
<1>3. N = Nat
  <2> HIDE DEF N
  <2>1. N \in SUBSET Nat  BY DEF N
  <2> QED BY <1>1, <1>2, <2>1, NatSetInduction
<1>4. \A U \in SUBSET S : F(U) \in Nat /\ ((\A x \in U : f[x] = 0) => F(U) = 0)  BY <1>0, <1>3
<1>5. ASSUME NEW x \in S PROVE f[x] <= F(S)
  <2>1. F(S) = f[x] + F(S \ {x})  BY <1>s
  <2>2. F(S \ {x}) \in Nat /\ f[x] \in Nat  BY <1>4
  <2> QED BY <2>1, <2>2
<1> QED BY <1>4, <1>5 DEF F

(* What is summed over gaps that do not overlap is no more than the way from *)
(* before the first to after the last. *)
LEMMA Telescope ==
  ASSUME NEW S, NEW a \in [S -> Int], NEW m \in [S -> Int], NEW f,
         NEW P \in SUBSET (S \X S), IsFiniteSet(P),
         \A r, s \in S : a[r] = a[s] => r = s,
         \A r, s \in S : a[r] <= a[s] => m[r] <= m[s],
         \A p \in P : /\ f[p] \in Int /\ f[p] <= m[p[2]] - m[p[1]]
                      /\ a[p[1]] < a[p[2]]
                      /\ \A s \in S : a[s] <= a[p[1]] \/ a[p[2]] <= a[s],
         NEW b \in S, NEW t \in S, a[b] <= a[t],
         \A p \in P : a[b] <= a[p[1]] /\ a[p[2]] <= a[t]
  PROVE  SumFunctionOnSet(f, P) <= m[t] - m[b]
<1> DEFINE F(U) == SumFunctionOnSet(f, U)
           Bounded(Q) == \A e \in S : /\ a[b] <= a[e]
                                      /\ \A p \in Q : a[p[2]] <= a[e]
                                      => F(Q) <= m[e] - m[b]
           N == {n \in Nat : \A Q \in SUBSET P : Cardinality(Q) = n => Bounded(Q)}
<1>0. \A U \in SUBSET P : IsFiniteSet(U) /\ Cardinality(U) \in Nat  BY FS_Subset, FS_CardinalityType
<1>t. \A U \in SUBSET P : F(U) \in Int  BY SumType
<1>s. \A U \in SUBSET P : \A x \in U : F(U) = f[x] + F(U \ {x})
  BY SumSplit
<1>z. F({}) = 0  BY SumEquation, FS_EmptySet
<1>m. \A s \in S : a[s] \in Int /\ m[s] \in Int  OBVIOUS
<1>p. \A p \in P : p[1] \in S /\ p[2] \in S  OBVIOUS
<1> HIDE DEF F
<1>1. 0 \in N
  <2>1. \A U \in SUBSET P : Cardinality(U) = 0 => U = {}  BY <1>0, FS_EmptySet
  <2>2. Bounded({})
    <3> SUFFICES ASSUME NEW e \in S, a[b] <= a[e] PROVE F({}) <= m[e] - m[b]  OBVIOUS
    <3>1. m[b] <= m[e]  OBVIOUS
    <3> QED BY <1>z, <1>m, <3>1
  <2> HIDE DEF Bounded
  <2> QED BY <2>1, <2>2
<1>2. ASSUME NEW n \in N PROVE n + 1 \in N
  <2>1. ASSUME NEW Q \in SUBSET P, Cardinality(Q) = n + 1 PROVE Bounded(Q)
    <3> SUFFICES ASSUME NEW e \in S, a[b] <= a[e], \A p \in Q : a[p[2]] <= a[e]
                 PROVE  F(Q) <= m[e] - m[b]
      OBVIOUS
    <3>0. IsFiniteSet(Q) /\ n \in Nat  BY <1>0
    <3>1. Q # {} /\ \A x \in Q : Cardinality(Q \ {x}) = n
      BY <2>1, <3>0, OneLess
    <3> DEFINE E == {a[p[2]] : p \in Q}
    <3>2. E \in SUBSET Int /\ E # {}  BY <1>m, <1>p, <3>1
    <3>3. IsFiniteSet(E)
      <4> DEFINE ends == [p \in Q |-> a[p[2]]]
      <4>1. ends \in Surjection(Q, E)  BY DEF Surjection
      <4> HIDE DEF ends, E
      <4> QED BY <3>0, <4>1, FS_Surjection
    <3>4. PICK q \in Q : \A p \in Q : a[p[2]] <= a[q[2]]
      <4>1. PICK z \in E : \A x \in E : x <= z
        <5> HIDE DEF E
        <5> QED BY <3>2, <3>3, FiniteMaximum
      <4> QED BY <4>1
    <3>5. q \in P /\ q[1] \in S /\ q[2] \in S  BY <1>p
    <3>6. \A p \in Q \ {q} : a[p[2]] <= a[q[1]]
      <4> SUFFICES ASSUME NEW p \in Q, p # q PROVE a[p[2]] <= a[q[1]]  OBVIOUS
      <4>1. p \in P /\ p[1] \in S /\ p[2] \in S /\ p \in S \X S /\ q \in S \X S  BY <1>p
      <4>2. a[p[2]] <= a[q[1]] \/ a[q[2]] <= a[p[2]]  BY <3>5, <4>1
      <4>3. CASE a[q[2]] <= a[p[2]]
        <5>1. a[p[2]] = a[q[2]]  BY <1>m, <3>4, <3>5, <4>1, <4>3
        <5>2. p[2] = q[2]  BY <3>5, <4>1, <5>1
        <5>3. a[q[1]] <= a[p[1]] \/ a[p[2]] <= a[q[1]]  BY <3>5, <4>1
        <5>4. a[p[1]] <= a[q[1]] \/ a[q[2]] <= a[p[1]]  BY <3>5, <4>1
        <5>5. a[q[1]] < a[q[2]] /\ a[p[1]] < a[p[2]]  BY <3>5, <4>1
        <5>6. a[q[1]] = a[p[1]]  BY <1>m, <3>5, <4>1, <5>1, <5>3, <5>4, <5>5
        <5>7. p[1] = q[1]  BY <3>5, <4>1, <5>6
        <5>8. p = q  BY <4>1, <5>2, <5>7
        <5> QED BY <5>8
      <4> QED BY <4>2, <4>3
    <3>7. Bounded(Q \ {q})
      <4>1. Q \ {q} \in SUBSET P /\ Cardinality(Q \ {q}) = n  BY <3>1
      <4> HIDE DEF Bounded
      <4> QED BY <4>1
    <3>8. a[b] <= a[q[1]]  BY <3>5
    <3>9. F(Q \ {q}) <= m[q[1]] - m[b]  BY <3>5, <3>6, <3>7, <3>8
    <3>10. F(Q) = f[q] + F(Q \ {q})  BY <1>s
    <3>11. f[q] \in Int /\ f[q] <= m[q[2]] - m[q[1]]  BY <3>5
    <3>12. m[q[2]] <= m[e]  BY <3>5
    <3>13. Q \ {q} \in SUBSET P  OBVIOUS
    <3>14. F(Q \ {q}) \in Int  BY <1>t, <3>13
    <3>15. m[q[1]] \in Int /\ m[q[2]] \in Int /\ m[b] \in Int /\ m[e] \in Int  BY <1>m, <3>5
    <3> HIDE DEF N, Bounded, E
    <3> QED BY <3>9, <3>10, <3>11, <3>12, <3>14, <3>15
  <2> QED BY <2>1
<1>3. N = Nat
  <2> HIDE DEF N
  <2>1. N \in SUBSET Nat  BY DEF N
  <2> QED BY <1>1, <1>2, <2>1, NatSetInduction
<1>4. Cardinality(P) \in N /\ P \in SUBSET P  BY <1>0, <1>3
<1>5. Bounded(P)
  <2> HIDE DEF Bounded
  <2> QED BY <1>4
<1>6. F(P) <= m[t] - m[b]  BY <1>5
<1> QED BY <1>6 DEF F

-----------------------------------------------------------------------------
(* Rounding, as the code rounds: halves go up. *)

(* Division, by the two bounds that define it. *)
LEMMA DivBounds ==
  ASSUME NEW a \in Int, NEW d \in Nat \ {0}
  PROVE  /\ a \div d \in Int
         /\ d * (a \div d) <= a
         /\ a < d * (a \div d) + d
  OBVIOUS

(* A rounded quotient is within half of the exact one. *)
LEMMA RoundBounds ==
  ASSUME NEW a \in Int, NEW d \in Nat \ {0}
  PROVE  /\ Round(a, d) \in Int
         /\ 2 * d * Round(a, d) <= 2 * a + d
         /\ 2 * a + d < 2 * d * Round(a, d) + 2 * d
<1> DEFINE x == 2 * a + d
           e == 2 * d
<1>1. x \in Int /\ e \in Nat \ {0}  OBVIOUS
<1> HIDE DEF x, e
<1>2. x \div e \in Int /\ e * (x \div e) <= x /\ x < e * (x \div e) + e  BY <1>1, DivBounds
<1> QED BY <1>2 DEF Round, x, e

(* Products keep an order. *)
LEMMA MulMono ==
  ASSUME NEW k \in Nat, NEW a \in Int, NEW b \in Int, a <= b
  PROVE  k * a <= k * b
  OBVIOUS

(* A rounded quotient of naturals is one. *)
LEMMA RoundNat ==
  ASSUME NEW a \in Nat, NEW d \in Nat \ {0}
  PROVE  Round(a, d) \in Nat
<1>1. Round(a, d) \in Int /\ 2 * a + d < 2 * d * Round(a, d) + 2 * d  BY RoundBounds
<1>2. CASE Round(a, d) < 0
  <2>1. Round(a, d) <= -1 BY <1>1, <1>2
  <2>2. (2 * d) * Round(a, d) <= (2 * d) * (-1)
    <3> DEFINE e == 2 * d
               r == Round(a, d)
    <3>1. e \in Nat /\ r \in Int /\ r <= -1  BY <1>1, <2>1
    <3> HIDE DEF e, r
    <3>2. e * r <= e * (-1)  BY <3>1, MulMono
    <3> QED BY <3>2 DEF e, r
  <2> QED BY <1>1, <2>2
<1> QED BY <1>1, <1>2

(* A clamped value is in its range, and is itself if it was. *)
LEMMA ClampBounds ==
  ASSUME NEW v \in Int, NEW lo \in Int, NEW hi \in Int, lo <= hi
  PROVE  Clamp(v, lo, hi) \in lo..hi /\ (v \in lo..hi => Clamp(v, lo, hi) = v)
BY DEF Clamp

(* The unit of the thousandths. *)
LEMMA MilliType ==
  /\ Milli \in Nat \ {0} /\ 100 * Milli \in Nat /\ 100 * Milli \in Int
  /\ 0 <= Milli /\ 0 <= 100 * Milli
BY DEF Milli

-----------------------------------------------------------------------------
(* The inductive invariant. *)

Kinds == {Quota[q].kind : q \in DOMAIN Quota} \cup {"credit", "spendingCredits"}
Bases == {Quota[q].base : q \in DOMAIN Quota} \cup {""}

(* An item as a poll of p leaves it in the cache, and as failures mark it. *)
Item ==
  [provider : ProviderIds, id : DOMAIN Quota \cup {CreditId}, unit : {"percent", "credits"},
   window : Kinds, kind : Kinds, resetAt : Nat, resetMs : {0, 1}, limit : {0, 100}, used : 0..100,
   remaining : Nat, percentUsed : 0..100, state : {"fresh", "stale"},
   severity : {"ok", "warning", "critical"}, failed : BOOLEAN, visible : {TRUE}, bank : BOOLEAN,
   tiers : {{}}, tags : {{}}, base : Bases]

WindowShape(i) ==
  /\ i.unit = "percent" /\ i.window = Quota[i.id].kind /\ i.kind = Quota[i.id].kind
  /\ i.resetAt > 0 /\ (~Quota[i.id].relative => i.resetMs = 0)
  /\ i.limit = 100 /\ i.remaining = 100 - i.used /\ i.percentUsed = i.used
  /\ i.bank = Quota[i.id].bank /\ i.base = Quota[i.id].base

CreditShape(i) ==
  /\ i.provider = "chatgpt" /\ i.unit = "credits" /\ i.window = "spendingCredits" /\ i.kind = "credit"
  /\ i.resetAt = 0 /\ i.resetMs = 0 /\ i.limit = 0 /\ i.used = 0 /\ i.remaining = balance
  /\ i.percentUsed = 0 /\ ~i.bank /\ i.base = ""

ItemShape(i, p) ==
  /\ i \in Item /\ i.provider = p
  /\ IF i.id = CreditId THEN CreditShape(i) ELSE i.id \in Windows(p) /\ WindowShape(i)

UpstreamInv ==
  /\ now \in Nat \ {0} /\ balance \in Balances
  /\ upstream \in [DOMAIN Quota -> [used : 0..100, resetAt : Nat, burned : Nat]]
  /\ \A q \in DOMAIN Quota : upstream[q].resetAt > now

(* A provider's items are of one successful poll; all are stale after a failed *)
(* one. *)
CacheInv ==
  /\ cache \in [ProviderIds -> [items : SUBSET Item, staleAt : Nat, nextRefreshAt : Nat,
                               failed : BOOLEAN, at : Nat]]
  /\ \A p \in ProviderIds :
     /\ IsFiniteSet(cache[p].items)
     /\ \A i \in cache[p].items : ItemShape(i, p)
     /\ \A i, j \in cache[p].items : i.id = j.id => i = j
     /\ cache[p].at <= now /\ (cache[p].at > 0 => cache[p].at < cache[p].nextRefreshAt)
     /\ cache[p].items # {} => cache[p].staleAt = cache[p].at + StaleAfter
     /\ cache[p].failed => \A i \in cache[p].items : i.state = "stale"

(* A sample is what a poll saw. *)
SampleShape(s) ==
  /\ s.provider \in ProviderIds /\ s.id \in Windows(s.provider) \cup {CreditId}
  /\ s.at \in Nat /\ s.at <= cache[s.provider].at
  /\ s.used \in 0..100 /\ s.burned \in Nat /\ s.resetAt \in Nat /\ s.remaining \in Nat
  /\ IF s.id = CreditId
     THEN /\ s.provider = "chatgpt" /\ s.unit = "credits" /\ s.window = "spendingCredits"
          /\ s.kind = "credit" /\ s.resetAt = 0 /\ s.used = 0 /\ s.burned = 0 /\ s.remaining = balance
     ELSE /\ s.unit = "percent" /\ s.window = Quota[s.id].kind /\ s.kind = Quota[s.id].kind
          /\ s.resetAt > 0 /\ (~Quota[s.id].relative => s.resetMs = 0) /\ s.remaining = 100 - s.used

SampleInv == IsFiniteSet(samples) /\ \A s \in samples : SampleShape(s)

(* The samples of a series have different times, and are few enough. *)
SeriesInv ==
  /\ \A r, s \in samples : r.id = s.id /\ r.at = s.at => r = s
  /\ \A s \in samples : Cardinality({r \in samples : SeriesKey(r) = SeriesKey(s)}) <= MaxPerSeries

(* Between two samples of a window, and between a sample and now, the counter *)
(* rose by no more than was consumed. *)
BurnInv ==
  /\ \A s \in samples : s.id # CreditId =>
       /\ upstream[s.id].used - s.used <= upstream[s.id].burned - s.burned
       /\ s.burned <= upstream[s.id].burned
  /\ \A r, s \in samples : r.id = s.id /\ r.at < s.at =>
       s.used - r.used <= s.burned - r.burned /\ r.burned <= s.burned

(* Of a cached item whose series has samples, the newest is of the poll that *)
(* filled the cache. *)
NewestInv ==
  \A p \in ProviderIds : \A i \in cache[p].items : \A s \in samples :
    s.id = i.id => \E c \in samples : /\ c.id = i.id /\ c.at = cache[p].at /\ c.used = i.used
                                      /\ c.resetAt = i.resetAt /\ c.resetMs = i.resetMs

IInv == UpstreamInv /\ CacheInv /\ SampleInv /\ SeriesInv /\ BurnInv /\ NewestInv

-----------------------------------------------------------------------------
(* What pruning keeps of a series. *)

(* Pruning invents nothing. *)
LEMMA PruneIsSubset ==
  ASSUME NEW S, NEW cutoff, NEW max
  PROVE  PruneSamples(S, cutoff, max) \subseteq S
BY DEF PruneSamples

(* The newest of a series is kept if any of it is. *)
LEMMA PruneKeepsNewest ==
  ASSUME NEW S, NEW cutoff \in Int, NEW max \in Nat \ {0},
         NEW s \in PruneSamples(S, cutoff, max), NEW c \in S,
         \A r \in S : r.at \in Int,
         \A r \in S : SeriesKey(r) = SeriesKey(c) => r.at <= c.at,
         s.at <= c.at
  PROVE  c \in PruneSamples(S, cutoff, max)
<1> DEFINE kept == {r \in S : r.at >= cutoff}
<1>1. s.at >= cutoff /\ s \in S  BY DEF PruneSamples
<1>2. c \in kept  BY <1>1
<1>3. Newer(kept, c) = {}  BY DEF Newer
<1>4. Cardinality(Newer(kept, c)) < max  BY <1>3, FS_EmptySet
<1> QED BY <1>2, <1>4 DEF PruneSamples

OfSeries(S, k) == {r \in S : SeriesKey(r) = k}

(* No more than `max` of a series are kept: counting the newer ones numbers *)
(* them. *)
LEMMA PruneBound ==
  ASSUME NEW S, IsFiniteSet(S), NEW cutoff \in Int, NEW max \in Nat \ {0}, NEW k,
         \A r \in S : r.at \in Int,
         \A r, s \in S : SeriesKey(r) = SeriesKey(s) /\ r.at = s.at => r = s
  PROVE  Cardinality(OfSeries(PruneSamples(S, cutoff, max), k)) <= max
<1> DEFINE kept == {r \in S : r.at >= cutoff}
           A == {r \in PruneSamples(S, cutoff, max) : SeriesKey(r) = k}
           rank == [r \in A |-> Cardinality(Newer(kept, r))]
<1>1. A \subseteq kept /\ kept \subseteq S  BY DEF PruneSamples
<1>2. \A r \in kept : IsFiniteSet(Newer(kept, r)) /\ Cardinality(Newer(kept, r)) \in Nat
  BY <1>1, FS_Subset, FS_CardinalityType DEF Newer
<1>3. \A r \in A : Cardinality(Newer(kept, r)) < max  BY DEF PruneSamples
<1>4. ASSUME NEW r \in A, NEW s \in A, r.at < s.at
      PROVE  Cardinality(Newer(kept, s)) # Cardinality(Newer(kept, r))
  <2>1. SeriesKey(r) = k /\ SeriesKey(s) = k /\ r \in kept /\ s \in kept  BY <1>1
  <2>2. Newer(kept, s) \in SUBSET Newer(kept, r)
    BY <1>4, <2>1 DEF Newer
  <2>3. s \in Newer(kept, r) /\ s \notin Newer(kept, s)  BY <1>4, <2>1 DEF Newer
  <2>4. Newer(kept, s) # Newer(kept, r)  BY <2>3
  <2> HIDE DEF kept
  <2> QED BY <1>2, <2>1, <2>2, <2>4, FS_Subset
<1>5. rank \in Injection(A, 0..(max - 1))
  <2>1. rank \in [A -> 0..(max - 1)]
    <3> HIDE DEF kept, A
    <3> QED BY <1>1, <1>2, <1>3
  <2>2. ASSUME NEW r \in A, NEW s \in A, rank[r] = rank[s] PROVE r = s
    <3>1. SeriesKey(r) = SeriesKey(s) /\ r \in S /\ s \in S  BY <1>1
    <3>2. r.at \in Int /\ s.at \in Int  BY <3>1
    <3>3. ~(r.at < s.at) /\ ~(s.at < r.at)
      <4> HIDE DEF A, kept
      <4>1. Cardinality(Newer(kept, s)) = Cardinality(Newer(kept, r))  BY <2>2
      <4> QED BY <1>4, <4>1
    <3> QED BY <3>1, <3>2, <3>3
  <2> HIDE DEF A, rank
  <2> QED BY <2>1, <2>2 DEF Injection, IsInjective
<1>6. IsFiniteSet(0..(max - 1)) /\ Cardinality(0..(max - 1)) = max
  BY FS_Interval
<1> HIDE DEF rank
<1>7. Cardinality(A) <= Cardinality(0..(max - 1))
  <2> HIDE DEF A
  <2> QED BY <1>5, <1>6, FS_Injection
<1> QED BY <1>6, <1>7 DEF OfSeries

-----------------------------------------------------------------------------
(* The shape of what a poll reads, and of what a failure leaves. *)

(* The values of a function on a finite set are finitely many. *)
LEMMA ImageIsFinite ==
  ASSUME NEW S, IsFiniteSet(S), NEW f
  PROVE  IsFiniteSet({f[x] : x \in S})
<1> DEFINE T == {f[x] : x \in S}
           g == [x \in S |-> f[x]]
<1>1. g \in Surjection(S, T)  BY DEF Surjection
<1> HIDE DEF T, g
<1> QED BY <1>1, FS_Surjection DEF T

(* What a poll of p reads is a fresh item of its shape. *)
LEMMA WindowItemShape ==
  ASSUME UpstreamInv, NEW p \in ProviderIds, NEW q \in Windows(p), NEW ms \in {0, 1}
  PROVE  LET i == WindowItem(q, ms)
         IN  /\ ItemShape(i, p) /\ i.id = q /\ i.state = "fresh" /\ ~i.failed
             /\ i.used = upstream[q].used /\ i.resetAt = upstream[q].resetAt
<1> DEFINE i == WindowItem(q, ms)
<1>1. q \in DOMAIN Quota /\ Quota[q].provider = p  BY DEF Windows
<1>2. /\ upstream[q].used \in 0..100 /\ upstream[q].resetAt \in Nat /\ upstream[q].resetAt > 0
  BY <1>1 DEF UpstreamInv
<1>3. Quota[q].bank \in BOOLEAN /\ Quota[q].relative \in BOOLEAN /\ q # CreditId
  BY <1>1, AdviceAssumption
<1>4. SeverityForPercent(upstream[q].used) \in {"ok", "warning", "critical"}
  BY DEF SeverityForPercent
<1>5. Quota[q].kind \in Kinds /\ Quota[q].base \in Bases  BY <1>1 DEF Kinds, Bases
<1>6. i \in Item
  BY <1>1, <1>2, <1>3, <1>4, <1>5 DEF WindowItem, Item
<1>7. WindowShape(i)
  BY <1>1, <1>2, <1>3 DEF WindowItem, WindowShape
<1> QED BY <1>1, <1>3, <1>6, <1>7 DEF ItemShape, WindowItem

(* So is the credit balance. *)
LEMMA CreditItemShape ==
  ASSUME UpstreamInv, "chatgpt" \in ProviderIds
  PROVE  /\ ItemShape(SpendingCreditsItem, "chatgpt") /\ SpendingCreditsItem.id = CreditId
         /\ SpendingCreditsItem.state = "fresh" /\ ~SpendingCreditsItem.failed
<1>1. balance \in Nat  BY AdviceAssumption DEF UpstreamInv
<1>2. SpendingCreditsItem \in Item  BY <1>1 DEF SpendingCreditsItem, Item, Kinds, Bases
<1>3. CreditShape(SpendingCreditsItem)  BY DEF SpendingCreditsItem, CreditShape
<1> QED BY <1>2, <1>3 DEF ItemShape, SpendingCreditsItem

(* A poll reads finitely many items, one of each id. *)
LEMMA NormalizeShape ==
  ASSUME UpstreamInv, NEW p \in ProviderIds, NEW ms \in {0, 1}
  PROVE  /\ IsFiniteSet(Normalize(p, ms))
         /\ \A i \in Normalize(p, ms) :
              /\ ItemShape(i, p) /\ i.state = "fresh" /\ ~i.failed
              /\ i.id # CreditId => i.used = upstream[i.id].used /\ i.resetAt = upstream[i.id].resetAt
         /\ \A i, j \in Normalize(p, ms) : i.id = j.id => i = j
<1> DEFINE W == {WindowItem(q, ms) : q \in Windows(p)}
<1>1. IsFiniteSet(Windows(p))  BY AdviceAssumption, FS_Subset DEF Windows
<1>2. IsFiniteSet(W)
  <2> DEFINE f == [q \in Windows(p) |-> WindowItem(q, ms)]
  <2>1. W = {f[q] : q \in Windows(p)}  OBVIOUS
  <2>2. IsFiniteSet({f[q] : q \in Windows(p)})
    <3> HIDE DEF f
    <3> QED BY <1>1, ImageIsFinite
  <2> QED BY <2>1, <2>2
<1>3. IsFiniteSet(Normalize(p, ms))
  <2>1. IsFiniteSet({SpendingCreditsItem}) /\ IsFiniteSet({})  BY FS_Singleton, FS_EmptySet
  <2> HIDE DEF W
  <2>2. Normalize(p, ms) = W \cup (IF p = "chatgpt" THEN {SpendingCreditsItem} ELSE {})
    BY DEF Normalize, W
  <2> QED BY <1>2, <2>1, <2>2, FS_Union
<1>4. \A q \in Windows(p) : q # CreditId /\ WindowItem(q, ms).id = q
  BY AdviceAssumption DEF Windows, WindowItem
<1>5. \A i \in Normalize(p, ms) : \/ i.id \in Windows(p) /\ i = WindowItem(i.id, ms)
                                  \/ p = "chatgpt" /\ i = SpendingCreditsItem /\ i.id = CreditId
  BY <1>4, CreditItemShape DEF Normalize
<1>6. \A i, j \in Normalize(p, ms) : i.id = j.id => i = j
  BY <1>4, <1>5
<1>7. ASSUME NEW i \in Normalize(p, ms)
      PROVE  /\ ItemShape(i, p) /\ i.state = "fresh" /\ ~i.failed
             /\ i.id # CreditId => i.used = upstream[i.id].used /\ i.resetAt = upstream[i.id].resetAt
  <2>1. CASE i.id \in Windows(p) /\ i = WindowItem(i.id, ms)
    BY <2>1, WindowItemShape
  <2>2. CASE p = "chatgpt" /\ i = SpendingCreditsItem /\ i.id = CreditId
    BY <2>2, CreditItemShape
  <2> QED BY <1>5, <2>1, <2>2
<1> QED BY <1>3, <1>6, <1>7

(* Marking an item as stale touches nothing else of it. *)
LEMMA MarkStaleShape ==
  ASSUME NEW i \in Item, NEW f \in BOOLEAN
  PROVE  LET j == MarkStale(i, f)
         IN  /\ j \in Item /\ j.state = "stale"
             /\ j.provider = i.provider /\ j.id = i.id /\ j.unit = i.unit /\ j.window = i.window
             /\ j.kind = i.kind /\ j.resetAt = i.resetAt /\ j.resetMs = i.resetMs
             /\ j.limit = i.limit /\ j.used = i.used /\ j.remaining = i.remaining
             /\ j.percentUsed = i.percentUsed /\ j.visible = i.visible /\ j.bank = i.bank
             /\ j.tiers = i.tiers /\ j.tags = i.tags /\ j.base = i.base
<1>1. i.failed \in BOOLEAN /\ i.severity \in {"ok", "warning", "critical"}  BY DEF Item
<1>2. (i.failed \/ f) \in BOOLEAN  OBVIOUS
<1>3. \A b \in BOOLEAN, v \in {"ok", "warning", "critical"} :
        [i EXCEPT !.state = "stale", !.failed = b, !.severity = v] \in Item
  BY DEF Item
<1>4. MarkStale(i, f) \in Item  BY <1>1, <1>2, <1>3 DEF MarkStale
<1>5. MarkStale(i, f).state = "stale"  BY DEF MarkStale, Item
<1>6. LET j == MarkStale(i, f)
      IN  /\ j.provider = i.provider /\ j.id = i.id /\ j.unit = i.unit /\ j.window = i.window
          /\ j.kind = i.kind /\ j.resetAt = i.resetAt /\ j.resetMs = i.resetMs
          /\ j.limit = i.limit /\ j.used = i.used /\ j.remaining = i.remaining
          /\ j.percentUsed = i.percentUsed /\ j.visible = i.visible /\ j.bank = i.bank
          /\ j.tiers = i.tiers /\ j.tags = i.tags /\ j.base = i.base
  BY DEF MarkStale, Item
<1> QED BY <1>4, <1>5, <1>6

(* So a marked item has the shape it had. *)
LEMMA MarkedItemShape ==
  ASSUME NEW p, NEW i, ItemShape(i, p), NEW f \in BOOLEAN
  PROVE  ItemShape(MarkStale(i, f), p)
<1>1. i \in Item  BY DEF ItemShape
<1> DEFINE j == MarkStale(i, f)
<1>2. /\ j \in Item /\ j.state = "stale"
      /\ j.provider = i.provider /\ j.id = i.id /\ j.unit = i.unit /\ j.window = i.window
      /\ j.kind = i.kind /\ j.resetAt = i.resetAt /\ j.resetMs = i.resetMs
      /\ j.limit = i.limit /\ j.used = i.used /\ j.remaining = i.remaining
      /\ j.percentUsed = i.percentUsed /\ j.visible = i.visible /\ j.bank = i.bank
      /\ j.tiers = i.tiers /\ j.tags = i.tags /\ j.base = i.base
  BY <1>1, MarkStaleShape
<1> HIDE DEF j
<1>3. CreditShape(i) => CreditShape(j)  BY <1>2 DEF CreditShape
<1>4. WindowShape(i) => WindowShape(j)  BY <1>2 DEF WindowShape
<1>5. ItemShape(j, p)  BY <1>1, <1>2, <1>3, <1>4 DEF ItemShape
<1> QED BY <1>5 DEF j

-----------------------------------------------------------------------------
(* Every action keeps the invariant. *)

(* Nothing is cached or sampled at first. *)
LEMMA InitInv == Init => IInv
<1> SUFFICES ASSUME Init PROVE IInv  OBVIOUS
<1>1. UpstreamInv
  <2>1. \A q \in DOMAIN Quota : Quota[q].span \in Nat \ {0}  BY AdviceAssumption
  <2> QED BY <2>1 DEF Init, UpstreamInv
<1>2. CacheInv
  <2>1. \A p \in ProviderIds : cache[p] = NoSnapshot  BY DEF Init
  <2>2. NoSnapshot \in [items : SUBSET Item, staleAt : Nat, nextRefreshAt : Nat,
                        failed : BOOLEAN, at : Nat]
    BY DEF NoSnapshot
  <2>3. cache \in [ProviderIds -> [items : SUBSET Item, staleAt : Nat, nextRefreshAt : Nat,
                                   failed : BOOLEAN, at : Nat]]
    BY <2>2 DEF Init
  <2>4. IsFiniteSet({}) /\ now = 1  BY FS_EmptySet DEF Init
  <2>5. \A p \in ProviderIds : cache[p].items = {} /\ cache[p].at = 0 /\ cache[p].failed = FALSE
    BY <2>1 DEF NoSnapshot
  <2> QED BY <2>3, <2>4, <2>5 DEF CacheInv
<1>3. samples = {}  BY DEF Init
<1>4. IsFiniteSet({})  BY FS_EmptySet
<1> QED BY <1>1, <1>2, <1>3, <1>4 DEF IInv, SampleInv, SeriesInv, BurnInv, NewestInv

(* Shapes depend on the state only through what a step rarely changes. *)
LEMMA ShapesStable ==
  ASSUME balance' = balance
  PROVE  /\ \A i, p : ItemShape(i, p) => ItemShape(i, p)'
         /\ \A s : SampleShape(s) /\ cache'[s.provider].at \in Nat /\ cache[s.provider].at \in Nat
                     /\ cache'[s.provider].at >= cache[s.provider].at => SampleShape(s)'
<1>1. ASSUME NEW i, NEW p, ItemShape(i, p) PROVE ItemShape(i, p)'
  BY <1>1 DEF ItemShape, CreditShape, WindowShape, Item, Windows, Kinds, Bases, ProviderIds
<1>2. ASSUME NEW s, SampleShape(s), cache'[s.provider].at \in Nat, cache[s.provider].at \in Nat,
             cache'[s.provider].at >= cache[s.provider].at
      PROVE  SampleShape(s)'
  <2>1. s.at \in Nat /\ s.at <= cache'[s.provider].at  BY <1>2 DEF SampleShape
  <2> QED BY <1>2, <2>1 DEF SampleShape, Windows, ProviderIds
<1> QED BY <1>1, <1>2

(* Time and use: the counters rise by what is consumed, or start again. *)
LEMMA TickInv ==
  ASSUME IInv, NEW d \in Steps, NEW busy \in Usages, Tick(d, busy)
  PROVE  IInv'
<1>1. /\ now' = now + d /\ balance' = balance /\ cache' = cache /\ samples' = samples
      /\ d \in Nat \ {0} /\ now \in Nat \ {0}
  BY AdviceAssumption DEF Tick, IInv, UpstreamInv
<1>2. ASSUME NEW q \in DOMAIN Quota
      PROVE  /\ upstream'[q].used \in 0..100 /\ upstream'[q].resetAt \in Nat
             /\ upstream'[q].burned \in Nat /\ upstream'[q].resetAt > now + d
             /\ upstream'[q].burned >= upstream[q].burned
             /\ upstream'[q].used - upstream[q].used <= upstream'[q].burned - upstream[q].burned
             /\ upstream'[q] = [used |-> upstream'[q].used, burned |-> upstream'[q].burned,
                                resetAt |-> upstream'[q].resetAt]
  <2> DEFINE u     == upstream[q]
             span  == Quota[q].span
             ended == u.resetAt <= now + d
             used  == IF ended THEN 0 ELSE u.used
             n     == IF Quota[q].provider \in busy THEN Smaller(Quota[q].burn, 100 - used) ELSE 0
             reset == IF ended THEN u.resetAt + span * (1 + (now + d - u.resetAt) \div span)
                      ELSE u.resetAt
  <2>1. u.used \in 0..100 /\ u.resetAt \in Nat /\ u.burned \in Nat  BY DEF IInv, UpstreamInv
  <2>2. span \in Nat \ {0} /\ Quota[q].burn \in Nat \ {0}  BY AdviceAssumption
  <2>3. upstream'[q] = [used |-> used + n, burned |-> u.burned + n, resetAt |-> reset]
    BY DEF Tick
  <2>4. n \in 0..100 /\ used + n \in 0..100 /\ used \in 0..100 /\ used <= u.used
    <3>1. used \in 0..100 /\ used <= u.used  BY <2>1
    <3> HIDE DEF used
    <3>2. \A b \in Nat \ {0} : Smaller(b, 100 - used) \in 0..(100 - used)  BY <3>1 DEF Smaller
    <3>3. n \in 0..(100 - used)  BY <2>2, <3>1, <3>2
    <3> HIDE DEF n
    <3> QED BY <3>1, <3>3
  <2>5. reset \in Nat /\ reset > now + d
    <3>1. CASE ~ended
      BY <1>1, <2>1, <3>1
    <3>2. CASE ended
      <4> DEFINE a == now + d - u.resetAt
                 z == a \div span
      <4>1. a \in Nat  BY <1>1, <2>1, <3>2
      <4>2. z \in Int /\ span * z <= a /\ a < span * z + span
        <5> HIDE DEF a, span
        <5> QED BY <2>2, <4>1, DivBounds
      <4>3. reset = u.resetAt + span * (1 + z)  BY <3>2
      <4>4. span * (1 + z) = span * z + span /\ span * z \in Int
        <5>1. \A x \in Nat \ {0}, y \in Int : x * (1 + y) = x * y + x /\ x * y \in Int  OBVIOUS
        <5> HIDE DEF z, span
        <5> QED BY <2>2, <4>2, <5>1
      <4>6. reset = u.resetAt + span * z + span  BY <2>1, <2>2, <4>3, <4>4
      <4> HIDE DEF z, reset, span
      <4> QED BY <1>1, <2>1, <2>2, <4>1, <4>2, <4>4, <4>6
    <3> QED BY <3>1, <3>2
  <2> HIDE DEF n, used, reset
  <2>6. /\ upstream'[q].used = used + n /\ upstream'[q].burned = u.burned + n
        /\ upstream'[q].resetAt = reset
    BY <2>3
  <2>7. upstream'[q] = [used |-> upstream'[q].used, burned |-> upstream'[q].burned,
                        resetAt |-> upstream'[q].resetAt]
    BY <2>3, <2>6
  <2>8. u.burned + n \in Nat /\ u.burned + n >= u.burned
        /\ (used + n) - u.used <= (u.burned + n) - u.burned
    <3>1. \A a \in Nat, b \in 0..100, x \in 0..100, y \in 0..100 : y <= x =>
             a + b \in Nat /\ a + b >= a /\ (y + b) - x <= (a + b) - a
      OBVIOUS
    <3> QED BY <2>1, <2>4, <3>1
  <2> QED BY <2>4, <2>5, <2>6, <2>7, <2>8
<1>3. UpstreamInv'
  <2>1. upstream' \in [DOMAIN Quota -> [used : 0..100, resetAt : Nat, burned : Nat]]
    <3>1. DOMAIN upstream' = DOMAIN Quota
          /\ upstream' = [q \in DOMAIN Quota |-> upstream'[q]]
      BY DEF Tick
    <3> QED BY <1>2, <3>1
  <2> QED BY <1>1, <1>2, <2>1 DEF IInv, UpstreamInv
<1>4. CacheInv'
  <2>1. \A i, p : ItemShape(i, p) => ItemShape(i, p)'  BY <1>1, ShapesStable
  <2>2. Item' = Item  BY DEF Item, Kinds, Bases, ProviderIds
  <2>3. \A p \in ProviderIds : cache[p].at \in Nat /\ cache[p].at <= now  BY DEF IInv, CacheInv
  <2>4. \A p \in ProviderIds : cache[p].at <= now + d  BY <1>1, <2>3
  <2> QED BY <1>1, <2>1, <2>2, <2>4 DEF IInv, CacheInv, ProviderIds
<1>5. SampleInv' /\ SeriesInv'
  <2>1. \A s \in samples : s.provider \in ProviderIds /\ cache[s.provider].at \in Nat
    BY DEF IInv, SampleInv, SampleShape, CacheInv
  <2>2. \A s \in samples : SampleShape(s)'
    BY <1>1, <2>1, ShapesStable DEF IInv, SampleInv
  <2>3. SampleInv'  BY <1>1, <2>2 DEF IInv, SampleInv
  <2> QED BY <1>1, <2>3 DEF IInv, SeriesInv, SeriesKey
<1>6. BurnInv'
  <2>1. ASSUME NEW s \in samples, s.id # CreditId
        PROVE  /\ upstream'[s.id].used - s.used <= upstream'[s.id].burned - s.burned
               /\ s.burned <= upstream'[s.id].burned
    <3>1. s.id \in DOMAIN Quota /\ s.used \in 0..100 /\ s.burned \in Nat
      BY <2>1 DEF IInv, SampleInv, SampleShape, Windows
    <3>2. /\ upstream[s.id].used - s.used <= upstream[s.id].burned - s.burned
          /\ s.burned <= upstream[s.id].burned
          /\ upstream[s.id].used \in 0..100 /\ upstream[s.id].burned \in Nat
      BY <2>1, <3>1 DEF IInv, BurnInv, UpstreamInv
    <3>3. /\ upstream'[s.id].used - s.used <= upstream'[s.id].burned - s.burned
          /\ s.burned <= upstream'[s.id].burned
      <4> DEFINE q == s.id
      <4>1. /\ upstream'[q].used \in 0..100 /\ upstream'[q].burned \in Nat
            /\ upstream'[q].burned >= upstream[q].burned
            /\ upstream'[q].used - upstream[q].used <= upstream'[q].burned - upstream[q].burned
        BY <3>1, <1>2
      <4> DEFINE u1 == upstream[q].used
                 u2 == upstream'[q].used
                 b1 == upstream[q].burned
                 b2 == upstream'[q].burned
                 x  == s.used
                 y  == s.burned
      <4>3. /\ u1 \in Int /\ u2 \in Int /\ b1 \in Int /\ b2 \in Int /\ x \in Int /\ y \in Int
            /\ u1 - x <= b1 - y /\ y <= b1 /\ b2 >= b1 /\ u2 - u1 <= b2 - b1
        BY <3>1, <3>2, <4>1
      <4>4. u2 - x <= b2 - y /\ y <= b2
        <5> HIDE DEF u1, u2, b1, b2, x, y, q
        <5> QED BY <4>3
      <4> QED BY <4>4
    <3> QED BY <3>3
  <2> QED BY <1>1, <2>1 DEF IInv, BurnInv
<1>7. NewestInv'
  BY <1>1 DEF IInv, NewestInv, ProviderIds
<1> QED BY <1>3, <1>4, <1>5, <1>6, <1>7 DEF IInv

(* A redeemed reset takes from the counters and adds nothing. *)
LEMMA RelieveInv ==
  ASSUME IInv, NEW p \in ProviderIds, Relieve(p)
  PROVE  IInv'
<1>1. now' = now /\ balance' = balance /\ cache' = cache /\ samples' = samples /\ now \in Nat \ {0}
  BY DEF Relieve, IInv, UpstreamInv
<1>2. PICK renewed \in BOOLEAN :
        upstream' = [q \in DOMAIN Quota |->
          IF q \notin Windows(p) THEN upstream[q]
          ELSE [upstream[q] EXCEPT !.used = 0,
                                   !.resetAt = IF renewed THEN now + Quota[q].span ELSE @]]
  BY DEF Relieve
<1>3. ASSUME NEW q \in DOMAIN Quota
      PROVE  /\ upstream'[q] \in [used : 0..100, resetAt : Nat, burned : Nat]
             /\ upstream'[q].resetAt > now
             /\ upstream'[q].burned = upstream[q].burned
             /\ upstream'[q].used <= upstream[q].used
  <2>1. upstream[q] \in [used : 0..100, resetAt : Nat, burned : Nat] /\ upstream[q].resetAt > now
    BY DEF IInv, UpstreamInv
  <2>2. CASE q \notin Windows(p)
    <3>1. upstream'[q] = upstream[q]  BY <1>2, <2>2
    <3>2. upstream[q].used \in 0..100  BY <2>1
    <3> QED BY <2>1, <3>1, <3>2
  <2>3. CASE q \in Windows(p)
    <3> DEFINE reset == IF renewed THEN now + Quota[q].span ELSE upstream[q].resetAt
    <3>1. Quota[q].span \in Nat \ {0}  BY AdviceAssumption
    <3>2. reset \in Nat /\ reset > now  BY <1>1, <2>1, <3>1
    <3>3. upstream'[q] = [upstream[q] EXCEPT !.used = 0, !.resetAt = reset]
      BY <1>2, <2>3
    <3> HIDE DEF reset
    <3>4. upstream'[q] \in [used : 0..100, resetAt : Nat, burned : Nat]
      <4>1. 0 \in 0..100  OBVIOUS
      <4> QED BY <2>1, <3>2, <3>3, <4>1
    <3>5. /\ upstream'[q].resetAt = reset /\ upstream'[q].used = 0
          /\ upstream'[q].burned = upstream[q].burned /\ upstream[q].used \in 0..100
      BY <2>1, <3>3
    <3> QED BY <3>2, <3>4, <3>5
  <2> QED BY <2>2, <2>3
<1>4. UpstreamInv'
  <2>1. upstream' \in [DOMAIN Quota -> [used : 0..100, resetAt : Nat, burned : Nat]]
    <3>1. DOMAIN upstream' = DOMAIN Quota
          /\ upstream' = [q \in DOMAIN Quota |-> upstream'[q]]
      BY <1>2
    <3> QED BY <1>3, <3>1
  <2> QED BY <1>1, <1>3, <2>1 DEF IInv, UpstreamInv
<1>5. CacheInv'
  <2>1. \A i, r : ItemShape(i, r) => ItemShape(i, r)'  BY <1>1, ShapesStable
  <2>2. Item' = Item  BY DEF Item, Kinds, Bases, ProviderIds
  <2> QED BY <1>1, <2>1, <2>2 DEF IInv, CacheInv, ProviderIds
<1>6. SampleInv' /\ SeriesInv'
  <2>1. \A s \in samples : s.provider \in ProviderIds /\ cache[s.provider].at \in Nat
    BY DEF IInv, SampleInv, SampleShape, CacheInv
  <2>2. \A s \in samples : SampleShape(s)'
    BY <1>1, <2>1, ShapesStable DEF IInv, SampleInv
  <2>3. SampleInv'  BY <1>1, <2>2 DEF IInv, SampleInv
  <2> QED BY <1>1, <2>3 DEF IInv, SeriesInv, SeriesKey
<1>7. BurnInv'
  <2>1. ASSUME NEW s \in samples, s.id # CreditId
        PROVE  /\ upstream'[s.id].used - s.used <= upstream'[s.id].burned - s.burned
               /\ s.burned <= upstream'[s.id].burned
    <3>1. s.id \in DOMAIN Quota /\ s.used \in 0..100 /\ s.burned \in Nat
      BY <2>1 DEF IInv, SampleInv, SampleShape, Windows
    <3>2. /\ upstream[s.id].used - s.used <= upstream[s.id].burned - s.burned
          /\ s.burned <= upstream[s.id].burned
          /\ upstream[s.id].used \in 0..100 /\ upstream[s.id].burned \in Nat
      BY <2>1, <3>1 DEF IInv, BurnInv, UpstreamInv
    <3>3. /\ upstream'[s.id].used - s.used <= upstream'[s.id].burned - s.burned
          /\ s.burned <= upstream'[s.id].burned
      <4> DEFINE q == s.id
      <4>1. /\ upstream'[q].used \in 0..100 /\ upstream'[q].burned \in Nat
            /\ upstream'[q].burned = upstream[q].burned
            /\ upstream'[q].used <= upstream[q].used
        BY <3>1, <1>3
      <4> DEFINE u1 == upstream[q].used
                 u2 == upstream'[q].used
                 b1 == upstream[q].burned
                 b2 == upstream'[q].burned
                 x  == s.used
                 y  == s.burned
      <4>3. /\ u1 \in Int /\ u2 \in Int /\ b1 \in Int /\ b2 \in Int /\ x \in Int /\ y \in Int
            /\ u1 - x <= b1 - y /\ y <= b1 /\ b2 = b1 /\ u2 <= u1
        BY <3>1, <3>2, <4>1
      <4>4. u2 - x <= b2 - y /\ y <= b2
        <5> HIDE DEF u1, u2, b1, b2, x, y, q
        <5> QED BY <4>3
      <4> QED BY <4>4
    <3> QED BY <3>3
  <2> QED BY <1>1, <2>1 DEF IInv, BurnInv
<1>8. NewestInv'
  BY <1>1 DEF IInv, NewestInv, ProviderIds
<1> QED BY <1>4, <1>5, <1>6, <1>7, <1>8 DEF IInv

(* A failed refresh marks the items and touches nothing else. *)
LEMMA PollFailsInv ==
  ASSUME IInv, NEW p \in ProviderIds, PollFails(p)
  PROVE  IInv'
<1> DEFINE kept == {MarkStale(i, TRUE) : i \in cache[p].items}
<1>1. /\ now' = now /\ balance' = balance /\ upstream' = upstream /\ samples' = samples
      /\ now \in Nat \ {0} /\ RefreshAfter \in Nat \ {0}
      /\ cache' = [cache EXCEPT ![p].failed = TRUE, ![p].nextRefreshAt = now + RefreshAfter,
                                ![p].items = kept]
  BY AdviceAssumption DEF PollFails, IInv, UpstreamInv
<1>2. /\ cache \in [ProviderIds -> [items : SUBSET Item, staleAt : Nat, nextRefreshAt : Nat,
                                    failed : BOOLEAN, at : Nat]]
      /\ cache[p].items \in SUBSET Item /\ cache[p].at \in Nat /\ cache[p].at <= now
  BY DEF IInv, CacheInv
<1>3. ASSUME NEW j \in kept
      PROVE  \E i \in cache[p].items :
               /\ j.id = i.id /\ j.used = i.used /\ j.resetAt = i.resetAt /\ j.resetMs = i.resetMs
               /\ j.state = "stale" /\ ItemShape(j, p) /\ j \in Item /\ j = MarkStale(i, TRUE)
  <2>1. PICK i \in cache[p].items : j = MarkStale(i, TRUE)  OBVIOUS
  <2>2. i \in Item /\ ItemShape(i, p)  BY <1>2 DEF IInv, CacheInv
  <2> QED BY <2>1, <2>2, MarkStaleShape, MarkedItemShape
<1>4. kept \in SUBSET Item  BY <1>3
<1>5. IsFiniteSet(kept)
  <2> DEFINE f == [i \in cache[p].items |-> MarkStale(i, TRUE)]
  <2>1. kept = {f[i] : i \in cache[p].items}  OBVIOUS
  <2>2. IsFiniteSet(cache[p].items)  BY DEF IInv, CacheInv
  <2>3. IsFiniteSet({f[i] : i \in cache[p].items})
    <3> HIDE DEF f
    <3> QED BY <2>2, ImageIsFinite
  <2> QED BY <2>1, <2>3
<1>6. \A i, j \in kept : i.id = j.id => i = j
  <2> SUFFICES ASSUME NEW i \in kept, NEW j \in kept, i.id = j.id PROVE i = j  OBVIOUS
  <2>1. PICK a \in cache[p].items : i.id = a.id /\ i = MarkStale(a, TRUE)  BY <1>3
  <2>2. PICK b \in cache[p].items : j.id = b.id /\ j = MarkStale(b, TRUE)  BY <1>3
  <2>3. a = b  BY <2>1, <2>2 DEF IInv, CacheInv
  <2> QED BY <2>1, <2>2, <2>3
<1>7. cache[p].items = {} => kept = {}  OBVIOUS
<1> HIDE DEF kept
<1>8. /\ cache'[p].items = kept /\ cache'[p].failed = TRUE /\ cache'[p].at = cache[p].at
      /\ cache'[p].nextRefreshAt = now + RefreshAfter /\ cache'[p].staleAt = cache[p].staleAt
      /\ \A r \in ProviderIds \ {p} : cache'[r] = cache[r]
      /\ \A r \in ProviderIds : cache'[r].at = cache[r].at
  BY <1>1, <1>2
<1>9. UpstreamInv'  BY <1>1 DEF IInv, UpstreamInv
<1>10. CacheInv'
  <2>1. \A i, r : ItemShape(i, r) => ItemShape(i, r)'  BY <1>1, ShapesStable
  <2>2. Item' = Item /\ ProviderIds' = ProviderIds  BY DEF Item, Kinds, Bases, ProviderIds
  <2>3. cache' \in [ProviderIds -> [items : SUBSET Item, staleAt : Nat, nextRefreshAt : Nat,
                                    failed : BOOLEAN, at : Nat]]
    <3> DEFINE Rec == [items : SUBSET Item, staleAt : Nat, nextRefreshAt : Nat,
                       failed : BOOLEAN, at : Nat]
    <3>1. cache'[p] = [cache[p] EXCEPT !.failed = TRUE, !.nextRefreshAt = now + RefreshAfter,
                                       !.items = kept]
      BY <1>1, <1>2
    <3>2. cache[p] \in Rec /\ TRUE \in BOOLEAN /\ now + RefreshAfter \in Nat  BY <1>1, <1>2
    <3>3. cache'[p] \in Rec  BY <1>4, <3>1, <3>2
    <3>4. \A r \in ProviderIds : cache'[r] \in Rec  BY <1>2, <1>8, <3>3
    <3>5. cache' = [r \in ProviderIds |-> cache'[r]]  BY <1>1, <1>2
    <3> QED BY <3>4, <3>5
  <2>4. cache[p].items # {} => cache[p].staleAt = cache[p].at + StaleAfter
    BY DEF IInv, CacheInv
  <2>5. cache[p].at < now + RefreshAfter  BY <1>1, <1>2
  <2>6. ASSUME NEW r \in ProviderIds
        PROVE  /\ IsFiniteSet(cache'[r].items)
               /\ \A i \in cache'[r].items : ItemShape(i, r)
               /\ \A i, j \in cache'[r].items : i.id = j.id => i = j
               /\ cache'[r].at <= now /\ (cache'[r].at > 0 => cache'[r].at < cache'[r].nextRefreshAt)
               /\ cache'[r].items # {} => cache'[r].staleAt = cache'[r].at + StaleAfter
               /\ cache'[r].failed => \A i \in cache'[r].items : i.state = "stale"
    <3>1. CASE r = p  BY <1>2, <1>3, <1>5, <1>6, <1>7, <1>8, <2>4, <2>5, <3>1
    <3>2. CASE r # p  BY <1>8, <3>2 DEF IInv, CacheInv
    <3> QED BY <3>1, <3>2
  <2> QED BY <1>1, <2>1, <2>2, <2>3, <2>6 DEF CacheInv
<1>11. SampleInv' /\ SeriesInv'
  <2>1. \A s \in samples : s.provider \in ProviderIds /\ cache[s.provider].at \in Nat
    BY DEF IInv, SampleInv, SampleShape, CacheInv
  <2>2. \A s \in samples : cache'[s.provider].at = cache[s.provider].at  BY <1>8, <2>1
  <2>3. ASSUME NEW s \in samples PROVE SampleShape(s)'
    <3>1. SampleShape(s)  BY DEF IInv, SampleInv
    <3>2. cache'[s.provider].at \in Nat /\ cache[s.provider].at \in Nat
          /\ cache'[s.provider].at >= cache[s.provider].at
      BY <2>1, <2>2
    <3> QED BY <1>1, <3>1, <3>2, ShapesStable
  <2>4. SampleInv'  BY <1>1, <2>3 DEF IInv, SampleInv
  <2> QED BY <1>1, <2>4 DEF IInv, SeriesInv, SeriesKey
<1>12. BurnInv'  BY <1>1 DEF IInv, BurnInv
<1>13. NewestInv'
  <2> SUFFICES ASSUME NEW r \in ProviderIds, NEW j \in cache'[r].items, NEW s \in samples', s.id = j.id
               PROVE  \E c \in samples' : /\ c.id = j.id /\ c.at = cache'[r].at /\ c.used = j.used
                                         /\ c.resetAt = j.resetAt /\ c.resetMs = j.resetMs
    BY DEF NewestInv, ProviderIds
  <2>1. PICK i \in cache[r].items : /\ j.id = i.id /\ j.used = i.used
                                    /\ j.resetAt = i.resetAt /\ j.resetMs = i.resetMs
    <3>1. CASE r = p  BY <1>3, <1>8, <3>1
    <3>2. CASE r # p  BY <1>8, <3>2
    <3> QED BY <3>1, <3>2
  <2>2. \E c \in samples : /\ c.id = i.id /\ c.at = cache[r].at /\ c.used = i.used
                           /\ c.resetAt = i.resetAt /\ c.resetMs = i.resetMs
    BY <1>1, <2>1 DEF IInv, NewestInv
  <2>3. cache'[r].at = cache[r].at  BY <1>8
  <2> QED BY <1>1, <2>1, <2>2, <2>3
<1> QED BY <1>9, <1>10, <1>11, <1>12, <1>13 DEF IInv

(* A poll replaces the items and adds its samples, which are newer than all. *)
LEMMA PollInv ==
  ASSUME IInv, NEW p \in ProviderIds, Poll(p)
  PROVE  IInv'
<1>1. PICK ms \in {0, 1} :
        LET items == Normalize(p, ms)
        IN  /\ cache' = [cache EXCEPT ![p] = [items |-> items, failed |-> FALSE, at |-> now,
                           nextRefreshAt |-> now + RefreshAfter, staleAt |-> now + StaleAfter]]
            /\ samples' = Record(samples, items, now, Burned)
  BY DEF Poll
<1> DEFINE items == Normalize(p, ms)
           Seen(i) == SampleFromItem(i, now, Burned[i.id])
           seen == {Seen(i) : i \in items}
           all == samples \cup seen
<1>2. /\ now' = now /\ balance' = balance /\ upstream' = upstream /\ now \in Nat \ {0}
      /\ RefreshAfter \in Nat \ {0} /\ StaleAfter \in Nat \ {0} /\ NeedsRefresh(p)
      /\ Retention \in Nat \ {0} /\ MaxPerSeries \in Nat \ {0}
  BY AdviceAssumption, HistoryAssumption DEF Poll, IInv, UpstreamInv
<1>3. /\ cache \in [ProviderIds -> [items : SUBSET Item, staleAt : Nat, nextRefreshAt : Nat,
                                    failed : BOOLEAN, at : Nat]]
      /\ \A r \in ProviderIds : cache[r].at \in Nat /\ cache[r].at <= now
  BY DEF IInv, CacheInv
<1>4. cache[p].at < now
  <2>1. cache[p].at > 0 => cache[p].at < cache[p].nextRefreshAt  BY DEF IInv, CacheInv
  <2>2. cache[p].at \in Nat /\ cache[p].nextRefreshAt \in Nat /\ now >= cache[p].nextRefreshAt
    BY <1>2, <1>3 DEF NeedsRefresh
  <2> QED BY <1>2, <2>1, <2>2
<1>5. /\ IsFiniteSet(items)
      /\ \A i \in items : /\ ItemShape(i, p) /\ i.state = "fresh" /\ ~i.failed
                          /\ i.id # CreditId => /\ i.used = upstream[i.id].used
                                                /\ i.resetAt = upstream[i.id].resetAt
      /\ \A i, j \in items : i.id = j.id => i = j
  BY NormalizeShape DEF IInv
<1>6. samples' = PruneSamples(all, now - Retention, MaxPerSeries)
  BY <1>1 DEF Record
<1>7. /\ cache'[p] = [items |-> items, failed |-> FALSE, at |-> now,
                      nextRefreshAt |-> now + RefreshAfter, staleAt |-> now + StaleAfter]
      /\ \A r \in ProviderIds \ {p} : cache'[r] = cache[r]
      /\ cache'[p].at = now /\ cache'[p].items = items
  <2> HIDE DEF items
  <2>1. cache' = [cache EXCEPT ![p] = [items |-> items, failed |-> FALSE, at |-> now,
                           nextRefreshAt |-> now + RefreshAfter, staleAt |-> now + StaleAfter]]
    BY <1>1 DEF items
  <2> QED BY <1>3, <2>1
<1> HIDE DEF items
<1>8. UpstreamInv'  BY <1>2 DEF IInv, UpstreamInv
<1>9. CacheInv'
  <2>1. \A i, r : ItemShape(i, r) => ItemShape(i, r)'  BY <1>2, ShapesStable
  <2>2. Item' = Item /\ ProviderIds' = ProviderIds  BY DEF Item, Kinds, Bases, ProviderIds
  <2>3. items \in SUBSET Item  BY <1>5 DEF ItemShape
  <2>4. cache' \in [ProviderIds -> [items : SUBSET Item, staleAt : Nat, nextRefreshAt : Nat,
                                    failed : BOOLEAN, at : Nat]]
    <3>1. [items |-> items, failed |-> FALSE, at |-> now,
           nextRefreshAt |-> now + RefreshAfter, staleAt |-> now + StaleAfter]
          \in [items : SUBSET Item, staleAt : Nat, nextRefreshAt : Nat, failed : BOOLEAN, at : Nat]
      BY <1>2, <2>3
    <3>2. cache' = [cache EXCEPT ![p] = [items |-> items, failed |-> FALSE, at |-> now,
                           nextRefreshAt |-> now + RefreshAfter, staleAt |-> now + StaleAfter]]
      BY <1>1 DEF items
    <3> QED BY <1>3, <3>1, <3>2
  <2>5. ASSUME NEW r \in ProviderIds
        PROVE  /\ IsFiniteSet(cache'[r].items)
               /\ \A i \in cache'[r].items : ItemShape(i, r)
               /\ \A i, j \in cache'[r].items : i.id = j.id => i = j
               /\ cache'[r].at <= now /\ (cache'[r].at > 0 => cache'[r].at < cache'[r].nextRefreshAt)
               /\ cache'[r].items # {} => cache'[r].staleAt = cache'[r].at + StaleAfter
               /\ cache'[r].failed => \A i \in cache'[r].items : i.state = "stale"
    <3>1. CASE r = p  BY <1>2, <1>5, <1>7, <3>1
    <3>2. CASE r # p  BY <1>7, <3>2 DEF IInv, CacheInv
    <3> QED BY <3>1, <3>2
  <2> QED BY <1>2, <2>1, <2>2, <2>4, <2>5 DEF CacheInv
<1>10. \A s \in samples : /\ s.provider \in ProviderIds /\ s.at \in Nat /\ s.at <= now
                          /\ s.provider = p => s.at < now
                          /\ s.id \in Windows(s.provider) \cup {CreditId}
                          /\ s.id = CreditId => s.provider = "chatgpt"
  <2> SUFFICES ASSUME NEW s \in samples
               PROVE  /\ s.provider \in ProviderIds /\ s.at \in Nat /\ s.at <= now
                      /\ s.provider = p => s.at < now
                      /\ s.id \in Windows(s.provider) \cup {CreditId}
                      /\ s.id = CreditId => s.provider = "chatgpt"
    OBVIOUS
  <2>1. SampleShape(s)  BY DEF IInv, SampleInv
  <2>2. s.provider \in ProviderIds /\ s.at \in Nat /\ s.at <= cache[s.provider].at
    BY <2>1 DEF SampleShape
  <2>3. cache[s.provider].at \in Nat /\ cache[s.provider].at <= now  BY <1>3, <2>2
  <2>4. s.at <= now /\ (s.provider = p => s.at < now)
    BY <1>2, <1>4, <2>2, <2>3
  <2> QED BY <2>1, <2>2, <2>4 DEF SampleShape
<1>11. \A s \in seen : \E i \in items :
         /\ s = Seen(i) /\ i.provider = p /\ s.at = now /\ s.provider = p /\ s.id = i.id
         /\ s.used = i.used /\ s.resetAt = i.resetAt /\ s.resetMs = i.resetMs
         /\ s.burned = Burned[i.id]
         /\ s.unit = i.unit /\ s.window = i.window /\ s.kind = i.kind /\ s.remaining = i.remaining
  BY <1>5 DEF SampleFromItem, ItemShape
<1>12. ASSUME NEW s \in seen
       PROVE  /\ SampleShape(s)' /\ s.at = now /\ s.provider = p
              /\ s.id \in Windows(p) \cup {CreditId} /\ (s.id = CreditId => p = "chatgpt")
              /\ s.id # CreditId => s.used = upstream[s.id].used /\ s.burned = upstream[s.id].burned
              /\ s.id = CreditId => s.used = 0 /\ s.burned = 0
  <2>1. PICK i \in items :
         /\ i.provider = p /\ s.at = now /\ s.provider = p /\ s.id = i.id
         /\ s.used = i.used /\ s.resetAt = i.resetAt /\ s.resetMs = i.resetMs
         /\ s.burned = Burned[i.id]
         /\ s.unit = i.unit /\ s.window = i.window /\ s.kind = i.kind /\ s.remaining = i.remaining
    BY <1>11
  <2>2. ItemShape(i, p) /\ (i.id # CreditId => i.used = upstream[i.id].used)  BY <1>5
  <2>3. i.resetAt \in Nat /\ i.used \in 0..100 /\ i.remaining \in Nat  BY <2>2 DEF ItemShape, Item
  <2>4. CASE i.id = CreditId
    <3>1. s.burned = 0 /\ CreditShape(i)  BY <2>1, <2>2, <2>4 DEF Burned, ItemShape
    <3>2. s.at <= cache'[s.provider].at  BY <1>2, <1>7, <2>1
    <3>3. SampleShape(s)'
      BY <1>2, <2>1, <2>3, <2>4, <3>1, <3>2 DEF CreditShape, SampleShape, ProviderIds, Windows
    <3> QED BY <2>1, <2>2, <2>4, <3>1, <3>3 DEF CreditShape, ItemShape
  <2>5. CASE i.id # CreditId
    <3>1. WindowShape(i) /\ i.id \in Windows(p)  BY <2>2, <2>5 DEF ItemShape
    <3>2. i.id \in DOMAIN Quota  BY <3>1 DEF Windows
    <3>3. s.burned = upstream[i.id].burned  BY <2>1, <2>5, <3>2 DEF Burned
    <3>4. s.burned \in Nat  BY <3>2, <3>3 DEF IInv, UpstreamInv
    <3>5. s.at <= cache'[s.provider].at  BY <1>2, <1>7, <2>1
    <3>6. SampleShape(s)'
      BY <1>2, <2>1, <2>3, <2>5, <3>1, <3>4, <3>5 DEF WindowShape, SampleShape, ProviderIds, Windows
    <3> QED BY <2>1, <2>2, <2>5, <3>1, <3>3, <3>6
  <2> QED BY <2>4, <2>5
<1>13. IsFiniteSet(all)
  <2> DEFINE f == [i \in items |-> Seen(i)]
  <2>1. seen = {f[i] : i \in items}  OBVIOUS
  <2>2. IsFiniteSet({f[i] : i \in items})
    <3> HIDE DEF f
    <3> QED BY <1>5, ImageIsFinite
  <2>3. IsFiniteSet(seen)  BY <2>1, <2>2
  <2>4. IsFiniteSet(samples)  BY DEF IInv, SampleInv
  <2> HIDE DEF seen
  <2> QED BY <2>3, <2>4, FS_Union
<1>14. \A r, s \in seen : r.id = s.id => r = s
  BY <1>5, <1>11
<1> HIDE DEF seen
<1>15. ASSUME NEW s \in samples, NEW r \in seen, s.id = r.id PROVE s.provider = p /\ s.at < r.at
  <2>1. s.id \in Windows(s.provider) \cup {CreditId} /\ r.id \in Windows(p) \cup {CreditId}
    BY <1>10, <1>12
  <2>2. s.provider = p
    <3>1. CASE s.id = CreditId  BY <1>10, <1>12, <1>15, <3>1
    <3>2. CASE s.id # CreditId  BY <1>15, <2>1, <3>2 DEF Windows
    <3> QED BY <3>1, <3>2
  <2> QED BY <1>10, <1>12, <2>2
<1>16. \A s \in all : s.at \in Nat /\ s.at <= now
  BY <1>2, <1>10, <1>12
<1>17. \A r, s \in all : r.id = s.id /\ r.at = s.at => r = s
  <2> SUFFICES ASSUME NEW r \in all, NEW s \in all, r.id = s.id, r.at = s.at PROVE r = s
    OBVIOUS
  <2>1. CASE r \in samples /\ s \in samples  BY <2>1 DEF IInv, SeriesInv
  <2>2. CASE r \in seen /\ s \in seen  BY <1>14, <2>2
  <2>3. CASE r \in samples /\ s \in seen  BY <1>15, <1>16, <2>3
  <2>4. CASE r \in seen /\ s \in samples  BY <1>15, <1>16, <2>4
  <2> QED BY <2>1, <2>2, <2>3, <2>4
<1>18. samples' \subseteq all  BY <1>6, PruneIsSubset
<1>19. SampleInv'
  <2>1. ASSUME NEW s \in samples PROVE SampleShape(s)'
    <3>1. SampleShape(s) /\ s.provider \in ProviderIds /\ cache[s.provider].at \in Nat
      BY <1>3, <1>10 DEF IInv, SampleInv
    <3>2. cache'[s.provider].at \in Nat /\ cache'[s.provider].at >= cache[s.provider].at
      <4>1. CASE s.provider = p  BY <1>2, <1>3, <1>7, <3>1, <4>1
      <4>2. CASE s.provider # p  BY <1>3, <1>7, <3>1, <4>2
      <4> QED BY <4>1, <4>2
    <3> QED BY <1>2, <3>1, <3>2, ShapesStable
  <2>2. \A s \in samples' : SampleShape(s)'  BY <1>12, <1>18, <2>1
  <2>3. IsFiniteSet(samples')  BY <1>13, <1>18, FS_Subset
  <2> QED BY <2>2, <2>3 DEF SampleInv
<1>20. SeriesInv'
  <2>1. \A r, s \in samples' : r.id = s.id /\ r.at = s.at => r = s  BY <1>17, <1>18
  <2>2. ASSUME NEW s \in samples'
        PROVE  Cardinality({r \in samples' : SeriesKey(r) = SeriesKey(s)}) <= MaxPerSeries
    <3> DEFINE k == SeriesKey(s)
    <3>1. \A r, t \in all : SeriesKey(r) = SeriesKey(t) /\ r.at = t.at => r = t
      BY <1>17 DEF SeriesKey
    <3>2. \A r \in all : r.at \in Int  BY <1>16
    <3>3. now - Retention \in Int  BY <1>2
    <3> HIDE DEF all, k
    <3>4. Cardinality(OfSeries(PruneSamples(all, now - Retention, MaxPerSeries), k)) <= MaxPerSeries
      BY <1>2, <1>13, <3>1, <3>2, <3>3, PruneBound
    <3> QED BY <1>6, <3>4 DEF k, OfSeries
  <2> QED BY <2>1, <2>2 DEF SeriesInv, SeriesKey
<1>21. BurnInv'
  <2>1. ASSUME NEW s \in all, s.id # CreditId
        PROVE  /\ upstream[s.id].used - s.used <= upstream[s.id].burned - s.burned
               /\ s.burned <= upstream[s.id].burned
    <3>1. CASE s \in samples  BY <2>1, <3>1 DEF IInv, BurnInv
    <3>2. CASE s \in seen
      <4>1. s.used = upstream[s.id].used /\ s.burned = upstream[s.id].burned /\ s.id \in DOMAIN Quota
        BY <1>12, <2>1, <3>2 DEF Windows
      <4>2. upstream[s.id].used \in 0..100 /\ upstream[s.id].burned \in Nat
        BY <4>1 DEF IInv, UpstreamInv
      <4> QED BY <4>1, <4>2
    <3> QED BY <3>1, <3>2
  <2>2. ASSUME NEW r \in all, NEW s \in all, r.id = s.id, r.at < s.at
        PROVE  s.used - r.used <= s.burned - r.burned /\ r.burned <= s.burned
    <3>1. CASE r \in samples /\ s \in samples  BY <2>2, <3>1 DEF IInv, BurnInv
    <3>2. CASE r \in samples /\ s \in seen
      <4>1. CASE s.id = CreditId
        <5>1. r.used = 0 /\ r.burned = 0 /\ s.used = 0 /\ s.burned = 0
          BY <1>12, <2>2, <3>2, <4>1 DEF IInv, SampleInv, SampleShape
        <5> QED BY <5>1
      <4>2. CASE s.id # CreditId
        <5>1. s.used = upstream[s.id].used /\ s.burned = upstream[s.id].burned
          BY <1>12, <3>2, <4>2
        <5>2. /\ upstream[r.id].used - r.used <= upstream[r.id].burned - r.burned
              /\ r.burned <= upstream[r.id].burned
          BY <2>1, <2>2, <4>2
        <5> QED BY <2>2, <5>1, <5>2
      <4> QED BY <4>1, <4>2
    <3>3. CASE r \in seen
      <4>1. s \in samples => s.at < r.at  BY <1>15, <2>2, <3>3
      <4>2. s \in seen => s.at = r.at  BY <1>12, <3>3
      <4>3. r.at \in Nat /\ s.at \in Nat  BY <1>16
      <4> QED BY <2>2, <4>1, <4>2, <4>3
    <3> QED BY <3>1, <3>2, <3>3
  <2> QED BY <1>2, <1>18, <2>1, <2>2 DEF BurnInv
<1>22. NewestInv'
  <2> SUFFICES ASSUME NEW r \in ProviderIds, NEW i \in cache'[r].items, NEW s \in samples', s.id = i.id
               PROVE  \E c \in samples' : /\ c.id = i.id /\ c.at = cache'[r].at /\ c.used = i.used
                                          /\ c.resetAt = i.resetAt /\ c.resetMs = i.resetMs
    BY DEF NewestInv, ProviderIds
  <2>0. ItemShape(i, r)
    <3>1. CASE r = p  BY <1>5, <1>7, <3>1
    <3>2. CASE r # p  BY <1>7, <3>2 DEF IInv, CacheInv
    <3> QED BY <3>1, <3>2
  <2>1. ASSUME NEW c \in all, c.id = i.id, c.at = cache'[r].at, c.used = i.used,
               c.resetAt = i.resetAt, c.resetMs = i.resetMs, c.provider = r,
               \A t \in all : t.provider = r => t.at <= c.at
        PROVE  c \in samples'
    <3>1. \A t \in all : t.at \in Int  BY <1>16
    <3>2. \A t \in all : SeriesKey(t) = SeriesKey(c) => t.at <= c.at  BY <2>1 DEF SeriesKey
    <3>3. s \in all  BY <1>18
    <3>4. s.provider = r
      <4>1. s.id \in Windows(s.provider) \cup {CreditId} /\ (s.id = CreditId => s.provider = "chatgpt")
        BY <1>10, <1>12, <3>3
      <4>2. IF i.id = CreditId THEN r = "chatgpt" ELSE i.id \in Windows(r)
        BY <2>0 DEF ItemShape, CreditShape
      <4> QED BY <4>1, <4>2 DEF Windows
    <3>5. s.at <= c.at  BY <2>1, <3>3, <3>4
    <3>6. now - Retention \in Int  BY <1>2
    <3>7. s \in PruneSamples(all, now - Retention, MaxPerSeries)  BY <1>6
    <3> HIDE DEF all
    <3> QED BY <1>2, <1>6, <2>1, <3>1, <3>2, <3>5, <3>6, <3>7, PruneKeepsNewest
  <2>2. CASE r = p
    <3>1. i \in items /\ cache'[r].at = now  BY <1>7, <2>2
    <3>2. PICK c \in seen : c = Seen(i)  BY <3>1 DEF seen
    <3>3. /\ c.id = i.id /\ c.at = now /\ c.used = i.used /\ c.provider = r
          /\ c.resetAt = i.resetAt /\ c.resetMs = i.resetMs
      BY <2>2, <3>1, <3>2, <1>5 DEF SampleFromItem, ItemShape
    <3>4. \A t \in all : t.at <= c.at  BY <1>16, <3>3
    <3> QED BY <2>1, <3>1, <3>3, <3>4
  <2>3. CASE r # p
    <3>1. i \in cache[r].items /\ cache'[r].at = cache[r].at  BY <1>7, <2>3
    <3>2. s \in samples
      <4>1. s \in seen => FALSE
        <5>1. IF i.id = CreditId THEN r = "chatgpt" ELSE i.id \in Windows(r)
          BY <2>0 DEF ItemShape, CreditShape
        <5> QED BY <1>12, <2>3, <5>1 DEF Windows
      <4> QED BY <1>18, <4>1
    <3>3. PICK c \in samples : /\ c.id = i.id /\ c.at = cache[r].at /\ c.used = i.used
                               /\ c.resetAt = i.resetAt /\ c.resetMs = i.resetMs
      BY <3>1, <3>2 DEF IInv, NewestInv
    <3>4. c.provider = r
      <4>1. IF i.id = CreditId THEN r = "chatgpt" ELSE i.id \in Windows(r)
        BY <2>0 DEF ItemShape, CreditShape
      <4> QED BY <1>10, <3>3, <4>1 DEF Windows
    <3>5. \A t \in all : t.provider = r => t.at <= c.at
      <4> SUFFICES ASSUME NEW t \in all, t.provider = r PROVE t.at <= c.at  OBVIOUS
      <4>1. t \in samples  BY <1>12, <2>3
      <4> QED BY <3>3, <4>1 DEF IInv, SampleInv, SampleShape
    <3> QED BY <2>1, <3>1, <3>3, <3>4, <3>5
  <2> QED BY <2>2, <2>3
<1> QED BY <1>8, <1>9, <1>19, <1>20, <1>21, <1>22 DEF IInv

(* The invariant holds in every state: polls, failures, redeemed resets, and time *)
(* and use between them keep the cache and the history what the polls saw (cache *)
(* UpsertSuccess and MarkFailure, history Record and pruneSamples). *)
THEOREM InvHolds == Spec => []IInv
<1>1. Init => IInv  BY InitInv
<1>2. IInv /\ [Next]_vars => IInv'
  <2> SUFFICES ASSUME IInv, [Next]_vars PROVE IInv'  OBVIOUS
  <2>1. CASE UNCHANGED vars
    <3>1. /\ now' = now /\ upstream' = upstream /\ balance' = balance /\ cache' = cache
          /\ samples' = samples
      BY <2>1 DEF vars
    <3>2. \A i, p : ItemShape(i, p) => ItemShape(i, p)'  BY <3>1, ShapesStable
    <3>3. Item' = Item /\ ProviderIds' = ProviderIds  BY DEF Item, Kinds, Bases, ProviderIds
    <3>4. UpstreamInv'  BY <3>1 DEF IInv, UpstreamInv
    <3>5. CacheInv'  BY <3>1, <3>2, <3>3 DEF IInv, CacheInv
    <3>6. SampleInv'
      <4>1. \A s \in samples : SampleShape(s)'
        BY <3>1 DEF IInv, SampleInv, SampleShape, Windows, ProviderIds
      <4> QED BY <3>1, <4>1 DEF IInv, SampleInv
    <3>7. SeriesInv' /\ BurnInv' /\ NewestInv'
      BY <3>1, <3>3 DEF IInv, SeriesInv, SeriesKey, BurnInv, NewestInv
    <3> QED BY <3>4, <3>5, <3>6, <3>7 DEF IInv
  <2>2. ASSUME NEW p \in ProviderIds, Poll(p) PROVE IInv'  BY <2>2, PollInv
  <2>3. ASSUME NEW p \in ProviderIds, PollFails(p) PROVE IInv'  BY <2>3, PollFailsInv
  <2>4. ASSUME NEW p \in ProviderIds, Relieve(p) PROVE IInv'  BY <2>4, RelieveInv
  <2>5. ASSUME NEW d \in Steps, NEW busy \in Usages, Tick(d, busy) PROVE IInv'  BY <2>5, TickInv
  <2> QED BY <2>1, <2>2, <2>3, <2>4, <2>5 DEF Next
<1> QED BY <1>1, <1>2, PTL DEF Spec

-----------------------------------------------------------------------------
(* What a reader gets of the cache. *)

(* A snapshot is the cached items, or all of them marked stale. *)
LEMMA SnapshotShape ==
  ASSUME IInv, NEW p \in ProviderIds
  PROVE  /\ IsFiniteSet(Snapshot(p))
         /\ \A i, j \in Snapshot(p) : i.id = j.id => i = j
         /\ \A i \in Snapshot(p) :
              /\ ItemShape(i, p)
              /\ i.state = "fresh" => ~cache[p].failed /\ now < cache[p].at + StaleAfter
              /\ \E j \in cache[p].items : /\ i.id = j.id /\ i.used = j.used
                                           /\ i.resetAt = j.resetAt /\ i.resetMs = j.resetMs
<1> DEFINE ps == cache[p]
           old == ps.staleAt > 0 /\ now >= ps.staleAt
           f == [i \in ps.items |-> MarkStale(i, ps.failed)]
<1>1. /\ IsFiniteSet(ps.items) /\ ps.failed \in BOOLEAN /\ ps.at \in Nat /\ ps.staleAt \in Nat
      /\ \A i \in ps.items : ItemShape(i, p) /\ i \in Item
      /\ \A i, j \in ps.items : i.id = j.id => i = j
      /\ ps.items # {} => ps.staleAt = ps.at + StaleAfter
      /\ ps.failed => \A i \in ps.items : i.state = "stale"
      /\ now \in Nat /\ StaleAfter \in Nat \ {0}
  BY AdviceAssumption DEF IInv, CacheInv, UpstreamInv, ItemShape
<1>2. CASE ~old
  <2>1. Snapshot(p) = ps.items  BY <1>2 DEF Snapshot
  <2>2. ASSUME NEW i \in ps.items, i.state = "fresh" PROVE ~ps.failed /\ now < ps.at + StaleAfter
    <3>1. ps.staleAt = ps.at + StaleAfter /\ ps.staleAt > 0  BY <1>1
    <3>2. ~ps.failed  BY <1>1, <2>2
    <3> QED BY <1>1, <1>2, <3>1, <3>2
  <2> QED BY <1>1, <2>1, <2>2
<1>3. CASE old
  <2>1. Snapshot(p) = {MarkStale(i, ps.failed) : i \in ps.items}  BY <1>3 DEF Snapshot
  <2>2. IsFiniteSet(Snapshot(p))
    <3>1. Snapshot(p) = {f[i] : i \in ps.items}  BY <2>1
    <3>2. IsFiniteSet({f[i] : i \in ps.items})
      <4> HIDE DEF f, ps
      <4> QED BY <1>1, ImageIsFinite
    <3> QED BY <3>1, <3>2
  <2>3. ASSUME NEW j \in Snapshot(p)
        PROVE  \E i \in ps.items : /\ j = MarkStale(i, ps.failed) /\ j.id = i.id /\ j.used = i.used
                                   /\ j.resetAt = i.resetAt /\ j.resetMs = i.resetMs
                                   /\ j.state = "stale" /\ ItemShape(j, p)
    <3>1. PICK i \in ps.items : j = MarkStale(i, ps.failed)  BY <2>1
    <3>2. i \in Item /\ ItemShape(i, p)  BY <1>1
    <3> HIDE DEF ps
    <3> QED BY <1>1, <3>1, <3>2, MarkStaleShape, MarkedItemShape
  <2>4. \A i, j \in Snapshot(p) : i.id = j.id => i = j
    <3> SUFFICES ASSUME NEW i \in Snapshot(p), NEW j \in Snapshot(p), i.id = j.id PROVE i = j
      OBVIOUS
    <3>1. PICK a \in ps.items : i = MarkStale(a, ps.failed) /\ i.id = a.id  BY <2>3
    <3>2. PICK b \in ps.items : j = MarkStale(b, ps.failed) /\ j.id = b.id  BY <2>3
    <3>3. a = b  BY <1>1, <3>1, <3>2
    <3> QED BY <3>1, <3>2, <3>3
  <2>5. "stale" # "fresh"  OBVIOUS
  <2> QED BY <2>2, <2>3, <2>4, <2>5
<1> QED BY <1>2, <1>3

(* The provider of an item is known by its id. *)
LEMMA ProviderOfId ==
  ASSUME NEW p, NEW r, NEW i, NEW j, ItemShape(i, p), ItemShape(j, r), i.id = j.id
  PROVE  p = r
BY DEF ItemShape, CreditShape, Windows

(* The overview: finitely many items, each of one provider, one of each id. *)
LEMMA OverviewShape ==
  ASSUME IInv
  PROVE  /\ IsFiniteSet(Overview.items)
         /\ \A i \in Overview.items :
              /\ i.provider \in ProviderIds /\ i \in Snapshot(i.provider) /\ ItemShape(i, i.provider)
         /\ \A i, j \in Overview.items : i.id = j.id => i = j
<1>1. Overview.items = UNION {Snapshot(p) : p \in ProviderIds}  BY DEF Overview
<1>2. \A i \in Overview.items : /\ i.provider \in ProviderIds /\ i \in Snapshot(i.provider)
                                /\ ItemShape(i, i.provider)
  <2> SUFFICES ASSUME NEW i \in Overview.items
               PROVE  /\ i.provider \in ProviderIds /\ i \in Snapshot(i.provider)
                      /\ ItemShape(i, i.provider)
    OBVIOUS
  <2>1. PICK p \in ProviderIds : i \in Snapshot(p)  BY <1>1
  <2>2. ItemShape(i, p)  BY <2>1, SnapshotShape
  <2>3. i.provider = p  BY <2>2 DEF ItemShape
  <2> QED BY <2>1, <2>2, <2>3
<1>3. \A i, j \in Overview.items : i.id = j.id => i = j
  <2> SUFFICES ASSUME NEW i \in Overview.items, NEW j \in Overview.items, i.id = j.id PROVE i = j
    OBVIOUS
  <2>1. i.provider = j.provider  BY <1>2, ProviderOfId
  <2> QED BY <1>2, <2>1, SnapshotShape
<1>4. IsFiniteSet(Overview.items)
  <2> DEFINE f == [p \in ProviderIds |-> Snapshot(p)]
             g == [n \in DOMAIN Providers |-> Providers[n].id]
  <2>1. IsFiniteSet(ProviderIds)
    <3>1. ProviderIds = {g[n] : n \in DOMAIN Providers}  BY DEF ProviderIds
    <3>2. IsFiniteSet(DOMAIN Providers)  BY AdviceAssumption
    <3>3. IsFiniteSet({g[n] : n \in DOMAIN Providers})
      <4> HIDE DEF g
      <4> QED BY <3>2, ImageIsFinite
    <3> QED BY <3>1, <3>3
  <2>2. {Snapshot(p) : p \in ProviderIds} = {f[p] : p \in ProviderIds}  OBVIOUS
  <2>3. IsFiniteSet({f[p] : p \in ProviderIds})
    <3> HIDE DEF f
    <3> QED BY <2>1, ImageIsFinite
  <2>4. \A T \in {Snapshot(p) : p \in ProviderIds} : IsFiniteSet(T)  BY SnapshotShape
  <2>5. IsFiniteSet({Snapshot(p) : p \in ProviderIds})  BY <2>2, <2>3
  <2> DEFINE all == {Snapshot(p) : p \in ProviderIds}
  <2>6. IsFiniteSet(UNION all)
    <3>1. IsFiniteSet(all) /\ \A T \in all : IsFiniteSet(T)  BY <2>4, <2>5
    <3> HIDE DEF all
    <3> QED BY <3>1, FS_UNION
  <2> QED BY <1>1, <2>6
<1> QED BY <1>2, <1>3, <1>4

(* What the analyses read off an item. *)
LEMMA ItemReadings ==
  ASSUME IInv, NEW p, NEW i, ItemShape(i, p)
  PROVE  /\ IsCreditBalanceItem(i) <=> i.id = CreditId
         /\ i.id = CreditId => PercentRemaining(i) = 0 /\ i.resetAt = 0
         /\ i.id # CreditId => /\ PercentRemaining(i) = i.remaining * Milli
                               /\ i.remaining \in 0..100 /\ i.used \in 0..100
                               /\ i.remaining = 100 - i.used /\ Total(i) = 100
                               /\ i.resetAt \in Nat /\ i.resetAt > 0 /\ i.limit = 100
         /\ i.visible /\ i.tiers = {} /\ i.tags = {}
<1>1. i \in Item  BY DEF ItemShape
<1>2. CASE i.id = CreditId
  <2>1. i.kind = "credit" /\ i.limit = 0 /\ i.resetAt = 0  BY <1>2 DEF ItemShape, CreditShape
  <2>2. IsCreditBalanceItem(i)  BY <2>1 DEF IsCreditBalanceItem
  <2> QED BY <1>1, <1>2, <2>1, <2>2 DEF PercentRemaining, Item
<1>3. CASE i.id # CreditId
  <2>1. /\ i.limit = 100 /\ i.used \in 0..100 /\ i.remaining = 100 - i.used
        /\ i.resetAt \in Nat /\ i.resetAt > 0
    BY <1>1, <1>3 DEF ItemShape, WindowShape, Item
  <2>2. ~IsCreditBalanceItem(i)  BY <2>1 DEF IsCreditBalanceItem
  <2>3. i.remaining \in 0..100 /\ Total(i) = 100  BY <2>1 DEF Total
  <2>4. \A n \in 0..100 : Clamp(Round(n * 100 * Milli, 100), 0, 100 * Milli) = n * Milli
    BY DEF Clamp, Round, Milli
  <2>5. PercentRemaining(i) = i.remaining * Milli
    BY <2>1, <2>2, <2>3, <2>4 DEF PercentRemaining
  <2> QED BY <1>1, <1>3, <2>1, <2>2, <2>3, <2>5 DEF Item
<1> QED BY <1>2, <1>3

-----------------------------------------------------------------------------
(* The rates. *)

(* The library minimum of naturals is one. *)
LEMMA MinOfNaturals ==
  ASSUME NEW S \in SUBSET Nat, S # {}
  PROVE  Min(S) \in S /\ \A x \in S : Min(S) <= x
<1>1. \E m \in S : \A x \in S : m <= x  BY NatMinimum
<1> QED BY <1>1 DEF Min

(* The library maximum of finitely many integers is one. *)
LEMMA MaxOfIntegers ==
  ASSUME NEW S \in SUBSET Int, IsFiniteSet(S), S # {}
  PROVE  Max(S) \in S /\ \A x \in S : x <= Max(S)
<1>1. \E m \in S : \A x \in S : x <= m  BY FiniteMaximum
<1> QED BY <1>1 DEF Max

(* The samples of one window: what the sums of a rate need of them. *)
Countable(C) ==
  /\ IsFiniteSet(C)
  /\ \A s \in C : s.at \in Nat /\ s.burned \in Nat /\ s.used \in 0..100 /\ s.remaining \in Nat
  /\ \A r, s \in C : r.at = s.at => r = s
  /\ \A r, s \in C : r.at < s.at =>
       /\ r.burned <= s.burned /\ s.used - r.used <= s.burned - r.burned
       /\ \/ r.remaining = 100 - r.used /\ s.remaining = 100 - s.used
          \/ r.used = s.used /\ r.remaining = s.remaining

(* A usable pair counts no more than was consumed between its samples. *)
LEMMA DeltaIsReal ==
  ASSUME NEW C, Countable(C), NEW p \in UsablePairs(C)
  PROVE  /\ p[1] \in C /\ p[2] \in C /\ p[1].at < p[2].at
         /\ \A s \in C : s.at <= p[1].at \/ p[2].at <= s.at
         /\ ConsumptionDelta(p[1], p[2]) \in Nat
         /\ ConsumptionDelta(p[1], p[2]) <= p[2].burned - p[1].burned
         /\ p[2].at - p[1].at \in Nat \ {0}
<1> DEFINE r == p[1]
           s == p[2]
<1>1. /\ r \in C /\ s \in C /\ r.at < s.at
      /\ \A x \in C : x.at <= r.at \/ s.at <= x.at
      /\ ConsumptionDelta(r, s) >= 0
  BY DEF UsablePairs, Consecutive
<1> HIDE DEF r, s
<1>2. /\ r.at \in Nat /\ s.at \in Nat /\ r.burned \in Nat /\ s.burned \in Nat
      /\ r.used \in 0..100 /\ s.used \in 0..100 /\ r.remaining \in Nat /\ s.remaining \in Nat
      /\ r.burned <= s.burned /\ s.used - r.used <= s.burned - r.burned
      /\ \/ r.remaining = 100 - r.used /\ s.remaining = 100 - s.used
         \/ r.used = s.used /\ r.remaining = s.remaining
  BY <1>1 DEF Countable
<1>3. ConsumptionDelta(r, s) \in Nat /\ ConsumptionDelta(r, s) <= s.burned - r.burned
  <2> DEFINE u == s.used - r.used
             w == r.remaining - s.remaining
             b == s.burned - r.burned
  <2>1. u \in Int /\ w = u /\ b \in Int /\ 0 <= b /\ u <= b
    <3>1. /\ \A x, y \in 0..100 : (100 - x) - (100 - y) = y - x
          /\ \A x \in 0..100 : x - x = 0
          /\ \A x \in Nat : x - x = 0
          /\ \A x, y \in 0..100 : y - x \in Int
          /\ \A x, y \in Nat : y - x \in Int /\ (x <= y => 0 <= y - x)
      OBVIOUS
    <3>2. w = u
      <4>1. CASE r.remaining = 100 - r.used /\ s.remaining = 100 - s.used
        <5>1. w = (100 - r.used) - (100 - s.used)  BY <4>1
        <5>2. r.used \in 0..100 /\ s.used \in 0..100  BY <1>2
        <5> QED BY <3>1, <5>1, <5>2
      <4>2. CASE r.used = s.used /\ r.remaining = s.remaining
        <5>1. u = r.used - r.used /\ w = r.remaining - r.remaining  BY <4>2
        <5>2. u = 0  BY <1>2, <3>1, <5>1
        <5>3. w = 0  BY <1>2, <3>1, <5>1
        <5> QED BY <5>2, <5>3
      <4> QED BY <1>2, <4>1, <4>2
    <3> QED BY <1>2, <3>1, <3>2
  <2>2. ConsumptionDelta(r, s) = IF u > 0 THEN u ELSE IF w >= 0 THEN w ELSE IF u = 0 THEN 0 ELSE -1
    BY <2>1 DEF ConsumptionDelta
  <2> HIDE DEF u, w, b
  <2>3. ConsumptionDelta(r, s) \in Nat /\ ConsumptionDelta(r, s) <= b  BY <1>1, <2>1, <2>2
  <2> QED BY <2>3 DEF b
<1>4. s.at - r.at \in Nat \ {0}  BY <1>1, <1>2
<1> QED BY <1>1, <1>3, <1>4 DEF r, s

(* Neither do all the pairs: they do not overlap. *)
LEMMA RateFromSamplesIsReal ==
  ASSUME NEW C, Countable(C), NEW since \in Int
  PROVE  LET rate == RateFromSamples(C, since)
         IN  /\ rate.found \in BOOLEAN
             /\ rate.found =>
                  /\ rate.delta \in Nat /\ rate.time \in Nat \ {0} /\ rate.confidence \in {"medium", "high"}
                  /\ \E first, last \in C : /\ first.at = rate.since /\ last.at = rate.until
                                            /\ rate.delta <= last.burned - first.burned
                                            /\ rate.time <= last.at - first.at
<1> DEFINE F == {s \in C : since <= 0 \/ s.at >= since}
           P == UsablePairs(F)
           D == [p \in P |-> ConsumptionDelta(p[1], p[2])]
           T == [p \in P |-> p[2].at - p[1].at]
           A == {s.at : s \in F}
           rate == RateFromSamples(C, since)
<1>1. CASE P = {}
  BY <1>1 DEF RateFromSamples, NoRate
<1>2. CASE P # {}
  <2>1. Countable(F)
    <3>1. F \in SUBSET C  OBVIOUS
    <3>2. IsFiniteSet(F)  BY <3>1, FS_Subset DEF Countable
    <3> HIDE DEF F
    <3> QED BY <3>1, <3>2 DEF Countable
  <2>2. /\ rate.found = TRUE /\ rate.delta = SumFunction(D) /\ rate.time = SumFunction(T)
        /\ rate.confidence \in {"medium", "high"} /\ rate.since = Min(A) /\ rate.until = Max(A)
    BY <1>2 DEF RateFromSamples
  <2> HIDE DEF F, rate
  <2>3. P \in SUBSET (F \X F)  BY DEF UsablePairs
  <2>4. IsFiniteSet(P)
    <3>1. IsFiniteSet(F)  BY <2>1 DEF Countable
    <3>2. IsFiniteSet(F \X F)  BY <3>1, FS_Product
    <3> HIDE DEF P
    <3> QED BY <2>3, <3>2, FS_Subset
  <2>5. \A p \in P : /\ p[1] \in F /\ p[2] \in F /\ p[1].at < p[2].at
                     /\ \A s \in F : s.at <= p[1].at \/ p[2].at <= s.at
                     /\ D[p] \in Nat /\ D[p] <= p[2].burned - p[1].burned
                     /\ T[p] \in Nat \ {0} /\ T[p] = p[2].at - p[1].at
    BY <2>1, DeltaIsReal
  <2> HIDE DEF P
  <2>6. /\ SumFunction(D) = SumFunctionOnSet(D, P) /\ SumFunction(T) = SumFunctionOnSet(T, P)
    BY DEF SumFunction
  <2> HIDE DEF D, T
  <2>7. SumFunctionOnSet(D, P) \in Nat  BY <2>4, <2>5, SumOfNaturals
  <2>8. SumFunctionOnSet(T, P) \in Nat /\ \A p \in P : T[p] <= SumFunctionOnSet(T, P)
    BY <2>4, <2>5, SumOfNaturals
  <2>9. SumFunctionOnSet(T, P) > 0
    <3>1. PICK p \in P : TRUE  BY <1>2
    <3> QED BY <2>5, <2>8, <3>1
  <2>10. A \in SUBSET Nat /\ A # {} /\ IsFiniteSet(A)
    <3>1. A \in SUBSET Nat  BY <2>1 DEF Countable
    <3>2. A # {}  BY <1>2, <2>5
    <3>3. IsFiniteSet(A)
      <4> DEFINE f == [s \in F |-> s.at]
      <4>1. A = {f[s] : s \in F}  OBVIOUS
      <4>2. IsFiniteSet(F)  BY <2>1 DEF Countable
      <4>3. IsFiniteSet({f[s] : s \in F})
        <5> HIDE DEF f
        <5> QED BY <4>2, ImageIsFinite
      <4> QED BY <4>1, <4>3
    <3> QED BY <3>1, <3>2, <3>3
  <2>11. /\ Min(A) \in A /\ \A x \in A : Min(A) <= x
         /\ Max(A) \in A /\ \A x \in A : x <= Max(A)
    <3> HIDE DEF A
    <3> QED BY <2>10, MinOfNaturals, MaxOfIntegers
  <2>12. PICK b \in F : b.at = Min(A)  BY <2>11
  <2>13. PICK t \in F : t.at = Max(A)  BY <2>11
  <2>14. b.at <= t.at  BY <2>11, <2>12, <2>13
  <2> DEFINE at == [s \in F |-> s.at]
             burned == [s \in F |-> s.burned]
  <2>15. /\ at \in [F -> Int] /\ burned \in [F -> Int]
         /\ at[b] = b.at /\ at[t] = t.at /\ burned[b] = b.burned /\ burned[t] = t.burned
         /\ \A r, s \in F : at[r] = at[s] => r = s
         /\ \A r, s \in F : at[r] <= at[s] => burned[r] <= burned[s] /\ at[r] <= at[s]
    BY <2>1 DEF Countable
  <2>16. \A p \in P : /\ D[p] \in Int /\ D[p] <= burned[p[2]] - burned[p[1]]
                      /\ T[p] \in Int /\ T[p] <= at[p[2]] - at[p[1]]
                      /\ at[p[1]] < at[p[2]]
                      /\ \A s \in F : at[s] <= at[p[1]] \/ at[p[2]] <= at[s]
    BY <2>5
  <2>17. at[b] <= at[t] /\ \A s \in F : at[b] <= at[s] /\ at[s] <= at[t]
    BY <2>11, <2>12, <2>13, <2>14
  <2> HIDE DEF at, burned, A
  <2>18. SumFunctionOnSet(D, P) <= burned[t] - burned[b]
    <3>1. \A r, s \in F : at[r] <= at[s] => burned[r] <= burned[s]  BY <2>15
    <3>2. \A p \in P : /\ D[p] \in Int /\ D[p] <= burned[p[2]] - burned[p[1]]
                       /\ at[p[1]] < at[p[2]]
                       /\ \A s \in F : at[s] <= at[p[1]] \/ at[p[2]] <= at[s]
      BY <2>16
    <3>3. \A p \in P : at[b] <= at[p[1]] /\ at[p[2]] <= at[t]  BY <2>3, <2>17
    <3>4. \A r, s \in F : at[r] = at[s] => r = s  BY <2>15
    <3>5. at \in [F -> Int] /\ burned \in [F -> Int] /\ at[b] <= at[t]  BY <2>15, <2>17
    <3> QED BY <2>3, <2>4, <3>1, <3>2, <3>3, <3>4, <3>5, Telescope
  <2>19. SumFunctionOnSet(T, P) <= at[t] - at[b]
    <3>1. \A r, s \in F : at[r] <= at[s] => at[r] <= at[s]  OBVIOUS
    <3>2. \A p \in P : /\ T[p] \in Int /\ T[p] <= at[p[2]] - at[p[1]]
                       /\ at[p[1]] < at[p[2]]
                       /\ \A s \in F : at[s] <= at[p[1]] \/ at[p[2]] <= at[s]
      BY <2>16
    <3>3. \A p \in P : at[b] <= at[p[1]] /\ at[p[2]] <= at[t]  BY <2>3, <2>17
    <3>4. \A r, s \in F : at[r] = at[s] => r = s  BY <2>15
    <3>5. at \in [F -> Int] /\ at[b] <= at[t]  BY <2>15, <2>17
    <3> QED BY <2>3, <2>4, <3>1, <3>2, <3>3, <3>4, <3>5, Telescope
  <2>20. b \in C /\ t \in C  BY DEF F
  <2>21. /\ rate.delta <= t.burned - b.burned /\ rate.time <= t.at - b.at
         /\ b.at = rate.since /\ t.at = rate.until
    BY <2>2, <2>6, <2>12, <2>13, <2>15, <2>18, <2>19
  <2>22. /\ rate.found \in BOOLEAN /\ rate.delta \in Nat /\ rate.time \in Nat \ {0}
         /\ rate.confidence \in {"medium", "high"}
    <3>1. SumFunctionOnSet(T, P) \in Nat \ {0}  BY <2>8, <2>9
    <3> QED BY <2>2, <2>6, <2>7, <3>1
  <2> QED BY <2>20, <2>21, <2>22 DEF rate
<1> QED BY <1>1, <1>2

Compatible(i) == {s \in samples : SampleCompatible(s, i)}

(* The samples compatible with an item are such samples. *)
LEMMA CompatibleIsCountable ==
  ASSUME IInv, NEW i
  PROVE  Countable(Compatible(i)) /\ \A s \in Compatible(i) : s \in samples /\ s.id = i.id
<1> DEFINE C == Compatible(i)
<1>1. \A s \in C : s \in samples /\ s.id = i.id /\ SampleShape(s)
  BY DEF Compatible, SampleCompatible, IInv, SampleInv
<1>2. IsFiniteSet(C)
  <2>1. IsFiniteSet(samples) /\ C \in SUBSET samples  BY <1>1 DEF IInv, SampleInv
  <2> HIDE DEF C
  <2> QED BY <2>1, FS_Subset
<1> HIDE DEF C
<1>3. \A s \in C : s.at \in Nat /\ s.burned \in Nat /\ s.used \in 0..100 /\ s.remaining \in Nat
  BY <1>1 DEF SampleShape
<1>4. \A r, s \in C : r.at = s.at => r = s  BY <1>1 DEF IInv, SeriesInv
<1>5. ASSUME NEW r \in C, NEW s \in C, r.at < s.at
      PROVE  /\ r.burned <= s.burned /\ s.used - r.used <= s.burned - r.burned
             /\ \/ r.remaining = 100 - r.used /\ s.remaining = 100 - s.used
                \/ r.used = s.used /\ r.remaining = s.remaining
  <2>1. r.id = i.id /\ s.id = i.id /\ r \in samples /\ s \in samples  BY <1>1
  <2>2. r.burned <= s.burned /\ s.used - r.used <= s.burned - r.burned
    BY <1>5, <2>1 DEF IInv, BurnInv
  <2>3. CASE i.id = CreditId  BY <1>1, <2>1, <2>2, <2>3 DEF SampleShape
  <2>4. CASE i.id # CreditId  BY <1>1, <2>1, <2>2, <2>4 DEF SampleShape
  <2> QED BY <2>3, <2>4
<1>6. Countable(C)  BY <1>2, <1>3, <1>4, <1>5 DEF Countable
<1> QED BY <1>1, <1>6 DEF C

(* A rate is that of the compatible samples since some time. *)
LEMMA RateCases ==
  ASSUME IInv, NEW i
  PROVE  LET rate == RateForItem(samples, i, now)
             C    == Compatible(i)
         IN  /\ \/ rate = NoRate
                \/ \E since \in Int : rate = RateFromSamples(C, since)
             /\ Cardinality(C) >= 2 /\ RateFromSamples(C, 0).found => rate.found
<1> DEFINE C      == Compatible(i)
           At(h)  == RateFromSamples(C, now - RecentHorizons[h])
           usable == {h \in DOMAIN RecentHorizons : At(h).found}
           rate   == RateForItem(samples, i, now)
<1>1. rate = IF Cardinality(C) < 2 THEN NoRate
             ELSE IF usable # {} THEN At(Min(usable)) ELSE RateFromSamples(C, 0)
  BY DEF RateForItem, Compatible
<1>2. usable # {} => Min(usable) \in usable
  <2>1. DOMAIN RecentHorizons = 1..3  BY DEF RecentHorizons
  <2>2. usable \in SUBSET Nat  BY <2>1
  <2> HIDE DEF usable
  <2> QED BY <2>2, MinOfNaturals
<1>3. \A h \in DOMAIN RecentHorizons : now - RecentHorizons[h] \in Int
  <2>1. \A h \in DOMAIN RecentHorizons : RecentHorizons[h] \in Int  BY DEF RecentHorizons
  <2> QED BY <2>1 DEF IInv, UpstreamInv
<1>4. usable # {} => At(Min(usable)).found /\ \E since \in Int : At(Min(usable)) = RateFromSamples(C, since)
  BY <1>2, <1>3
<1>5. IsFiniteSet(C)  BY CompatibleIsCountable DEF Countable
<1>6. Cardinality(C) \in Nat  BY <1>5, FS_CardinalityType
<1> HIDE DEF usable, rate, C, At
<1>7. CASE Cardinality(C) < 2  BY <1>1, <1>6, <1>7 DEF rate, C
<1>8. CASE ~(Cardinality(C) < 2) /\ usable # {}
  <2>1. rate = At(Min(usable))  BY <1>1, <1>8
  <2>2. rate.found /\ \E since \in Int : rate = RateFromSamples(C, since)  BY <1>4, <1>8, <2>1
  <2> QED BY <2>2 DEF rate, C
<1>9. CASE ~(Cardinality(C) < 2) /\ usable = {}
  <2>1. rate = RateFromSamples(C, 0) /\ 0 \in Int  BY <1>1, <1>9
  <2> QED BY <2>1 DEF rate, C
<1> QED BY <1>7, <1>8, <1>9

(* So what is found for an item is a real rate. *)
LEMMA RateIsReal ==
  ASSUME IInv, NEW i
  PROVE  LET rate == RateForItem(samples, i, now)
         IN  /\ rate.found \in BOOLEAN
             /\ rate.found =>
                  /\ rate.delta \in Nat /\ rate.time \in Nat \ {0} /\ rate.confidence \in {"medium", "high"}
                  /\ \E first, last \in samples :
                       /\ first.id = i.id /\ first.at = rate.since
                       /\ last.id = i.id /\ last.at = rate.until
                       /\ rate.delta <= last.burned - first.burned
                       /\ rate.time <= last.at - first.at
<1> DEFINE rate == RateForItem(samples, i, now)
           C == Compatible(i)
<1>1. Countable(C) /\ \A s \in C : s \in samples /\ s.id = i.id  BY CompatibleIsCountable
<1>2. CASE rate = NoRate
  <2>1. rate.found = FALSE  BY <1>2 DEF NoRate
  <2> QED BY <2>1
<1>3. ASSUME NEW since \in Int, rate = RateFromSamples(C, since)
      PROVE  /\ rate.found \in BOOLEAN
             /\ rate.found =>
                  /\ rate.delta \in Nat /\ rate.time \in Nat \ {0} /\ rate.confidence \in {"medium", "high"}
                  /\ \E first, last \in C : /\ first.at = rate.since /\ last.at = rate.until
                                            /\ rate.delta <= last.burned - first.burned
                                            /\ rate.time <= last.at - first.at
  <2> HIDE DEF rate, C
  <2> QED BY <1>1, <1>3, RateFromSamplesIsReal
<1>4. rate = NoRate \/ \E since \in Int : rate = RateFromSamples(C, since)  BY RateCases
<1> HIDE DEF rate, C
<1> QED BY <1>1, <1>2, <1>3, <1>4 DEF rate

(* The first part of RatesAreReal. *)
LEMMA TypesFollow == IInv => TypeOK
<1> SUFFICES ASSUME IInv PROVE TypeOK  OBVIOUS
<1>1. now \in Nat /\ balance \in Balances  BY DEF IInv, UpstreamInv
<1>2. \A q \in DOMAIN Quota : upstream[q].used \in 0..100 /\ upstream[q].resetAt > now
  BY DEF IInv, UpstreamInv
<1>3. \A p \in ProviderIds : cache[p].at \in Nat /\ cache[p].at <= now /\ cache[p].failed \in BOOLEAN
  BY DEF IInv, CacheInv
<1>4. \A s \in samples : s.at <= now
  <2> SUFFICES ASSUME NEW s \in samples PROVE s.at <= now  OBVIOUS
  <2>1. s.provider \in ProviderIds /\ s.at \in Nat /\ s.at <= cache[s.provider].at
    BY DEF IInv, SampleInv, SampleShape
  <2> QED BY <1>1, <1>3, <2>1
<1>5. \A s \in samples : Cardinality({r \in samples : SeriesKey(r) = SeriesKey(s)}) <= MaxPerSeries
  BY DEF IInv, SeriesInv
<1>6. \A r, s \in samples : r.id = s.id /\ r.at = s.at => r = s  BY DEF IInv, SeriesInv
<1> QED BY <1>1, <1>2, <1>3, <1>4, <1>5, <1>6 DEF TypeOK

(* The second part: no rate exceeds the consumption. *)
LEMMA BurnFollows == IInv => BurnIsReal
<1> SUFFICES ASSUME IInv, NEW i \in Overview.items, RateForItem(samples, i, now).found
             PROVE  LET rate == RateForItem(samples, i, now)
                    IN  \E first, last \in samples :
                        /\ first.id = i.id /\ first.at = rate.since
                        /\ last.id = i.id /\ last.at = rate.until
                        /\ 0 <= rate.delta /\ rate.delta <= last.burned - first.burned
                        /\ 0 < rate.time /\ rate.time <= last.at - first.at
  BY DEF BurnIsReal
<1> DEFINE rate == RateForItem(samples, i, now)
<1>1. /\ rate.delta \in Nat /\ rate.time \in Nat \ {0}
      /\ \E first, last \in samples :
           /\ first.id = i.id /\ first.at = rate.since
           /\ last.id = i.id /\ last.at = rate.until
           /\ rate.delta <= last.burned - first.burned
           /\ rate.time <= last.at - first.at
  BY RateIsReal
<1> HIDE DEF rate
<1>2. 0 <= rate.delta /\ 0 < rate.time  BY <1>1
<1> QED BY <1>1, <1>2 DEF rate

(* The newest poll and the newest sample before it are a usable pair. *)
LEMMA AbsoluteFollows == IInv => AbsoluteRatesAreFound
<1> SUFFICES ASSUME IInv, NEW i \in Overview.items, i.id \in DOMAIN Quota, ~Quota[i.id].relative,
                    HasPair(i)
             PROVE  RateForItem(samples, i, now).found
  BY DEF AbsoluteRatesAreFound
<1> DEFINE C == Compatible(i)
           p == i.provider
<1>1. p \in ProviderIds /\ i \in Snapshot(p) /\ ItemShape(i, p)  BY OverviewShape
<1>2. i.id # CreditId  BY AdviceAssumption
<1>3. PICK s \in samples :
         /\ s.id = i.id /\ s.resetAt = i.resetAt /\ i.resetAt > 0
         /\ s.at < cache[p].at /\ s.used <= i.used
         /\ \A r \in samples : r.id = i.id => r.used <= i.used
  BY DEF HasPair
<1>4. PICK c \in samples : /\ c.id = i.id /\ c.at = cache[p].at /\ c.used = i.used
                           /\ c.resetAt = i.resetAt /\ c.resetMs = i.resetMs
  <2>1. PICK j \in cache[p].items : /\ i.id = j.id /\ i.used = j.used
                                   /\ i.resetAt = j.resetAt /\ i.resetMs = j.resetMs
    BY <1>1, SnapshotShape
  <2>2. s.id = j.id  BY <1>3, <2>1
  <2>3. PICK c \in samples : /\ c.id = j.id /\ c.at = cache[p].at /\ c.used = j.used
                             /\ c.resetAt = j.resetAt /\ c.resetMs = j.resetMs
    BY <1>1, <2>1, <2>2 DEF IInv, NewestInv
  <2> QED BY <2>1, <2>3
<1>5. /\ i.unit = "percent" /\ i.window = Quota[i.id].kind /\ i.kind = Quota[i.id].kind
      /\ i.resetMs = 0 /\ i.id \in Windows(p)
  BY <1>1, <1>2 DEF ItemShape, WindowShape
<1>6. ASSUME NEW r \in samples, r.id = i.id
      PROVE  /\ r.provider = p /\ r.unit = "percent" /\ r.window = i.window /\ r.kind = i.kind
             /\ r.resetMs = 0 /\ r.resetAt > 0 /\ r.at \in Nat /\ r.used \in 0..100
             /\ r.remaining = 100 - r.used
  <2>1. SampleShape(r)  BY DEF IInv, SampleInv
  <2>2. r.provider = p  BY <1>2, <1>5, <1>6, <2>1 DEF SampleShape, Windows
  <2> QED BY <1>2, <1>5, <1>6, <2>1, <2>2 DEF SampleShape
<1>7. s \in C /\ c \in C
  BY <1>3, <1>4, <1>5, <1>6 DEF Compatible, SampleCompatible, SamplesShareWindow, Agree
<1>8. \A r \in C : r \in samples /\ r.id = i.id /\ r.resetAt = i.resetAt
  <2> SUFFICES ASSUME NEW r \in C PROVE r \in samples /\ r.id = i.id /\ r.resetAt = i.resetAt  OBVIOUS
  <2>1. r \in samples /\ r.id = i.id /\ SamplesShareWindow(r, i)
    BY DEF Compatible, SampleCompatible
  <2>2. r.resetAt > 0 /\ i.resetAt > 0  BY <1>3, <1>6, <2>1
  <2>3. r.resetAt # 0 /\ i.resetAt # 0
    <3>1. ~(0 > 0)  OBVIOUS
    <3> QED BY <2>2, <3>1
  <2>4. r.resetAt = i.resetAt  BY <2>1, <2>3 DEF SamplesShareWindow
  <2> QED BY <2>1, <2>4
<1>9. IsFiniteSet(C)  BY CompatibleIsCountable DEF Countable
<1> HIDE DEF C
<1>10. PICK b \in C : b.at < c.at /\ \A x \in C : x.at < c.at => x.at <= b.at
  <2> DEFINE E == {x \in C : x.at < c.at}
             A == {x.at : x \in E}
             f == [x \in E |-> x.at]
  <2>1. IsFiniteSet(E)
    <3>1. E \in SUBSET C  OBVIOUS
    <3> HIDE DEF E
    <3> QED BY <1>9, <3>1, FS_Subset
  <2>2. IsFiniteSet(A)
    <3>1. A = {f[x] : x \in E}  OBVIOUS
    <3>2. IsFiniteSet({f[x] : x \in E})
      <4> HIDE DEF f, E
      <4> QED BY <2>1, ImageIsFinite
    <3> QED BY <3>1, <3>2
  <2>3. s \in E  BY <1>3, <1>4, <1>7
  <2>4. A \in SUBSET Int /\ A # {}
    <3>1. \A x \in E : x.at \in Int  BY <1>6, <1>8
    <3> QED BY <2>3, <3>1
  <2>5. \E m \in A : \A x \in A : x <= m
    <3> HIDE DEF A
    <3> QED BY <2>2, <2>4, FiniteMaximum
  <2> QED BY <2>5
<1>11. C = {x \in C : 0 <= 0 \/ x.at >= 0}  OBVIOUS
<1>12. <<b, c>> \in UsablePairs(C)
  <2>1. Consecutive(C, b, c)
    <3> SUFFICES ASSUME NEW x \in C PROVE x.at <= b.at \/ c.at <= x.at  BY <1>10 DEF Consecutive
    <3>1. x.at \in Nat /\ c.at \in Nat /\ b.at \in Nat  BY <1>6, <1>7, <1>8, <1>10
    <3> QED BY <1>10, <3>1
  <2>2. SamplesShareWindow(b, c)
    BY <1>6, <1>7, <1>8, <1>10 DEF SamplesShareWindow, Agree
  <2>3. ConsumptionDelta(b, c) >= 0
    <3> DEFINE u == c.used - b.used
               w == b.remaining - c.remaining
    <3>1. b.used \in 0..100 /\ c.used \in 0..100 /\ b.remaining = 100 - b.used /\ c.remaining = 100 - c.used
          /\ b.used <= c.used
      BY <1>3, <1>4, <1>6, <1>7, <1>8, <1>10
    <3>2. u \in Nat /\ w \in Nat
      <4>1. \A x, y \in 0..100 : x <= y => y - x \in Nat /\ (100 - x) - (100 - y) = y - x  OBVIOUS
      <4>2. w = (100 - b.used) - (100 - c.used)  BY <3>1
      <4>3. /\ c.used - b.used \in Nat
            /\ (100 - b.used) - (100 - c.used) = c.used - b.used
        <5> HIDE DEF u, w
        <5> QED BY <3>1, <4>1
      <4> QED BY <4>2, <4>3
    <3>3. ConsumptionDelta(b, c) = IF u > 0 THEN u ELSE IF w >= 0 THEN w ELSE IF u = 0 THEN 0 ELSE -1
      BY <3>1 DEF ConsumptionDelta
    <3> HIDE DEF u, w
    <3> QED BY <3>2, <3>3
  <2> QED BY <1>7, <1>10, <2>1, <2>2, <2>3 DEF UsablePairs
<1>13. RateFromSamples(C, 0).found
  <2>1. UsablePairs(C) # {}  BY <1>12
  <2> QED BY <1>11, <2>1 DEF RateFromSamples
<1>14. Cardinality(C) >= 2
  <2>1. s # c  BY <1>3, <1>4, <1>6
  <2>2. {s, c} \in SUBSET C  BY <1>7
  <2>3. Cardinality({s}) = 1 /\ IsFiniteSet({s})  BY FS_Singleton
  <2>4. {s} \cup {c} = {s, c}  OBVIOUS
  <2>5. Cardinality({s, c}) = 2
    <3>1. Cardinality({s} \cup {c}) = Cardinality({s}) + 1  BY <2>1, <2>3, FS_AddElement
    <3> QED BY <2>3, <2>4, <3>1
  <2> QED BY <1>9, <2>2, <2>5, FS_Subset, FS_CardinalityType
<1> QED BY <1>13, <1>14, RateCases DEF C

(* A burn rate never counts more than was consumed between its first and its last *)
(* sample, whatever was pruned, reset or given back, and two polls of one running *)
(* window with an absolute reset time yield one (history rateFromSamples, *)
(* consumptionDelta, samplesShareWindow). *)
THEOREM RatesAreRealHolds == Spec => []RatesAreReal
<1>1. IInv => RatesAreReal
  BY TypesFollow, BurnFollows, AbsoluteFollows DEF RatesAreReal
<1> QED BY <1>1, InvHolds, PTL

-----------------------------------------------------------------------------
(* The opportunities. *)

RateOf(i) == RateForItem(samples, i, now)
Offer(i)  == Opportunity(i, RateOf(i), QuotaWindowInfos(Overview.items, now), now)

(* An offer is that of an item with quota left, from the item's own rate. *)
LEMMA OfferOf ==
  ASSUME IInv, NEW opts, NEW op \in Opportunities(opts)
  PROVE  \E i \in Overview.items :
           /\ Considered(i, opts, now) /\ op = Offer(i)
           /\ opts.lowToo \/ op.confidence # "low"
           /\ op.raw > 0 /\ op.actionable > 0 /\ op.score > 0
<1> DEFINE items == Overview.items
           rates == BurnRateEstimates(items)
           infos == QuotaWindowInfos(items, now)
<1>1. PICK i \in items : Considered(i, opts, now) /\ op = Opportunity(i, rates[i.id], infos, now)
  BY DEF Opportunities, ExpiringUsage
<1>2. /\ opts.lowToo \/ op.confidence # "low"
      /\ op.raw > 0 /\ op.actionable > 0 /\ op.score > 0
  BY DEF Opportunities, ExpiringUsage
<1>3. rates[i.id] = RateOf(i)
  <2>1. \A j \in items : j.id = i.id => j = i  BY OverviewShape
  <2>2. (CHOOSE j \in items : j.id = i.id) = i  BY <2>1
  <2> HIDE DEF items
  <2>3. rates[i.id] = RateForItem(samples, CHOOSE j \in items : j.id = i.id, now)
    BY DEF BurnRateEstimates
  <2> QED BY <2>2, <2>3 DEF RateOf
<1> QED BY <1>1, <1>2, <1>3 DEF Offer

(* There are four urgencies. *)
LEMMA UrgencyRankType ==
  ASSUME NEW d \in Int
  PROVE  UrgencyRank(d) \in 0..3
BY DEF UrgencyRank, Hour

(* A quarter, rounded, is no more than the whole. *)
LEMMA RoundShrinks ==
  ASSUME NEW c \in Nat
  PROVE  Round(c, 4) \in Int /\ 0 <= Round(c, 4) /\ Round(c, 4) <= c
BY DEF Round

(* What the overlap leaves is within the raw waste and the parent's room. *)
LEMMA AdjustedShape ==
  ASSUME NEW child, NEW parent, NEW raw \in Nat, NEW urgency \in 0..3,
         parent.item.remaining \in Nat, parent.timeRemaining \in Int
  PROVE  LET adjusted == OverlapAdjusted(child, parent, raw, urgency)
         IN  /\ adjusted.actionable \in 0..raw
             /\ adjusted.actionable <= parent.item.remaining * Milli
             /\ adjusted.urgency \in 0..3
<1> DEFINE capped == Smaller(raw, AtLeastZero(parent.item.remaining) * Milli)
           adjusted == OverlapAdjusted(child, parent, raw, urgency)
<1>1. capped \in Nat /\ capped <= raw /\ capped <= parent.item.remaining * Milli
  BY DEF Smaller, AtLeastZero, Milli
<1>2. adjusted.actionable \in {Clamp(Round(capped, 4), 0, raw), Clamp(capped, 0, raw)}
  BY DEF OverlapAdjusted
<1>3. adjusted.urgency \in {urgency, Greater(urgency, UrgencyRank(parent.timeRemaining))}
  BY DEF OverlapAdjusted
<1>4. UrgencyRank(parent.timeRemaining) \in 0..3  BY UrgencyRankType
<1>5. adjusted.urgency \in 0..3
  <2> HIDE DEF adjusted
  <2> QED BY <1>3, <1>4 DEF Greater
<1> HIDE DEF capped, adjusted
<1>6. Round(capped, 4) \in 0..raw /\ Round(capped, 4) <= capped  BY <1>1, RoundShrinks
<1>7. /\ Clamp(Round(capped, 4), 0, raw) = Round(capped, 4) /\ Clamp(capped, 0, raw) = capped
  BY <1>1, <1>6 DEF Clamp
<1>8. adjusted.actionable \in 0..raw /\ adjusted.actionable <= capped
  BY <1>1, <1>2, <1>6, <1>7
<1>9. adjusted.actionable <= parent.item.remaining * Milli
  <2> DEFINE room == parent.item.remaining * Milli
  <2>1. room \in Nat  BY DEF Milli
  <2>2. capped <= room  BY <1>1
  <2> HIDE DEF room
  <2>3. adjusted.actionable <= room  BY <1>1, <1>8, <2>1, <2>2
  <2> QED BY <2>3 DEF room
<1> QED BY <1>5, <1>8, <1>9 DEF adjusted

(* What will be used before a reset is some part of the limit. *)
LEMMA NaturalUseType ==
  ASSUME IInv, NEW i \in Overview.items, i.id # CreditId, i.resetAt > now
  PROVE  LET info == QuotaWindowInfo(i, now)
         IN  /\ NaturalUse(info, RateOf(i)) \in 0..(100 * Milli)
             /\ info.timeRemaining = i.resetAt - now /\ info.timeRemaining \in Nat \ {0}
             /\ info.duration \in Nat /\ info.duration = InferWindowDuration(i)
             /\ info.elapsed \in Int /\ info.item = i
             /\ info.elapsed > 0 => /\ info.duration > 0
                                    /\ info.elapsed = info.duration - info.timeRemaining
             /\ info.resetAt = i.resetAt
             /\ info.duration > 0 => info.startedAt = i.resetAt - info.duration
<1> DEFINE info == QuotaWindowInfo(i, now)
           rate == RateOf(i)
           left == i.resetAt - now
           d == InferWindowDuration(i)
<1>1. /\ i.used \in 0..100 /\ Total(i) = 100 /\ i.resetAt \in Nat /\ now \in Nat
  BY OverviewShape, ItemReadings DEF IInv, UpstreamInv
<1>2. left \in Nat \ {0}  BY <1>1
<1>3. d \in Nat  BY DEF InferWindowDuration, Hour
<1>4. /\ info.timeRemaining = left /\ info.duration = d /\ info.item = i /\ info.resetAt = i.resetAt
      /\ info.elapsed = (IF d > 0 THEN d - left ELSE 0)
      /\ d > 0 => info.startedAt = i.resetAt - d
  BY DEF QuotaWindowInfo
<1> HIDE DEF left, d
<1>5. /\ info.elapsed \in Int
      /\ info.elapsed > 0 => d > 0 /\ info.elapsed = d - left
  BY <1>2, <1>3, <1>4
<1>6. EstimateNaturalUse(i, d, left) \in 0..(100 * Milli)
  <2> DEFINE e == d - left
  <2>1. e \in Int  BY <1>2, <1>3
  <2>2. i.used * left * Milli \in Int  BY <1>1, <1>2 DEF Milli
  <2> DEFINE x == i.used * left * Milli
  <2>3. CASE d <= 0 \/ e <= 0
    <3>1. EstimateNaturalUse(i, d, left) = 0  BY <2>3 DEF EstimateNaturalUse
    <3> QED BY <3>1 DEF Milli
  <2>4. CASE ~(d <= 0 \/ e <= 0)
    <3>1. EstimateNaturalUse(i, d, left) = Clamp(Round(x, e), 0, 100 * Milli)
      BY <1>1, <2>4 DEF EstimateNaturalUse
    <3>2. e \in Nat \ {0} /\ x \in Int  BY <2>1, <2>2, <2>4
    <3> HIDE DEF x, e
    <3>3. Round(x, e) \in Int  BY <3>2, RoundBounds
    <3>4. 100 * Milli \in Int /\ 0 <= 100 * Milli  BY MilliType
    <3> QED BY <3>1, <3>3, <3>4, ClampBounds
  <2> QED BY <2>3, <2>4
<1>7. NaturalUse(info, rate) \in 0..(100 * Milli)
  <2> DEFINE v == IF rate.found THEN Round(rate.delta * info.timeRemaining * Milli, rate.time)
                  ELSE IF info.elapsed > 0 THEN EstimateNaturalUse(i, d, left) ELSE 0
  <2>1. NaturalUse(info, rate) = Clamp(v, 0, 100 * Milli)
    BY <1>1, <1>4 DEF NaturalUse
  <2>2. v \in Int
    <3>1. CASE rate.found
      <4>1. rate.delta \in Nat /\ rate.time \in Nat \ {0}  BY <3>1, RateIsReal DEF RateOf
      <4>2. rate.delta * info.timeRemaining * Milli \in Int
        <5> HIDE DEF rate, info
        <5>1. \A x \in Nat, y \in Nat : x * y * Milli \in Int  BY DEF Milli
        <5> QED BY <1>2, <1>4, <4>1, <5>1
      <4> DEFINE x == rate.delta * info.timeRemaining * Milli
      <4>3. v = Round(x, rate.time)  BY <3>1
      <4>4. x \in Int  BY <4>2
      <4> HIDE DEF x, rate, info, v
      <4> QED BY <4>1, <4>3, <4>4, RoundBounds
    <3>2. CASE ~rate.found
      <4>1. v = IF info.elapsed > 0 THEN EstimateNaturalUse(i, d, left) ELSE 0  BY <3>2
      <4> HIDE DEF v, info
      <4> QED BY <1>6, <4>1
    <3> QED BY <3>1, <3>2
  <2> HIDE DEF v, rate, info
  <2>3. 100 * Milli \in Int /\ 0 <= 100 * Milli  BY MilliType
  <2> QED BY <2>1, <2>2, <2>3, ClampBounds
<1> HIDE DEF info, rate
<1>8. info.timeRemaining = i.resetAt - now /\ info.timeRemaining \in Nat \ {0}
  BY <1>2, <1>4 DEF left
<1> QED BY <1>1, <1>2, <1>3, <1>4, <1>5, <1>7, <1>8 DEF info, rate, d

(* Of finitely many longer windows one is the best, and no other is shorter. *)
LEMMA BestParentExists ==
  ASSUME NEW parents, parents # {}, \A q \in parents : q.duration \in Nat /\ q.resetAt \in Nat
  PROVE  /\ BestParentWindow(parents) \in parents
         /\ \A q \in parents : BestParentWindow(parents).duration <= q.duration
<1> DEFINE D == {q.duration : q \in parents}
<1>1. PICK d \in D : \A x \in D : d <= x
  <2>1. D \in SUBSET Nat /\ D # {}  OBVIOUS
  <2> HIDE DEF D
  <2> QED BY <2>1, NatMinimum
<1> DEFINE E == {q \in parents : q.duration = d}
           R == {q.resetAt : q \in E}
<1>2. PICK r \in R : \A x \in R : r <= x
  <2>1. R \in SUBSET Nat /\ R # {}  BY <1>1
  <2> HIDE DEF R
  <2> QED BY <2>1, NatMinimum
<1>3. PICK p \in E : p.resetAt = r  BY <1>2
<1>4. \A q \in parents : \/ p.duration < q.duration
                         \/ p.duration = q.duration /\ p.resetAt <= q.resetAt
  <2> SUFFICES ASSUME NEW q \in parents
               PROVE  p.duration < q.duration \/ (p.duration = q.duration /\ p.resetAt <= q.resetAt)
    OBVIOUS
  <2>1. p.duration <= q.duration /\ p.duration \in Nat /\ q.duration \in Nat  BY <1>1, <1>3
  <2>2. CASE p.duration = q.duration  BY <1>2, <1>3, <2>2
  <2>3. CASE p.duration # q.duration  BY <2>1, <2>3
  <2> QED BY <2>2, <2>3
<1>5. p \in parents  BY <1>3
<1> DEFINE b == BestParentWindow(parents)
<1>6. /\ b \in parents
      /\ \A q \in parents : \/ b.duration < q.duration
                            \/ b.duration = q.duration /\ b.resetAt <= q.resetAt
  BY <1>4, <1>5 DEF BestParentWindow
<1> HIDE DEF b
<1>7. \A q \in parents : b.duration <= q.duration  BY <1>6
<1> QED BY <1>6, <1>7 DEF b

(* The windows the overlap looks at are those of the items. *)
LEMMA InfosShape ==
  ASSUME IInv, NEW info \in QuotaWindowInfos(Overview.items, now)
  PROVE  \E j \in Overview.items :
           /\ info = QuotaWindowInfo(j, now) /\ info.item = j
           /\ j.visible /\ ~j.bank /\ j.resetAt > now /\ InferWindowDuration(j) > 0
           /\ j.id # CreditId /\ j.remaining \in Nat
           /\ info.duration = InferWindowDuration(j) /\ info.duration \in Nat
           /\ info.resetAt = j.resetAt /\ info.resetAt \in Nat /\ info.timeRemaining \in Int
           /\ info.startedAt = j.resetAt - InferWindowDuration(j)
<1>1. PICK j \in Overview.items :
        /\ info = QuotaWindowInfo(j, now)
        /\ j.visible /\ ~j.bank /\ j.resetAt > now /\ InferWindowDuration(j) > 0
  BY DEF QuotaWindowInfos
<1>2. ItemShape(j, j.provider) /\ now \in Nat  BY OverviewShape DEF IInv, UpstreamInv
<1>3. j.id # CreditId
  <2>1. CASE j.id = CreditId
    <3>1. j.resetAt = 0  BY <1>2, <2>1, ItemReadings
    <3> QED BY <1>1, <1>2, <3>1
  <2> QED BY <2>1
<1>4. j.remaining \in Nat /\ j.resetAt \in Nat
  <2>1. j.remaining \in 0..100 /\ j.resetAt \in Nat  BY <1>2, <1>3, ItemReadings
  <2> QED BY <2>1
<1>5. InferWindowDuration(j) \in Nat  BY DEF InferWindowDuration, Hour
<1>6. /\ info.item = j /\ info.duration = InferWindowDuration(j) /\ info.resetAt = j.resetAt
      /\ info.timeRemaining = j.resetAt - now
      /\ info.startedAt = j.resetAt - InferWindowDuration(j)
  BY <1>1 DEF QuotaWindowInfo
<1>7. info.timeRemaining \in Int  BY <1>2, <1>4, <1>6
<1> QED BY <1>1, <1>3, <1>4, <1>5, <1>6, <1>7

Adjusted(i, raw) ==
  LET info    == QuotaWindowInfo(i, now)
      parents == ParentWindows(info, QuotaWindowInfos(Overview.items, now))
      own     == UrgencyRank(info.timeRemaining)
  IN  IF parents = {} THEN [actionable |-> raw, urgency |-> own]
      ELSE OverlapAdjusted(info, BestParentWindow(parents), raw, own)

(* What is offered of an item, and of the shortest longer window beside it. *)
LEMMA AdjustedIsBounded ==
  ASSUME IInv, NEW i \in Overview.items, i.id # CreditId, i.resetAt > now, NEW raw \in Nat
  PROVE  /\ Adjusted(i, raw).actionable \in 0..raw
         /\ Adjusted(i, raw).urgency \in 0..3
         /\ LET longer == {j \in Overview.items : LongerWindow(i, j)}
            IN  longer # {} => \E j \in longer :
                  /\ Adjusted(i, raw).actionable <= j.remaining * Milli
                  /\ \A k \in longer : InferWindowDuration(j) <= InferWindowDuration(k)
<1> DEFINE info    == QuotaWindowInfo(i, now)
           infos   == QuotaWindowInfos(Overview.items, now)
           parents == ParentWindows(info, infos)
           own     == UrgencyRank(info.timeRemaining)
           longer  == {j \in Overview.items : LongerWindow(i, j)}
           best    == BestParentWindow(parents)
<1>1. /\ info.timeRemaining \in Nat \ {0} /\ info.duration = InferWindowDuration(i) /\ info.item = i
      /\ info.resetAt = i.resetAt /\ info.duration \in Nat
      /\ info.duration > 0 => info.startedAt = i.resetAt - InferWindowDuration(i)
  BY NaturalUseType
<1>2. own \in 0..3
  <2>1. info.timeRemaining \in Int  BY <1>1
  <2> HIDE DEF info
  <2> QED BY <2>1, UrgencyRankType
<1>3. ASSUME NEW j \in Overview.items, LongerWindow(i, j)
      PROVE  QuotaWindowInfo(j, now) \in parents
  <2>1. /\ j.visible /\ ~j.bank /\ j.resetAt > now /\ InferWindowDuration(j) > 0
        /\ 0 < InferWindowDuration(i)
    <3>1. /\ j.visible /\ ~j.bank /\ j.resetAt > now
          /\ 0 < InferWindowDuration(i) /\ InferWindowDuration(i) < InferWindowDuration(j)
      BY <1>3 DEF LongerWindow
    <3>2. InferWindowDuration(j) \in Nat /\ InferWindowDuration(i) \in Nat
      BY DEF InferWindowDuration, Hour
    <3> QED BY <3>1, <3>2
  <2>2. j.remaining \in Nat /\ j.remaining >= 0
    <3>1. ItemShape(j, j.provider)  BY OverviewShape
    <3>2. j.remaining \in Nat  BY <3>1 DEF ItemShape, Item
    <3> QED BY <3>2
  <2>3. QuotaWindowInfo(j, now) \in infos  BY <2>1, <2>2 DEF QuotaWindowInfos
  <2>4. /\ QuotaWindowInfo(j, now).item = j /\ QuotaWindowInfo(j, now).resetAt = j.resetAt
        /\ QuotaWindowInfo(j, now).duration = InferWindowDuration(j)
        /\ QuotaWindowInfo(j, now).startedAt = j.resetAt - InferWindowDuration(j)
    BY <2>1 DEF QuotaWindowInfo
  <2> HIDE DEF info, infos
  <2>5. 0 < info.duration /\ info.duration > 0  BY <1>1, <2>1
  <2>6. InferWindowDuration(j) > InferWindowDuration(i)
    <3>1. InferWindowDuration(j) \in Nat /\ InferWindowDuration(i) \in Nat
      BY DEF InferWindowDuration, Hour
    <3> QED BY <1>3, <3>1 DEF LongerWindow
  <2>7. /\ j.base # "" /\ i.base # "" /\ j.provider = i.provider /\ j.base = i.base
        /\ j.unit = i.unit /\ j.id # i.id
    BY <1>3 DEF LongerWindow
  <2>8. WindowsOverlap(info, QuotaWindowInfo(j, now))
    BY <1>1, <1>3, <2>4, <2>5 DEF WindowsOverlap, LongerWindow
  <2> QED BY <1>1, <2>3, <2>4, <2>5, <2>6, <2>7, <2>8 DEF ParentWindows, OverlapFamily, HasOverlapFamily
<1>4. ASSUME NEW q \in parents
      PROVE  /\ q.item \in longer /\ q.item.remaining \in Nat /\ q.timeRemaining \in Int
             /\ q.duration = InferWindowDuration(q.item) /\ q.duration \in Nat /\ q.resetAt \in Nat
  <2>1. q \in infos  BY DEF ParentWindows
  <2> HIDE DEF infos
  <2>2. PICK j \in Overview.items :
           /\ q.item = j
           /\ j.visible /\ ~j.bank /\ j.resetAt > now /\ InferWindowDuration(j) > 0
           /\ j.remaining \in Nat
           /\ q.duration = InferWindowDuration(j) /\ q.duration \in Nat
           /\ q.resetAt = j.resetAt /\ q.resetAt \in Nat /\ q.timeRemaining \in Int
           /\ q.startedAt = j.resetAt - InferWindowDuration(j)
    BY <2>1, InfosShape DEF infos
  <2>3. /\ HasOverlapFamily(info.item) /\ HasOverlapFamily(q.item) /\ info.duration > 0
        /\ q.item.id # info.item.id /\ OverlapFamily(q.item) = OverlapFamily(info.item)
        /\ q.item.unit = info.item.unit /\ q.duration > info.duration /\ WindowsOverlap(info, q)
    BY DEF ParentWindows
  <2> HIDE DEF info
  <2>4. /\ j.provider = i.provider /\ j.base = i.base /\ i.base # "" /\ j.id # i.id /\ j.unit = i.unit
    BY <1>1, <2>2, <2>3 DEF OverlapFamily, HasOverlapFamily
  <2>5. 0 < InferWindowDuration(i) /\ InferWindowDuration(i) < InferWindowDuration(j)
    <3>1. info.duration \in Nat /\ q.duration \in Nat /\ q.duration > info.duration /\ info.duration > 0
      BY <1>1, <2>2, <2>3
    <3>2. info.duration < q.duration /\ 0 < info.duration  BY <3>1
    <3> QED BY <1>1, <2>2, <3>2
  <2>6. /\ i.resetAt - InferWindowDuration(i) < j.resetAt
        /\ j.resetAt - InferWindowDuration(j) < i.resetAt
    BY <1>1, <2>2, <2>3 DEF WindowsOverlap
  <2>7. LongerWindow(i, j)  BY <2>2, <2>4, <2>5, <2>6 DEF LongerWindow
  <2> QED BY <2>2, <2>7
<1>5. CASE parents = {}
  <2>1. Adjusted(i, raw) = [actionable |-> raw, urgency |-> own]  BY <1>5 DEF Adjusted
  <2>2. longer = {}  BY <1>3, <1>5
  <2>3. raw \in 0..raw  OBVIOUS
  <2> HIDE DEF longer, own
  <2> QED BY <1>2, <2>1, <2>2, <2>3 DEF longer
<1>6. CASE parents # {}
  <2>1. Adjusted(i, raw) = OverlapAdjusted(info, best, raw, own)  BY <1>6 DEF Adjusted
  <2> HIDE DEF longer, own, info, infos, parents
  <2>2. best \in parents /\ \A q \in parents : best.duration <= q.duration
    BY <1>4, <1>6, BestParentExists
  <2> HIDE DEF best
  <2>3. best.item.remaining \in Nat /\ best.timeRemaining \in Int /\ best.item \in longer
    BY <1>4, <2>2
  <2>4. /\ Adjusted(i, raw).actionable \in 0..raw /\ Adjusted(i, raw).urgency \in 0..3
        /\ Adjusted(i, raw).actionable <= best.item.remaining * Milli
    BY <1>2, <2>1, <2>3, AdjustedShape
  <2>5. ASSUME NEW k \in longer PROVE InferWindowDuration(best.item) <= InferWindowDuration(k)
    <3>1. k \in Overview.items /\ LongerWindow(i, k)  BY DEF longer
    <3>2. QuotaWindowInfo(k, now) \in parents  BY <1>3, <3>1
    <3>3. QuotaWindowInfo(k, now).item = k  BY DEF QuotaWindowInfo
    <3> QED BY <1>4, <2>2, <3>2, <3>3
  <2>6. \E j \in longer : /\ Adjusted(i, raw).actionable <= j.remaining * Milli
                          /\ \A k \in longer : InferWindowDuration(j) <= InferWindowDuration(k)
    BY <2>3, <2>4, <2>5
  <2> QED BY <2>4, <2>6 DEF longer
<1> QED BY <1>5, <1>6

(* A score is a natural. *)
LEMMA ScoreType ==
  ASSUME NEW percent \in Nat, NEW remaining \in 1..100, NEW wasted \in Nat,
         NEW urgency \in 0..3, NEW confidence \in {"low", "medium", "high"}
  PROVE  OpportunityScore(percent, remaining, wasted, urgency, confidence) \in Nat
<1> DEFINE underuse == Clamp(Round(wasted, remaining), 0, Milli)
           share == Round((percent \div 100) * underuse, Milli)
           u == UrgencyWeight[1 + urgency]
           c == ConfidenceWeight[confidence]
<1>1. underuse \in Nat
  <2> DEFINE v == Round(wasted, remaining)
  <2>0. wasted \in Int /\ remaining \in Nat \ {0}  OBVIOUS
  <2>1. v \in Int  BY <2>0, RoundBounds
  <2> HIDE DEF v
  <2>2. Milli \in Int /\ 0 <= Milli  BY MilliType
  <2>3. Clamp(v, 0, Milli) \in 0..Milli  BY <2>1, <2>2, ClampBounds
  <2>4. Clamp(v, 0, Milli) \in Nat  BY <2>2, <2>3
  <2> QED BY <2>4 DEF v
<1>2. percent \div 100 \in Nat  OBVIOUS
<1> DEFINE x == percent \div 100
<1>3. share \in Nat
  <2>1. x * underuse \in Nat
    <3> HIDE DEF x, underuse
    <3> QED BY <1>1, <1>2 DEF x
  <2> DEFINE y == x * underuse
  <2>2. Milli \in Nat \ {0}  BY MilliType
  <2>3. share = Round(y, Milli) /\ y \in Nat  BY <2>1
  <2> HIDE DEF y, share
  <2> QED BY <2>2, <2>3, RoundNat
<1>4. u \in Nat
  <2>1. urgency = 0 \/ urgency = 1 \/ urgency = 2 \/ urgency = 3  OBVIOUS
  <2> QED BY <2>1 DEF UrgencyWeight
<1>5. c \in Nat  BY DEF ConfidenceWeight
<1>6. OpportunityScore(percent, remaining, wasted, urgency, confidence) = Round(share * u * c, 10000)
  BY DEF OpportunityScore
<1> HIDE DEF share, u, c
<1>7. share * u * c \in Nat
  <2>1. \A a, b \in Nat : a * b \in Nat  OBVIOUS
  <2>2. share * u \in Nat  BY <1>3, <1>4, <2>1
  <2> DEFINE su == share * u
  <2> HIDE DEF su
  <2>3. su * c \in Nat  BY <1>5, <2>1, <2>2 DEF su
  <2> QED BY <2>3 DEF su
<1> DEFINE z == share * u * c
<1> HIDE DEF z
<1>8. Round(z, 10000) \in Nat  BY <1>7, RoundNat DEF z
<1> QED BY <1>6, <1>8 DEF z

(* Percentages in thousandths. *)
LEMMA MilliRange ==
  ASSUME NEW r \in 0..100
  PROVE  r * Milli \in 0..(100 * Milli)
<1>1. r \in Int /\ 0 <= r /\ r <= 100  OBVIOUS
<1>2. \A k \in Int : 0 <= k /\ k <= 100 => 0 <= k * 1000 /\ k * 1000 <= 100 * 1000 /\ k * 1000 \in Int
  OBVIOUS
<1>3. 0 <= r * Milli /\ r * Milli <= 100 * Milli /\ r * Milli \in Int  BY <1>1, <1>2 DEF Milli
<1> QED BY <1>3

(* The raw waste is what remains without the natural use. *)
LEMMA RawShape ==
  ASSUME NEW r \in 0..100, NEW n \in 0..(100 * Milli)
  PROVE  LET raw == AtLeastZero(r * Milli - n)
         IN  /\ raw \in Nat
             /\ raw > 0 => raw = r * Milli - n /\ raw <= r * Milli /\ raw + n <= 100 * Milli
<1> DEFINE x == r * Milli
           top == 100 * Milli
<1>1. x \in 0..top  BY MilliRange
<1>2. top \in Int /\ n \in 0..top
  <2>1. top \in Int  BY MilliType
  <2>2. n \in 0..top  OBVIOUS
  <2> QED BY <2>1, <2>2
<1> HIDE DEF x, top
<1>3. x - n \in Int /\ x - n <= x /\ (x - n) + n <= top
  <2>1. x \in Int /\ n \in Int /\ x <= top /\ 0 <= n
    <3>1. \A k, l \in Int : k \in 0..l => 0 <= k /\ k <= l  OBVIOUS
    <3>2. x \in Int /\ n \in Int  BY <1>1, <1>2
    <3> QED BY <1>1, <1>2, <3>1, <3>2
  <2>2. \A a, b \in Int : 0 <= b => a - b \in Int /\ a - b <= a /\ (a - b) + b = a  OBVIOUS
  <2> QED BY <1>2, <2>1, <2>2
<1> DEFINE v == x - n
<1>4. AtLeastZero(v) \in Nat /\ (AtLeastZero(v) > 0 => AtLeastZero(v) = v)
  <2>1. v \in Int  BY <1>3
  <2> HIDE DEF v
  <2> QED BY <2>1 DEF AtLeastZero
<1> QED BY <1>3, <1>4 DEF x, top

(* An offer, field by field. *)
LEMMA OfferShape ==
  ASSUME IInv, NEW i \in Overview.items, NEW opts, Considered(i, opts, now)
  PROVE  LET info == QuotaWindowInfo(i, now)
             op   == Offer(i)
         IN  /\ i.id # CreditId /\ i.remaining \in 1..100 /\ i.resetAt > now /\ i.visible /\ ~i.bank
             /\ op.provider = i.provider /\ op.item = i.id
             /\ op.natural = NaturalUse(info, RateOf(i)) /\ op.natural \in 0..(100 * Milli)
             /\ op.raw = AtLeastZero(i.remaining * Milli - op.natural) /\ op.raw \in Nat
             /\ op.actionable = Adjusted(i, op.raw).actionable /\ op.actionable \in 0..op.raw
             /\ op.confidence = ConfidenceOf(info, RateOf(i))
             /\ op.inferred <=> ~RateOf(i).found /\ info.elapsed > 0
             /\ op.score \in Nat
<1> DEFINE info == QuotaWindowInfo(i, now)
           op == Offer(i)
           natural == NaturalUse(info, RateOf(i))
           raw == AtLeastZero(i.remaining * Milli - natural)
<1>1. ItemShape(i, i.provider)  BY OverviewShape
<1>2. i.id # CreditId
  <2>1. CASE i.id = CreditId
    <3>1. PercentRemaining(i) = 0  BY <1>1, <2>1, ItemReadings
    <3> QED BY <3>1 DEF Considered
  <2> QED BY <2>1
<1>3. i.remaining \in 1..100 /\ PercentRemaining(i) \in Nat
  <2>1. i.remaining \in 0..100 /\ PercentRemaining(i) = i.remaining * Milli
    BY <1>1, <1>2, ItemReadings
  <2>2. i.remaining > 0  BY DEF Considered
  <2>3. i.remaining \in 1..100  BY <2>1, <2>2
  <2>4. \A r \in 0..100 : r * Milli \in Nat  BY DEF Milli
  <2> QED BY <2>1, <2>3, <2>4
<1>4. i.resetAt > now /\ i.visible /\ ~i.bank  BY DEF Considered
<1>5. natural \in 0..(100 * Milli) /\ info.item = i  BY <1>2, <1>4, NaturalUseType
<1>6. raw \in Nat
  <2> HIDE DEF natural
  <2>1. i.remaining \in 0..100  BY <1>3
  <2> QED BY <1>5, <2>1, RawShape
<1>7. Adjusted(i, raw).actionable \in 0..raw /\ Adjusted(i, raw).urgency \in 0..3
  <2> HIDE DEF raw
  <2> QED BY <1>2, <1>4, <1>6, AdjustedIsBounded
<1>8. /\ op.provider = i.provider /\ op.item = i.id /\ op.natural = natural /\ op.raw = raw
      /\ op.actionable = Adjusted(i, raw).actionable
      /\ op.confidence = ConfidenceOf(info, RateOf(i))
      /\ op.inferred <=> ~RateOf(i).found /\ info.elapsed > 0
      /\ op.score = OpportunityScore(PercentRemaining(i), i.remaining, Adjusted(i, raw).actionable,
                                     Adjusted(i, raw).urgency, ConfidenceOf(info, RateOf(i)))
  BY DEF Offer, Opportunity, Adjusted
<1>9. ConfidenceOf(info, RateOf(i)) \in {"low", "medium", "high"}
  <2>1. RateOf(i).found => RateOf(i).confidence \in {"medium", "high"}  BY RateIsReal DEF RateOf
  <2> HIDE DEF info
  <2> QED BY <2>1 DEF ConfidenceOf
<1> HIDE DEF info, op, natural, raw
<1>10. op.score \in Nat
  <2> DEFINE a == Adjusted(i, raw).actionable
             c == ConfidenceOf(info, RateOf(i))
             g == Adjusted(i, raw).urgency
  <2>1. a \in Nat  BY <1>6, <1>7
  <2>2. op.score = OpportunityScore(PercentRemaining(i), i.remaining, a, g, c)  BY <1>8
  <2>3. c \in {"low", "medium", "high"} /\ g \in 0..3  BY <1>7, <1>9
  <2> HIDE DEF a, c, g
  <2> QED BY <1>3, <2>1, <2>2, <2>3, ScoreType
<1> QED BY <1>2, <1>3, <1>4, <1>5, <1>6, <1>7, <1>8, <1>10 DEF info, op, natural, raw

(* The first part of OffersAreReal: low confidence is what stale items get. *)
LEMMA FreshFollows == IInv => FreshOnly
<1> SUFFICES ASSUME IInv, NEW op \in Opportunities(DefaultOptions)
             PROVE  ~cache[op.provider].failed /\ now < cache[op.provider].at + StaleAfter
  BY DEF FreshOnly
<1>1. ~DefaultOptions.lowToo  BY DEF DefaultOptions
<1>2. PICK i \in Overview.items :
        /\ Considered(i, DefaultOptions, now) /\ op = Offer(i) /\ op.confidence # "low"
  BY <1>1, OfferOf
<1>3. op.provider = i.provider /\ op.confidence = ConfidenceOf(QuotaWindowInfo(i, now), RateOf(i))
  BY <1>2, OfferShape
<1>4. QuotaWindowInfo(i, now).item = i  BY DEF QuotaWindowInfo
<1>5. i.state # "stale"  BY <1>2, <1>3, <1>4 DEF ConfidenceOf
<1>6. i.provider \in ProviderIds /\ i \in Snapshot(i.provider) /\ ItemShape(i, i.provider)
  BY OverviewShape
<1>7. i.state = "fresh"  BY <1>5, <1>6 DEF ItemShape, Item
<1> QED BY <1>3, <1>6, <1>7, SnapshotShape

(* The second part: every clamp holds. *)
LEMMA WasteFollows == IInv => WasteIsBounded
<1> SUFFICES ASSUME IInv, NEW op \in Opportunities(AllOptions), NEW j \in Overview.items, j.id = op.item
             PROVE  /\ 0 < op.actionable /\ op.actionable <= op.raw /\ op.raw <= j.remaining * Milli
                    /\ op.raw + op.natural <= Total(j) * Milli
                    /\ LET longer == {k \in Overview.items : LongerWindow(j, k)}
                       IN  longer # {} => \E k \in longer :
                             /\ op.actionable <= k.remaining * Milli
                             /\ \A l \in longer : InferWindowDuration(k) <= InferWindowDuration(l)
  BY DEF WasteIsBounded
<1>1. PICK i \in Overview.items :
        Considered(i, AllOptions, now) /\ op = Offer(i) /\ op.raw > 0 /\ op.actionable > 0
  BY OfferOf
<1>2. /\ i.id # CreditId /\ i.remaining \in 1..100 /\ i.resetAt > now
      /\ op.item = i.id /\ op.natural \in 0..(100 * Milli)
      /\ op.raw = AtLeastZero(i.remaining * Milli - op.natural) /\ op.raw \in Nat
      /\ op.actionable = Adjusted(i, op.raw).actionable /\ op.actionable \in 0..op.raw
  BY <1>1, OfferShape
<1>3. j = i  BY <1>2, OverviewShape
<1>4. Total(i) = 100  BY <1>2, OverviewShape, ItemReadings
<1>5. i.remaining \in 0..100  BY <1>2
<1>6. op.raw <= i.remaining * Milli /\ op.raw + op.natural <= Total(i) * Milli
  <2> DEFINE n == op.natural
  <2>1. n \in 0..(100 * Milli) /\ op.raw = AtLeastZero(i.remaining * Milli - n) /\ op.raw > 0
    BY <1>1, <1>2
  <2> HIDE DEF n
  <2>2. op.raw <= i.remaining * Milli /\ op.raw + n <= 100 * Milli  BY <1>5, <2>1, RawShape
  <2> QED BY <1>4, <2>2 DEF n
<1>7. 0 < op.actionable /\ op.actionable <= op.raw  BY <1>1, <1>2
<1>8. LET longer == {k \in Overview.items : LongerWindow(i, k)}
      IN  longer # {} => \E k \in longer :
            /\ op.actionable <= k.remaining * Milli
            /\ \A l \in longer : InferWindowDuration(k) <= InferWindowDuration(l)
  BY <1>2, AdjustedIsBounded
<1> QED BY <1>3, <1>6, <1>7, <1>8

(* What is offered as expiring was read by the last refresh and is not stale, and *)
(* the offer stays within what remains, within what is not used anyway, and within *)
(* the room of a shortest longer window (expiringOpportunity, *)
(* applyOverlapAdjustments). *)
THEOREM OffersAreRealHolds == Spec => []OffersAreReal
<1>1. IInv => OffersAreReal  BY FreshFollows, WasteFollows DEF OffersAreReal
<1> QED BY <1>1, InvHolds, PTL

-----------------------------------------------------------------------------
(* The two views of one pace. *)

(* What exhausts a quota after a time does so after it in thousandths as well. *)
LEMMA QuotientAfter ==
  ASSUME NEW u \in 1..100, NEW t \in Int, NEW y \in Int, u * t < y
  PROVE  (y * Milli) \div u \in Int /\ (y * Milli) \div u > Milli * t
<1> DEFINE a == y * Milli
           q == a \div u
           x == u * t
<1>1. a \in Int /\ a = 1000 * y /\ x \in Int /\ u \in Nat \ {0}  BY DEF Milli
<1>2. q \in Int /\ u * q <= a /\ a < u * q + u
  <2> HIDE DEF a
  <2> QED BY <1>1, DivBounds
<1>3. ASSUME q <= 1000 * t PROVE FALSE
  <2>1. u * q <= u * (1000 * t)
    <3>1. 1000 * t \in Int /\ u \in Nat  OBVIOUS
    <3> HIDE DEF q
    <3> QED BY <1>2, <1>3, <3>1, MulMono
  <2>2. u * (1000 * t) = 1000 * x  OBVIOUS
  <2>3. u * q \in Int
    <3> HIDE DEF q
    <3> QED BY <1>2
  <2> DEFINE z == u * q
  <2>4. z \in Int /\ z <= 1000 * x /\ a < z + u  BY <1>2, <2>1, <2>2, <2>3
  <2>5. x < y  OBVIOUS
  <2> HIDE DEF q, x, a, z
  <2>6. x + 1 <= y  BY <1>1, <2>5
  <2>7. a >= 1000 * x + 1000  BY <1>1, <2>6
  <2>8. u <= 100 /\ u \in Int  OBVIOUS
  <2> QED BY <1>1, <2>4, <2>7, <2>8
<1>4. 1000 * t \in Int  OBVIOUS
<1>5. q > 1000 * t
  <2> HIDE DEF q
  <2> QED BY <1>2, <1>3, <1>4
<1> QED BY <1>2, <1>5 DEF Milli

(* What is left beyond the pace is what the natural use leaves. *)
LEMMA LeftOver ==
  ASSUME NEW x \in Int, NEW e \in Nat \ {0}, NEW r \in Int, Round(x * Milli, e) < r * Milli
  PROVE  x < r * e
<1> DEFINE a == x * Milli
           n == Round(a, e)
           y == r * e
<1>1. a \in Int /\ a = 1000 * x  BY DEF Milli
<1>2. n \in Int /\ 2 * a + e < 2 * e * n + 2 * e
  <2>1. n = Round(a, e)  OBVIOUS
  <2> HIDE DEF a, n
  <2>0. a \in Int  BY <1>1
  <2>2. Round(a, e) \in Int /\ 2 * a + e < 2 * e * Round(a, e) + 2 * e
    BY <2>0, RoundBounds
  <2> QED BY <2>1, <2>2
<1>3. n <= r * 1000 - 1
  <2>1. n < r * 1000  BY DEF Milli
  <2>2. r * 1000 \in Int  OBVIOUS
  <2> HIDE DEF n
  <2> QED BY <1>2, <2>1, <2>2
<1>4. e * n <= 1000 * y - e
  <2>1. r * 1000 - 1 \in Int /\ e \in Nat  OBVIOUS
  <2>2. e * n <= e * (r * 1000 - 1)
    <3> HIDE DEF n
    <3> QED BY <1>2, <1>3, <2>1, MulMono
  <2>3. e * (r * 1000 - 1) = 1000 * y - e  OBVIOUS
  <2> QED BY <2>2, <2>3
<1>5. y \in Int /\ e * n \in Int
  <2> HIDE DEF n
  <2> QED BY <1>2
<1>6. 2 * e * n = 2 * (e * n)
  <2> HIDE DEF n
  <2> QED BY <1>2
<1> DEFINE m == e * n
<1>7. 2 * a + e < 2 * m + 2 * e /\ m <= 1000 * y - e /\ m \in Int  BY <1>2, <1>4, <1>5, <1>6
<1> HIDE DEF a, n, y, m
<1>8. 2000 * x + e < 2000 * y  BY <1>1, <1>5, <1>7
<1>9. x < y  BY <1>5, <1>8
<1> QED BY <1>9 DEF y

(* A pressure above 1.25 leaves more than the pace. *)
LEMMA Pressed ==
  ASSUME NEW x \in Nat \ {0}, NEW y \in Int, Round(y * Milli, x) > 1250
  PROVE  x < y
<1> DEFINE a == y * Milli
           n == Round(a, x)
<1>1. a \in Int /\ a = 1000 * y  BY DEF Milli
<1>2. n \in Int /\ 2 * x * n <= 2 * a + x /\ n > 1250
  <2> HIDE DEF a
  <2> QED BY <1>1, RoundBounds DEF a
<1>3. 1251 <= n
  <2> HIDE DEF n
  <2> QED BY <1>2
<1>4. x * 1251 <= x * n
  <2> HIDE DEF n
  <2> QED BY <1>2, <1>3, MulMono
<1>5. x * n \in Int /\ 2 * x * n = 2 * (x * n)
  <2> HIDE DEF n
  <2> QED BY <1>2
<1> DEFINE m == x * n
<1>6. m \in Int /\ 1251 * x <= m /\ 2 * m <= 2 * a + x  BY <1>2, <1>4, <1>5
<1> HIDE DEF a, m, n
<1> QED BY <1>1, <1>6

(* What the analysis works from when it has a pace. *)
LEMMA PaceShape ==
  ASSUME IInv, NEW i \in Overview.items, AnalyzeItem(i, now).pace.found
  PROVE  LET t    == i.resetAt - now
             d    == InferAnalysisWindowDuration(i)
             view == AnalyzeItem(i, now).pace
         IN  /\ i.id # CreditId /\ i.used \in 0..100 /\ i.remaining = 100 - i.used
             /\ i.resetAt \in Nat /\ i.resetAt > 0 /\ now \in Nat
             /\ d > 0 /\ d - t > 0 /\ d \in Nat
             /\ view = PacePressureProjection(i, d - t, t, now)
<1>1. ItemShape(i, i.provider) /\ now \in Nat  BY OverviewShape DEF IInv, UpstreamInv
<1> DEFINE t == i.resetAt - now
           d == InferAnalysisWindowDuration(i)
           view == AnalyzeItem(i, now).pace
<1>2. view = IF i.resetAt > 0 /\ d > 0 /\ d - t > 0 THEN PacePressureProjection(i, d - t, t, now)
             ELSE NoPace
  BY DEF AnalyzeItem
<1>3. i.resetAt > 0 /\ d > 0 /\ d - t > 0
  <2> HIDE DEF d, t, view
  <2>1. NoPace.found = FALSE  BY DEF NoPace
  <2> QED BY <1>2, <2>1 DEF view
<1>4. i.id # CreditId
  <2>1. CASE i.id = CreditId
    <3>1. i.resetAt = 0  BY <1>1, <2>1, ItemReadings
    <3> QED BY <1>3, <3>1
  <2> QED BY <2>1
<1>5. d \in Nat  BY DEF InferAnalysisWindowDuration, InferWindowDuration, Hour
<1>6. i.used \in 0..100 /\ i.remaining = 100 - i.used /\ i.resetAt \in Nat
  BY <1>1, <1>4, ItemReadings
<1> QED BY <1>1, <1>2, <1>3, <1>4, <1>5, <1>6

(* A pace that leaves something does not run out before the reset. *)
LEMMA NotBeforeReset ==
  ASSUME NEW i, NEW e \in Nat \ {0}, NEW n \in Nat, i.used \in 0..100, i.remaining = 100 - i.used,
         i.remaining > 0, i.resetAt \in Nat, i.used * (i.resetAt - n) < i.remaining * e
  PROVE  ~PacePressureProjection(i, e, i.resetAt - n, n).beforeReset
<1> DEFINE t == i.resetAt - n
           pace == PacePressureProjection(i, e, t, n)
           q == (i.remaining * e * Milli) \div i.used
           at == Milli * n + IF i.remaining <= 0 THEN 0 ELSE q
<1>1. i.remaining \in 1..100 /\ t \in Int /\ i.remaining * e \in Int
  <2>1. i.remaining \in 1..100  BY DEF Milli
  <2> QED BY <2>1
<1>2. pace.beforeReset <=> \/ i.remaining <= 0
                           \/ i.used > 0 /\ i.resetAt > 0 /\ at <= Milli * i.resetAt
  BY DEF PacePressureProjection
<1>3. CASE i.used = 0
  <2>1. ~(i.used > 0) /\ ~(i.remaining <= 0)  BY <1>1, <1>3
  <2> HIDE DEF pace, at
  <2> QED BY <1>2, <2>1 DEF pace
<1>4. CASE i.used # 0
  <2>1. i.used \in 1..100  BY <1>4
  <2>2. q \in Int /\ q > Milli * t
    <3> DEFINE y == i.remaining * e
    <3>1. y \in Int /\ i.used * t < y  BY <1>1
    <3> HIDE DEF y, t
    <3>2. (y * Milli) \div i.used \in Int /\ (y * Milli) \div i.used > Milli * t
      BY <1>1, <2>1, <3>1, QuotientAfter
    <3> QED BY <3>2 DEF y
  <2>3. at = Milli * n + q /\ ~(i.remaining <= 0)  BY <1>1
  <2>4. Milli * i.resetAt = Milli * n + Milli * t  BY DEF Milli
  <2>5. Milli * n \in Int /\ Milli * t \in Int  BY <1>1 DEF Milli
  <2>6. ~(at <= Milli * i.resetAt)
    <3> DEFINE a == Milli * n
               b == Milli * t
    <3> HIDE DEF q, t, at, a, b
    <3>1. a \in Int /\ b \in Int /\ q > b /\ at = a + q /\ Milli * i.resetAt = a + b
      BY <2>2, <2>3, <2>4, <2>5 DEF a, b
    <3>2. ~(a + q <= a + b)  BY <2>2, <3>1
    <3> QED BY <3>1, <3>2
  <2> HIDE DEF pace, at
  <2> QED BY <1>2, <2>3, <2>6 DEF pace
<1> QED BY <1>3, <1>4

(* What an inferred offer leaves over, the pace does not use up. *)
LEMMA InferredLeaves ==
  ASSUME IInv, NEW i \in Overview.items, Considered(i, AllOptions, now), Offer(i).raw > 0,
         Offer(i).inferred
  PROVE  LET t == i.resetAt - now
             e == InferAnalysisWindowDuration(i) - t
         IN  e \in Nat \ {0} => i.used * t < i.remaining * e
<1> DEFINE info == QuotaWindowInfo(i, now)
           op == Offer(i)
           t == i.resetAt - now
           d == InferWindowDuration(i)
           e == d - t
           top == 100 * Milli
           natural == NaturalUse(info, RateOf(i))
<1>1. /\ i.id # CreditId /\ i.remaining \in 1..100 /\ i.resetAt > now
      /\ natural \in 0..top /\ op.raw = AtLeastZero(i.remaining * Milli - natural)
      /\ ~RateOf(i).found /\ info.elapsed > 0
  BY OfferShape
<1>2. /\ i.used \in 0..100 /\ Total(i) = 100 /\ i.remaining \in 0..100
      /\ i.resetAt \in Nat /\ i.resetAt > 0
  BY <1>1, OverviewShape, ItemReadings
<1>3. /\ info.timeRemaining = t /\ t \in Nat \ {0} /\ info.duration = d /\ d \in Nat /\ info.item = i
      /\ d > 0 /\ info.elapsed = e /\ e \in Int /\ e > 0
  <2>1. /\ info.timeRemaining = t /\ info.timeRemaining \in Nat \ {0}
        /\ info.duration \in Nat /\ info.duration = d /\ info.item = i
        /\ info.elapsed \in Int
        /\ info.duration > 0 /\ info.elapsed = info.duration - info.timeRemaining
    BY <1>1, NaturalUseType
  <2> HIDE DEF info, t, d
  <2> QED BY <1>1, <2>1
<1>4. InferAnalysisWindowDuration(i) = d
  BY <1>2, <1>3 DEF InferAnalysisWindowDuration, InferWindowDuration
<1> DEFINE x == i.used * t
           n == Round(x * Milli, e)
           est == EstimateNaturalUse(i, d, t)
<1>5. x \in Nat /\ x * Milli \in Nat /\ e \in Nat \ {0}
  <2>1. x \in Nat
    <3> HIDE DEF t
    <3> QED BY <1>2, <1>3
  <2> HIDE DEF t, x
  <2> QED BY <1>3, <2>1 DEF Milli
<1>6. n \in Nat
  <2> DEFINE a == x * Milli
  <2>1. a \in Nat /\ n = Round(a, e)  BY <1>5
  <2> HIDE DEF a, e, n
  <2> QED BY <1>5, <2>1, RoundNat
<1>7. est = Clamp(n, 0, top)
  BY <1>2, <1>3 DEF EstimateNaturalUse
<1>8. natural = Clamp(est, 0, top)
  <2>1. natural = Clamp(IF RateOf(i).found
                        THEN Round(RateOf(i).delta * info.timeRemaining * Milli, RateOf(i).time)
                        ELSE IF info.elapsed > 0
                        THEN EstimateNaturalUse(info.item, info.duration, info.timeRemaining)
                        ELSE 0, 0, Total(info.item) * Milli)
    BY DEF NaturalUse
  <2> HIDE DEF info, t, d, natural
  <2> QED BY <1>1, <1>2, <1>3, <2>1
<1>9. top \in Nat  BY DEF Milli
<1>10. natural = Smaller(n, top)
  <2> HIDE DEF natural, n, est, top
  <2> QED BY <1>6, <1>7, <1>8, <1>9 DEF Clamp, Smaller
<1>11. natural < i.remaining * Milli /\ i.remaining * Milli <= top
  <2> DEFINE y == i.remaining * Milli
  <2>1. y \in 0..top  BY <1>2, MilliRange
  <2>2. AtLeastZero(y - natural) > 0  BY <1>1
  <2>3. natural \in 0..top  BY <1>1
  <2>4. natural < y /\ y <= top
    <3> HIDE DEF y, natural, top
    <3>1. y \in Int /\ natural \in Int /\ y <= top  BY <1>9, <2>1, <2>3
    <3> DEFINE v == y - natural
    <3>2. v \in Int /\ (v > 0 => natural < y)  BY <3>1
    <3>3. AtLeastZero(v) > 0  BY <2>2
    <3> HIDE DEF v
    <3>4. v > 0  BY <3>2, <3>3 DEF AtLeastZero
    <3> QED BY <3>1, <3>2, <3>4
  <2> QED BY <2>4
<1>12. n < i.remaining * Milli
  <2> DEFINE y == i.remaining * Milli
  <2>1. y \in Int  BY <1>2 DEF Milli
  <2>2. natural < y /\ y <= top  BY <1>11
  <2> HIDE DEF y, natural, top, n
  <2>3. natural = (IF n < top THEN n ELSE top) /\ n \in Int /\ top \in Int
    BY <1>6, <1>9, <1>10 DEF Smaller
  <2>4. n < y
    <3>1. CASE n < top  BY <2>2, <2>3, <3>1
    <3>2. CASE ~(n < top)  BY <2>1, <2>2, <2>3, <3>2
    <3> QED BY <3>1, <3>2
  <2> QED BY <2>4 DEF y
<1>13. x < i.remaining * e
  <2>1. x \in Int /\ i.remaining \in Int /\ e \in Nat \ {0}  BY <1>2, <1>5
  <2>2. Round(x * Milli, e) < i.remaining * Milli  BY <1>12
  <2> HIDE DEF x, e
  <2> QED BY <2>1, <2>2, LeftOver
<1> QED BY <1>4, <1>13

(* High pressure says the same. *)
LEMMA PressedLeaves ==
  ASSUME NEW i, NEW e \in Nat \ {0}, NEW t \in Int, NEW n \in Nat, i.used \in 0..100,
         i.remaining = 100 - i.used,
         PacePressureProjection(i, e, t, n).pressure \in {"elevated", "high"}
  PROVE  i.remaining > 0 /\ i.used * t < i.remaining * e
<1> DEFINE required == IF t > 0 THEN i.remaining ELSE 0
           value == Round(required * e * Milli, i.used * Greater(t, 1))
           level == PressureLevel(value, t)
<1>1. PacePressureProjection(i, e, t, n).pressure = (IF i.used > 0 THEN level ELSE "none")
  BY DEF PacePressureProjection
<1>2. i.used > 0 /\ level \in {"elevated", "high"}
  <2> HIDE DEF level
  <2> QED BY <1>1
<1>3. t > 0
  <2>1. t <= 0 => level = "expired"  BY DEF PressureLevel
  <2> HIDE DEF level
  <2> QED BY <1>2, <2>1
<1>4. value = Round(i.remaining * e * Milli, i.used * t)
  BY <1>3 DEF Greater
<1>5. i.used \in 1..100 /\ i.remaining \in 0..99 /\ t \in Nat \ {0}  BY <1>2, <1>3
<1> DEFINE x == i.used * t
           y == i.remaining * e
<1>6. x \in Nat \ {0} /\ y \in Int
  <2>1. \A a, b \in Nat \ {0} : a * b \in Nat \ {0}  OBVIOUS
  <2>2. i.used \in Nat \ {0}  BY <1>5
  <2> QED BY <1>5, <2>1, <2>2
<1>7. value \in Int
  <2>1. y * Milli \in Int  BY <1>6 DEF Milli
  <2> DEFINE a == y * Milli
  <2>2. value = Round(a, x)  BY <1>4
  <2> HIDE DEF value, a, x
  <2> QED BY <1>6, <2>1, <2>2, RoundBounds DEF a
<1>8. value > 1250
  <2> HIDE DEF value
  <2>1. t > 0 /\ value <= 750 => level = "low"  BY <1>3, <1>5, <1>7 DEF PressureLevel
  <2>2. t > 0 /\ value > 750 /\ value <= 1250 => level = "steady"  BY <1>3, <1>5, <1>7 DEF PressureLevel
  <2> HIDE DEF level
  <2> QED BY <1>2, <1>3, <1>7, <2>1, <2>2
<1>9. x < y
  <2>1. Round(y * Milli, x) > 1250  BY <1>4, <1>8
  <2> HIDE DEF x, y
  <2> QED BY <1>6, <2>1, Pressed
<1>10. i.remaining > 0
  <2>1. i.remaining = 0 => y = 0  OBVIOUS
  <2> HIDE DEF x, y
  <2>2. y > 0  BY <1>6, <1>9
  <2> QED BY <1>5, <2>1, <2>2
<1> QED BY <1>9, <1>10

(* Both views come down to one inequality. *)
LEMMA ViewsFollow == IInv => ViewsAgree
<1> SUFFICES ASSUME IInv, NEW i \in Overview.items, AnalyzeItem(i, now).pace.found
             PROVE  LET view == AnalyzeItem(i, now).pace
                    IN  /\ \A op \in Opportunities(AllOptions) :
                             op.item = i.id /\ op.inferred => ~view.beforeReset
                        /\ view.pressure \in {"elevated", "high"} => ~view.beforeReset
                        /\ view.projected /\ ~view.beforeReset => view.exhaustsAt > Milli * i.resetAt
  BY DEF ViewsAgree
<1> DEFINE t    == i.resetAt - now
           d    == InferAnalysisWindowDuration(i)
           e    == d - t
           view == AnalyzeItem(i, now).pace
<1>1. /\ i.used \in 0..100 /\ i.remaining = 100 - i.used
      /\ i.resetAt \in Nat /\ i.resetAt > 0 /\ now \in Nat
      /\ e > 0 /\ d \in Nat /\ view = PacePressureProjection(i, e, t, now)
  BY PaceShape
<1>2. t \in Int /\ e \in Nat \ {0}
  <2>1. t \in Int  BY <1>1
  <2> HIDE DEF t, d
  <2> QED BY <1>1, <2>1
<1>3. ASSUME NEW op \in Opportunities(AllOptions), op.item = i.id, op.inferred
      PROVE  ~view.beforeReset
  <2>1. PICK j \in Overview.items : Considered(j, AllOptions, now) /\ op = Offer(j) /\ op.raw > 0
    BY OfferOf
  <2>2. j.id = i.id /\ j.remaining \in 1..100  BY <1>3, <2>1, OfferShape
  <2>3. j = i  BY <2>2, OverviewShape
  <2>4. i.used * t < i.remaining * e  BY <1>2, <1>3, <2>1, <2>3, InferredLeaves
  <2>5. i.remaining > 0  BY <2>2, <2>3
  <2> HIDE DEF e
  <2>6. ~PacePressureProjection(i, e, i.resetAt - now, now).beforeReset
    BY <1>1, <1>2, <2>4, <2>5, NotBeforeReset
  <2> QED BY <1>1, <2>6
<1>4. ASSUME view.pressure \in {"elevated", "high"}
      PROVE  ~view.beforeReset
  <2>1. PacePressureProjection(i, e, t, now).pressure \in {"elevated", "high"}  BY <1>1, <1>4
  <2>2. i.remaining > 0 /\ i.used * t < i.remaining * e
    <3> HIDE DEF e, t
    <3> QED BY <1>1, <1>2, <2>1, PressedLeaves
  <2> HIDE DEF e
  <2>3. ~PacePressureProjection(i, e, i.resetAt - now, now).beforeReset
    BY <1>1, <1>2, <2>2, NotBeforeReset
  <2> QED BY <1>1, <2>3
<1>5. ASSUME view.projected, ~view.beforeReset
      PROVE  view.exhaustsAt > Milli * i.resetAt
  <2> DEFINE q  == (i.remaining * e * Milli) \div i.used
             at == Milli * now + IF i.remaining <= 0 THEN 0 ELSE q
  <2>1. /\ view.projected <=> i.remaining <= 0 \/ i.used > 0
        /\ view.exhaustsAt = (IF i.remaining <= 0 \/ i.used > 0 THEN at ELSE 0)
        /\ view.beforeReset <=> \/ i.remaining <= 0
                                \/ i.used > 0 /\ i.resetAt > 0 /\ at <= Milli * i.resetAt
    <3> HIDE DEF e, t, d, view
    <3> QED BY <1>1 DEF PacePressureProjection
  <2>2. ~(i.remaining <= 0) /\ i.used > 0 /\ ~(at <= Milli * i.resetAt) /\ view.exhaustsAt = at
    <3> HIDE DEF view, at
    <3> QED BY <1>1, <1>5, <2>1
  <2>3. q \in Int
    <3> DEFINE y == i.remaining * e
    <3>1. y \in Int
      <4>1. i.remaining \in Int  BY <1>1
      <4> HIDE DEF e
      <4> QED BY <1>2, <4>1
    <3>2. y * Milli \in Int
      <4> HIDE DEF y
      <4> QED BY <3>1 DEF Milli
    <3> DEFINE a == y * Milli
    <3>3. q = a \div i.used  OBVIOUS
    <3>4. i.used \in Nat \ {0}  BY <1>1, <2>2
    <3>5. a \in Int  BY <3>2
    <3> HIDE DEF a, q, y
    <3> QED BY <3>3, <3>4, <3>5, DivBounds
  <2>4. Milli * now \in Int /\ Milli * i.resetAt \in Int  BY <1>1 DEF Milli
  <2>5. at = Milli * now + q  BY <2>2
  <2> HIDE DEF q, at, view
  <2>6. at \in Int  BY <2>3, <2>4, <2>5
  <2> DEFINE z == Milli * i.resetAt
  <2> HIDE DEF z
  <2>7. at > z  BY <2>2, <2>4, <2>6 DEF z
  <2> QED BY <2>2, <2>7 DEF z, view
<1> QED BY <1>3, <1>4, <1>5

(* The expiring view and the pressure projection, computed independently from one *)
(* snapshot, never contradict each other: what will be left over does not run out *)
(* before the reset (estimateNaturalUse, pacePressureProjection). *)
THEOREM ViewsAgreeHolds == Spec => []ViewsAgree
<1>1. IInv => ViewsAgree  BY ViewsFollow
<1> QED BY <1>1, InvHolds, PTL

-----------------------------------------------------------------------------
(* The credit balance. *)

WithoutCredits(usage) == [usage EXCEPT !.items = {i \in @ : i.id # CreditId}]

(* It differs in the items only. *)
LEMMA WithoutCreditsShape ==
  /\ WithoutCredits(Overview).items = {i \in Overview.items : i.id # CreditId}
  /\ WithoutCredits(Overview).providers = Overview.providers
BY DEF WithoutCredits, Overview

(* Nothing reads the balance: it is no window, it never resets, and no *)
(* percentage of it remains. *)
LEMMA CreditsAreNoOffer ==
  ASSUME IInv, NEW rates, NEW opts
  PROVE  ExpiringUsage(Overview.items, rates, opts, now)
           = ExpiringUsage(WithoutCredits(Overview).items, rates, opts, now)
<1> DEFINE A == Overview.items
           B == {i \in A : i.id # CreditId}
<1>1. \A i \in A : i.id = CreditId => PercentRemaining(i) = 0 /\ i.resetAt = 0
  BY OverviewShape, ItemReadings
<1>2. now \in Nat  BY DEF IInv, UpstreamInv
<1>3. \A i \in A : i.id = CreditId => ~Considered(i, opts, now)
  <2>1. ~(0 > 0)  OBVIOUS
  <2> HIDE DEF A
  <2> QED BY <1>1, <2>1 DEF Considered
<1>4. \A i \in A : i.id = CreditId => ~(i.resetAt > now)
  <2>1. ~(0 > now)  BY <1>2
  <2> HIDE DEF A
  <2> QED BY <1>1, <2>1
<1>5. \A i : i \in B <=> i \in A /\ i.id # CreditId  OBVIOUS
<1> HIDE DEF A, B
<1>6. {i \in A : Considered(i, opts, now)} = {i \in B : Considered(i, opts, now)}
  BY <1>3, <1>5
<1>7. {i \in A : /\ i.visible /\ i.remaining >= 0 /\ ~i.bank
                 /\ i.resetAt > now /\ InferWindowDuration(i) > 0}
       = {i \in B : /\ i.visible /\ i.remaining >= 0 /\ ~i.bank
                    /\ i.resetAt > now /\ InferWindowDuration(i) > 0}
  BY <1>4, <1>5
<1>8. QuotaWindowInfos(A, now) = QuotaWindowInfos(B, now)
  BY <1>7 DEF QuotaWindowInfos
<1>9. ExpiringUsage(A, rates, opts, now) = ExpiringUsage(B, rates, opts, now)
  BY <1>6, <1>8 DEF ExpiringUsage
<1> QED BY <1>9, WithoutCreditsShape DEF A, B

(* Availability leaves the balance out. *)
LEMMA CreditsAreNotCounted ==
  ASSUME IInv, NEW id
  PROVE  {i \in ItemsOf(Overview, id) : ~IsCreditBalanceItem(i)}
           = {i \in ItemsOf(WithoutCredits(Overview), id) : ~IsCreditBalanceItem(i)}
<1>1. \A i \in Overview.items : IsCreditBalanceItem(i) <=> i.id = CreditId
  BY OverviewShape, ItemReadings
<1> QED BY <1>1, WithoutCreditsShape DEF ItemsOf

(* So does the ranking. *)
LEMMA CreditsAreNotRanked ==
  ASSUME IInv, NEW provider, NEW opts
  PROVE  RankedItems(provider, ItemsOf(Overview, provider.id), opts)
           = RankedItems(provider, ItemsOf(WithoutCredits(Overview), provider.id), opts)
<1>1. \A i \in Overview.items : IsCreditBalanceItem(i) <=> i.id = CreditId
  BY OverviewShape, ItemReadings
<1> QED BY <1>1, WithoutCreditsShape DEF ItemsOf, RankedItems

(* So the choice is the same without it. *)
LEMMA SameChoice ==
  ASSUME IInv, NEW offers, NEW profile
  PROVE  SelectedProvider(Overview, offers, profile, DefaultOptions)
           = SelectedProvider(WithoutCredits(Overview), offers, profile, DefaultOptions)
<1> DEFINE u == Overview
           v == WithoutCredits(Overview)
           o == DefaultOptions
<1>1. v.providers = u.providers  BY WithoutCreditsShape
<1>2. o.unit = ""  BY DEF DefaultOptions
<1> HIDE DEF o
<1>3. ASSUME NEW n \in DOMAIN u.providers
      PROVE  RecommendationCandidate(u, n, offers, profile, o)
               = RecommendationCandidate(v, n, offers, profile, o)
  <2> DEFINE p == u.providers[n]
  <2>1. v.providers[n] = p  BY <1>1
  <2>2. RankedItems(p, ItemsOf(u, p.id), o) = RankedItems(p, ItemsOf(v, p.id), o)
    <3> HIDE DEF p
    <3> QED BY CreditsAreNotRanked
  <2> HIDE DEF u, v, p
  <2>3. BestExpiring(offers, p, o, ItemsOf(u, p.id)) = BestExpiring(offers, p, o, ItemsOf(v, p.id))
    BY <1>2 DEF BestExpiring
  <2>4. u.providers[n] = p  BY DEF p
  <2> QED BY <2>1, <2>2, <2>3, <2>4 DEF RecommendationCandidate
<1> HIDE DEF u, v
<1>4. {RecommendationCandidate(u, n, offers, profile, o) : n \in DOMAIN u.providers}
       = {RecommendationCandidate(v, n, offers, profile, o) : n \in DOMAIN v.providers}
  BY <1>1, <1>3
<1>5. RankedCandidates(u, offers, profile, o) = RankedCandidates(v, offers, profile, o)
  BY <1>4 DEF RankedCandidates
<1>6. SelectedProvider(u, offers, profile, o) = SelectedProvider(v, offers, profile, o)
  BY <1>5 DEF SelectedProvider
<1> QED BY <1>6 DEF u, v, o

(* So is everything else. *)
LEMMA CreditFollows == IInv => CreditBalanceNeverDecides
<1> SUFFICES ASSUME IInv PROVE CreditBalanceNeverDecides  OBVIOUS
<1> DEFINE usage  == Overview
           others == WithoutCredits(Overview)
           rates  == BurnRateEstimates(usage.items)
<1>1. others = [usage EXCEPT !.items = {i \in @ : i.id # CreditId}]  BY DEF WithoutCredits
<1>2. ProviderAvailabilitySummary(usage) = ProviderAvailabilitySummary(others)
  <2>1. others.providers = usage.providers  BY WithoutCreditsShape
  <2>2. \A id : {i \in ItemsOf(usage, id) : ~IsCreditBalanceItem(i)}
                  = {i \in ItemsOf(others, id) : ~IsCreditBalanceItem(i)}
    BY CreditsAreNotCounted
  <2> HIDE DEF usage, others
  <2> QED BY <2>1, <2>2 DEF ProviderAvailabilitySummary
<1>3. ExpiringUsage(usage.items, rates, AllOptions, now)
        = ExpiringUsage(others.items, rates, AllOptions, now)
  <2> HIDE DEF rates
  <2> QED BY CreditsAreNoOffer
<1>4. Recommended(usage, rates) = Recommended(others, rates)
  <2> DEFINE offers == ExpiringUsage(usage.items, rates, AllOptions, now)
  <2>1. \A profile \in Profiles : SelectedProvider(usage, offers, profile, DefaultOptions)
                                    = SelectedProvider(others, offers, profile, DefaultOptions)
    <3> HIDE DEF offers
    <3> QED BY SameChoice
  <2> HIDE DEF usage, others, rates
  <2> QED BY <1>3, <2>1 DEF Recommended
<1>5. ResetCalendar(usage) = ResetCalendar(others)
  <2>1. \A i \in usage.items : i.id = CreditId => i.resetAt = 0  BY OverviewShape, ItemReadings
  <2>2. others.items = {i \in usage.items : i.id # CreditId}  BY WithoutCreditsShape
  <2>3. ~(0 > 0)  OBVIOUS
  <2> HIDE DEF usage, others
  <2> QED BY <2>1, <2>2, <2>3 DEF ResetCalendar
<1> HIDE DEF others
<1> QED BY <1>1, <1>2, <1>3, <1>4, <1>5 DEF CreditBalanceNeverDecides

(* With any balance of spending credits, and without the item, availability, *)
(* recommendation, reset calendar and opportunities are the same *)
(* (isCreditBalanceItem, percentRemaining; docs/CHATGPT_CREDITS.md). *)
THEOREM CreditBalanceNeverDecidesHolds == Spec => []CreditBalanceNeverDecides
<1>1. IInv => CreditBalanceNeverDecides  BY CreditFollows
<1> QED BY <1>1, InvHolds, PTL

-----------------------------------------------------------------------------
(* The recommendation. *)

(* The items of a provider that its recommendation is about. *)
Counted(p) == {i \in ItemsOf(Overview, p) : i.visible /\ ~i.bank /\ ~IsCreditBalanceItem(i)}
Tenths(i)  == PercentRemaining(i) \div 100
Candidate(n, profile) ==
  RecommendationCandidate(Overview, n, Opportunities(AllOptions), profile, DefaultOptions)
Candidates(profile) ==
  RankedCandidates(Overview, Opportunities(AllOptions), profile, DefaultOptions)

(* What a recommendation counts are windows, and a percent is ten thousandths. *)
LEMMA CountedShape ==
  ASSUME IInv, NEW p
  PROVE  /\ IsFiniteSet(Counted(p))
         /\ \A i \in Counted(p) : /\ i \in Overview.items /\ i.provider = p /\ i.remaining \in 0..100
                                  /\ Tenths(i) = 10 * i.remaining
<1>1. Counted(p) \subseteq Overview.items /\ IsFiniteSet(Overview.items)
  BY OverviewShape DEF Counted, ItemsOf
<1>2. IsFiniteSet(Counted(p))  BY <1>1, FS_Subset
<1>3. ASSUME NEW i \in Counted(p)
      PROVE  /\ i \in Overview.items /\ i.provider = p /\ i.remaining \in 0..100
             /\ Tenths(i) = 10 * i.remaining
  <2>1. i \in Overview.items /\ i.provider = p /\ ~IsCreditBalanceItem(i)  BY DEF Counted, ItemsOf
  <2>2. i.remaining \in 0..100 /\ PercentRemaining(i) = i.remaining * Milli
    BY <2>1, OverviewShape, ItemReadings
  <2>3. \A r \in 0..100 : (r * Milli) \div 100 = 10 * r  BY DEF Milli
  <2> QED BY <2>1, <2>2, <2>3 DEF Tenths
<1> QED BY <1>2, <1>3

(* The most constrained item has quota left if all have. *)
LEMMA HeadroomShape ==
  ASSUME IInv, NEW p
  PROVE  /\ Headroom(Counted(p)) \in Nat
         /\ (\A i \in Counted(p) : i.remaining = 0) => Headroom(Counted(p)) = 0
         /\ Counted(p) # {} /\ (\A i \in Counted(p) : i.remaining > 0) => Headroom(Counted(p)) >= 10
<1> DEFINE C == Counted(p)
           T == {Tenths(i) : i \in C}
<1>1. \A i \in C : i.remaining \in 0..100 /\ Tenths(i) = 10 * i.remaining  BY CountedShape
<1>2. CASE C = {}
  <2>1. Headroom(C) = 0  BY <1>2 DEF Headroom
  <2> QED BY <1>2, <2>1
<1>3. CASE C # {}
  <2>1. Headroom(C) = Min(T)  BY <1>3 DEF Headroom, Tenths
  <2>2. T \in SUBSET Nat /\ T # {}
    <3> HIDE DEF C
    <3> QED BY <1>1, <1>3
  <2>3. Min(T) \in T
    <3> HIDE DEF T
    <3> QED BY <2>2, MinOfNaturals
  <2>4. PICK i \in C : Headroom(C) = Tenths(i)  BY <2>1, <2>3
  <2>5. Headroom(C) = 10 * i.remaining /\ i.remaining \in 0..100  BY <1>1, <2>4
  <2>6. \A r \in 0..100 : 10 * r \in Nat /\ (r = 0 => 10 * r = 0) /\ (r > 0 => 10 * r >= 10)
    OBVIOUS
  <2>7. /\ Headroom(C) \in Nat
        /\ i.remaining = 0 => Headroom(C) = 0
        /\ i.remaining > 0 => Headroom(C) >= 10
    BY <2>5, <2>6
  <2> QED BY <2>4, <2>7
<1> QED BY <1>2, <1>3

(* Nothing, rounded, is nothing. *)
LEMMA RoundOfZero ==
  ASSUME NEW d \in Nat \ {0}
  PROVE  Round(0, d) = 0
BY DEF Round

(* The average is zero if all are. *)
LEMMA AverageShape ==
  ASSUME IInv, NEW p
  PROVE  /\ AverageHeadroom(Counted(p)) \in Nat
         /\ (\A i \in Counted(p) : i.remaining = 0) => AverageHeadroom(Counted(p)) = 0
<1> DEFINE C == Counted(p)
           f == [i \in C |-> PercentRemaining(i) \div 100]
           sum == SumFunctionOnSet(f, C)
<1>1. IsFiniteSet(C) /\ \A i \in C : i.remaining \in 0..100 /\ Tenths(i) = 10 * i.remaining
  BY CountedShape
<1>2. CASE C = {}
  <2>1. AverageHeadroom(C) = 0  BY <1>2 DEF AverageHeadroom
  <2> QED BY <2>1
<1>3. CASE C # {}
  <2>1. AverageHeadroom(C) = Round(sum, Cardinality(C))
    BY <1>3 DEF AverageHeadroom, SumFunction
  <2>2. \A i \in C : f[i] = 10 * i.remaining
    <3>1. \A i \in C : f[i] = Tenths(i)  BY DEF Tenths
    <3> QED BY <1>1, <3>1
  <2>3. Cardinality(C) \in Nat \ {0}
    <3> HIDE DEF C
    <3>1. Cardinality(C) \in Nat /\ Cardinality(C) # 0  BY <1>1, <1>3, FS_CardinalityType, FS_EmptySet
    <3> QED BY <3>1
  <2>4. \A i \in C : f[i] \in Nat
    <3> HIDE DEF f, C
    <3> QED BY <1>1, <2>2
  <2>5. sum \in Nat /\ ((\A i \in C : f[i] = 0) => sum = 0)
    <3> HIDE DEF f, C
    <3> QED BY <1>1, <2>4, SumOfNaturals
  <2>6. (\A i \in C : i.remaining = 0) => sum = 0
    <3> HIDE DEF f, C
    <3> QED BY <2>2, <2>5
  <2> HIDE DEF sum, C
  <2>7. Round(sum, Cardinality(C)) \in Nat  BY <2>3, <2>5, RoundNat
  <2>8. sum = 0 => Round(sum, Cardinality(C)) = 0  BY <2>3, RoundOfZero
  <2>9. AverageHeadroom(C) \in Nat /\ ((\A i \in C : i.remaining = 0) => AverageHeadroom(C) = 0)
    BY <2>1, <2>6, <2>7, <2>8
  <2> QED BY <2>9 DEF C
<1> QED BY <1>2, <1>3

(* A provider without quota has nothing that expires. *)
LEMMA ExpiringShape ==
  ASSUME IInv, NEW provider, NEW items
  PROVE  LET best == BestExpiring(Opportunities(AllOptions), provider, DefaultOptions, items)
         IN  /\ best \in Nat
             /\ (\A i \in Counted(provider.id) : i.remaining = 0) => best = 0
<1> DEFINE offers == Opportunities(AllOptions)
           own == {op \in offers : op.provider = provider.id}
           best == BestExpiring(offers, provider, DefaultOptions, items)
           scores == {op.score : op \in own}
<1>1. best = IF own = {} THEN 0 ELSE Max(scores)
  <2>1. DefaultOptions.unit = ""  BY DEF DefaultOptions
  <2> HIDE DEF offers
  <2> QED BY <2>1 DEF BestExpiring
<1>2. ASSUME NEW op \in own
      PROVE  \E i \in Counted(provider.id) : i.remaining \in 1..100 /\ op = Offer(i) /\ op.score \in Nat
  <2>1. PICK i \in Overview.items : Considered(i, AllOptions, now) /\ op = Offer(i)
    BY OfferOf
  <2>2. /\ i.id # CreditId /\ i.remaining \in 1..100 /\ i.visible /\ ~i.bank
        /\ op.provider = i.provider /\ op.score \in Nat
    BY <2>1, OfferShape
  <2>3. ~IsCreditBalanceItem(i)  BY <2>2, OverviewShape, ItemReadings
  <2>4. i \in Counted(provider.id)  BY <2>2, <2>3 DEF Counted, ItemsOf
  <2> QED BY <2>1, <2>2, <2>4
<1>3. (\A i \in Counted(provider.id) : i.remaining = 0) => own = {}
  <2>1. \A r \in 1..100 : r # 0  OBVIOUS
  <2> HIDE DEF own
  <2> QED BY <1>2, <2>1
<1>4. IsFiniteSet(scores) /\ scores \in SUBSET Nat
  <2> DEFINE f == [i \in Overview.items |-> Offer(i).score]
             all == {f[i] : i \in Overview.items}
  <2>1. IsFiniteSet(all)
    <3>1. IsFiniteSet(Overview.items)  BY OverviewShape
    <3> DEFINE A == Overview.items
    <3> HIDE DEF A, f
    <3>2. IsFiniteSet({f[i] : i \in A})  BY <3>1, ImageIsFinite DEF A
    <3> QED BY <3>2 DEF A
  <2>2. scores \subseteq all
    <3> SUFFICES ASSUME NEW op \in own PROVE op.score \in all  OBVIOUS
    <3>1. PICK i \in Counted(provider.id) : op = Offer(i)  BY <1>2
    <3>2. i \in Overview.items  BY DEF Counted, ItemsOf
    <3> QED BY <3>1, <3>2
  <2>3. scores \in SUBSET Nat
    <3> HIDE DEF own
    <3> QED BY <1>2
  <2> HIDE DEF all, scores
  <2> QED BY <2>1, <2>2, <2>3, FS_Subset
<1>5. own # {} => Max(scores) \in Nat
  <2> SUFFICES ASSUME own # {} PROVE Max(scores) \in Nat  OBVIOUS
  <2>1. scores # {} /\ scores \in SUBSET Int  BY <1>4
  <2> HIDE DEF scores
  <2> QED BY <1>4, <2>1, MaxOfIntegers
<1> HIDE DEF own, best, scores
<1>6. best \in Nat  BY <1>1, <1>5
<1>7. (\A i \in Counted(provider.id) : i.remaining = 0) => best = 0  BY <1>1, <1>3
<1> QED BY <1>6, <1>7 DEF best

(* Availability only scales a score: it is never zero. *)
LEMMA AvailabilityShape ==
  ASSUME NEW provider, NEW items
  PROVE  AvailabilityScore(provider, items) \in 10..100
<1> DEFINE own  == CASE provider.state = "error" -> 10
                     [] provider.state = "stale" -> 45
                     [] provider.state = "fresh" -> 100
                     [] OTHER -> 70
           errs == \E i \in items : i.state = "error" \/ i.severity = "error" \/ i.failed
           old  == \E i \in items : i.state = "stale"
           all  == {own} \cup (IF errs THEN {15} ELSE {}) \cup (IF old THEN {45} ELSE {})
<1>1. AvailabilityScore(provider, items) = Min(all)  BY DEF AvailabilityScore
<1>2. own \in {10, 45, 70, 100}  OBVIOUS
<1> HIDE DEF own, errs, old
<1>3. all \subseteq {10, 15, 45, 70, 100} /\ all # {}  BY <1>2
<1> HIDE DEF all
<1>4. Min(all) \in all  BY <1>3, MinOfNaturals
<1>5. \A x \in {10, 15, 45, 70, 100} : x \in 10..100  OBVIOUS
<1>6. Min(all) \in {10, 15, 45, 70, 100}  BY <1>3, <1>4
<1> QED BY <1>1, <1>5, <1>6

(* The scores of a candidate with and without quota. *)
LEMMA ScoreShape ==
  ASSUME NEW profile \in Profiles, NEW h \in Nat, NEW a \in Nat, NEW e \in Nat,
         NEW v \in Nat, v >= 10
  PROVE  LET score == RecommendationScore(profile, h, a, e, v)
         IN  /\ score \in Nat
             /\ h >= 10 => score > 0
             /\ h = 0 /\ a = 0 /\ e = 0 /\ profile # "useItOrLoseIt" => score = 0
<1> DEFINE w == Weights[profile]
           sum == w[1] * h + w[2] * a + w[3] * e + w[4] * Milli
           score == RecommendationScore(profile, h, a, e, v)
<1>1. score = Round(sum * v, 10000)  BY DEF RecommendationScore
<1>2. /\ w[1] \in Nat /\ w[2] \in Nat /\ w[3] \in Nat /\ w[4] \in Nat
      /\ \/ w[1] >= 70 /\ w[4] = 0 /\ profile # "useItOrLoseIt"
         \/ w[1] = 15 /\ w[4] = 5 /\ profile = "useItOrLoseIt"
  BY DEF Weights, Profiles
<1> HIDE DEF w
<1>3. \A x, y \in Nat : x * y \in Nat  OBVIOUS
<1>4. w[1] * h \in Nat /\ w[2] * a \in Nat /\ w[3] * e \in Nat  BY <1>2, <1>3
<1>5. w[4] * Milli = (IF profile = "useItOrLoseIt" THEN 5000 ELSE 0)  BY <1>2 DEF Milli
<1>6. sum \in Nat  BY <1>4, <1>5
<1>7. h >= 10 => sum >= 700
  <2>1. \A x \in Nat : h >= 10 /\ x >= 70 => x * h >= 700
    <3> SUFFICES ASSUME NEW x \in Nat, h >= 10, x >= 70 PROVE x * h >= 700  OBVIOUS
    <3>1. 70 * h <= x * h  BY MulMono
    <3> QED BY <3>1, <1>3
  <2>2. CASE profile = "useItOrLoseIt"
    <3> DEFINE p == w[1] * h  q == w[2] * a  r == w[3] * e  s == w[4] * Milli
    <3>1. p \in Nat /\ q \in Nat /\ r \in Nat /\ s = 5000  BY <1>4, <1>5, <2>2
    <3>2. sum = p + q + r + s  OBVIOUS
    <3> HIDE DEF p, q, r, s, sum
    <3> QED BY <3>1, <3>2
  <2>3. CASE profile # "useItOrLoseIt"
    <3> DEFINE p == w[1] * h  q == w[2] * a  r == w[3] * e  s == w[4] * Milli
    <3>1. p \in Nat /\ q \in Nat /\ r \in Nat /\ s = 0  BY <1>4, <1>5, <2>3
    <3>2. h >= 10 => p >= 700  BY <1>2, <2>1, <2>3
    <3>3. sum = p + q + r + s  OBVIOUS
    <3> HIDE DEF p, q, r, s, sum
    <3> QED BY <3>1, <3>2, <3>3
  <2> QED BY <2>2, <2>3
<1>8. h = 0 /\ a = 0 /\ e = 0 /\ profile # "useItOrLoseIt" => sum = 0
  <2>1. \A x \in Nat : x * 0 = 0  OBVIOUS
  <2> QED BY <1>2, <1>5, <2>1
<1> HIDE DEF sum, score
<1> DEFINE num == sum * v
<1>9. num \in Nat /\ (sum >= 700 => num >= 7000) /\ (sum = 0 => num = 0)
  <2>1. v \in Nat /\ v >= 10  OBVIOUS
  <2>2. num \in Nat  BY <1>3, <1>6, <2>1
  <2>3. sum >= 700 => num >= 7000
    <3> SUFFICES ASSUME sum >= 700 PROVE num >= 7000  OBVIOUS
    <3>1. sum * 10 <= sum * v  BY <1>6, <2>1, MulMono
    <3> QED BY <1>6, <2>2, <3>1
  <2>4. sum = 0 => num = 0  BY <2>1
  <2> QED BY <2>2, <2>3, <2>4
<1> HIDE DEF num
<1>10. \A n \in Nat : /\ Round(n, 10000) \in Nat
                      /\ n >= 7000 => Round(n, 10000) > 0
                      /\ n = 0 => Round(n, 10000) = 0
  BY DEF Round
<1>11. score = Round(num, 10000)  BY <1>1 DEF num
<1> QED BY <1>7, <1>8, <1>9, <1>10, <1>11 DEF score

(* A provider's candidate, and when its score is zero. *)
LEMMA CandidateShape ==
  ASSUME IInv, NEW n \in DOMAIN Providers, NEW profile \in Profiles
  PROVE  LET c == Candidate(n, profile)
             C == Counted(Providers[n].id)
         IN  /\ c.provider = Providers[n].id /\ c.n = n /\ c.ok /\ c.score \in Nat
             /\ C # {} /\ (\A i \in C : i.remaining > 0) => c.score > 0
             /\ (\A i \in C : i.remaining = 0) /\ profile # "useItOrLoseIt" => c.score = 0
<1> DEFINE provider == Overview.providers[n]
           offers == Opportunities(AllOptions)
           o == DefaultOptions
           items == ItemsOf(Overview, provider.id)
           ranked == RankedItems(provider, items, o)
           C == Counted(Providers[n].id)
           e == BestExpiring(offers, provider, o, items)
           h == Headroom(C)
           a == AverageHeadroom(C)
           v == AvailabilityScore(provider, C)
           c == Candidate(n, profile)
<1>1. provider.id = Providers[n].id  BY DEF Overview
<1>2. /\ o.providers = {} /\ o.tiers = {} /\ o.tags = {} /\ o.unit = "" /\ o.minimum = 0
      /\ o["tiers"] = {} /\ o["tags"] = {}
  BY DEF DefaultOptions
<1>3. ranked = C
  <2>1. \A i : MetadataMatches(provider, i, o)  BY <1>2 DEF MetadataMatches
  <2> HIDE DEF provider, o
  <2> QED BY <1>1, <1>2, <2>1 DEF RankedItems, Counted
<1>4. c = RecommendationCandidate(Overview, n, offers, profile, o)  BY DEF Candidate
<1>5. /\ c.provider = provider.id /\ c.n = n
      /\ (/\ o.providers = {} \/ provider.id \in o.providers
          /\ o.unit # "" => ranked # {}
          /\ ranked # {} \/ MetadataMatches(provider, NoLabels, o)
          /\ o.minimum > 0 => ranked # {} /\ Headroom(ranked) >= 10 * o.minimum) => c.ok
      /\ c.score = RecommendationScore(profile, Headroom(ranked), AverageHeadroom(ranked), e,
                                       AvailabilityScore(provider, ranked))
  <2> HIDE DEF offers, o, c
  <2>1. c.provider = provider.id /\ c.n = n  BY <1>4 DEF RecommendationCandidate
  <2>2. (/\ o.providers = {} \/ provider.id \in o.providers
         /\ o.unit # "" => ranked # {}
         /\ ranked # {} \/ MetadataMatches(provider, NoLabels, o)
         /\ o.minimum > 0 => ranked # {} /\ Headroom(ranked) >= 10 * o.minimum) => c.ok
    BY <1>4 DEF RecommendationCandidate
  <2>3. c.score = RecommendationScore(profile, Headroom(ranked), AverageHeadroom(ranked), e,
                                      AvailabilityScore(provider, ranked))
    BY <1>4 DEF RecommendationCandidate
  <2> QED BY <2>1, <2>2, <2>3
<1>6. c.ok
  <2>1. MetadataMatches(provider, NoLabels, o)  BY <1>2 DEF MetadataMatches
  <2>2. ~(0 > 0)  OBVIOUS
  <2> HIDE DEF o, provider, ranked, c
  <2>3. o.providers = {} \/ provider.id \in o.providers  BY <1>2
  <2>4. o.unit # "" => ranked # {}  BY <1>2
  <2>5. o.minimum > 0 => ranked # {} /\ Headroom(ranked) >= 10 * o.minimum  BY <1>2, <2>2
  <2> QED BY <1>5, <2>1, <2>3, <2>4, <2>5
<1>7. c.score = RecommendationScore(profile, h, a, e, v)  BY <1>3, <1>5
<1>8. h \in Nat /\ a \in Nat /\ e \in Nat /\ v \in 10..100
  <2>1. e \in Nat
    <3> HIDE DEF provider, items
    <3> QED BY ExpiringShape
  <2>2. v \in 10..100
    <3> HIDE DEF provider
    <3> QED BY AvailabilityShape
  <2> QED BY <2>1, <2>2, HeadroomShape, AverageShape
<1>9. C # {} /\ (\A i \in C : i.remaining > 0) => h >= 10  BY HeadroomShape
<1>10. (\A i \in C : i.remaining = 0) => h = 0 /\ a = 0 /\ e = 0
  <2>1. (\A i \in C : i.remaining = 0) => e = 0
    <3>1. C = Counted(provider.id)  BY <1>1
    <3> HIDE DEF provider, items
    <3> QED BY <3>1, ExpiringShape DEF C
  <2> QED BY <2>1, HeadroomShape, AverageShape
<1> HIDE DEF provider, offers, o, items, ranked, e, h, a, v, c, C
<1>11. /\ c.score \in Nat /\ (h >= 10 => c.score > 0)
       /\ h = 0 /\ a = 0 /\ e = 0 /\ profile # "useItOrLoseIt" => c.score = 0
  <2> DEFINE s == RecommendationScore(profile, h, a, e, v)
  <2>1. /\ s \in Nat /\ (h >= 10 => s > 0)
        /\ h = 0 /\ a = 0 /\ e = 0 /\ profile # "useItOrLoseIt" => s = 0
    <3>1. v \in Nat /\ v >= 10  BY <1>8
    <3>2. profile \in Profiles /\ h \in Nat /\ a \in Nat /\ e \in Nat  BY <1>8
    <3> QED BY <3>1, <3>2, ScoreShape
  <2>2. c.score = s  BY <1>7
  <2> HIDE DEF s
  <2> QED BY <2>1, <2>2
<1>12. c.provider = Providers[n].id /\ c.n = n  BY <1>1, <1>5
<1>13. C # {} /\ (\A i \in C : i.remaining > 0) => c.score > 0  BY <1>9, <1>11
<1>14. (\A i \in C : i.remaining = 0) /\ profile # "useItOrLoseIt" => c.score = 0
  BY <1>10, <1>11
<1> QED BY <1>6, <1>11, <1>12, <1>13, <1>14 DEF c, C

(* By default every provider is a candidate. *)
LEMMA CandidatesShape ==
  ASSUME IInv, NEW profile \in Profiles
  PROVE  /\ \A n \in DOMAIN Providers : Candidate(n, profile) \in Candidates(profile)
         /\ \A c \in Candidates(profile) : \E n \in DOMAIN Providers : c = Candidate(n, profile)
<1> DEFINE all == {Candidate(n, profile) : n \in DOMAIN Providers}
<1>1. DOMAIN Overview.providers = DOMAIN Providers  BY DEF Overview
<1>2. Candidates(profile) = {c \in all : c.ok}
  BY <1>1 DEF Candidates, RankedCandidates, Candidate
<1>3. \A n \in DOMAIN Providers : Candidate(n, profile).ok  BY CandidateShape
<1> QED BY <1>2, <1>3

(* A ranking has a first. *)
LEMMA BestExists ==
  ASSUME IInv, NEW profile \in Profiles, Candidates(profile) # {}
  PROVE  LET best == Best(Candidates(profile))
         IN  /\ \E n \in DOMAIN Providers : best = Candidate(n, profile)
             /\ \A d \in Candidates(profile) : d.score <= best.score
<1> DEFINE D == DOMAIN Providers
           f == [n \in D |-> Candidate(n, profile).score]
           scores == {f[n] : n \in D}
           C == Candidates(profile)
<1>1. IsFiniteSet(D) /\ D \in SUBSET Nat  BY AdviceAssumption
<1>2. \A n \in D : /\ Candidate(n, profile) \in C /\ Candidate(n, profile).n = n
                   /\ f[n] = Candidate(n, profile).score /\ f[n] \in Nat
  BY CandidateShape, CandidatesShape
<1>3. \A c \in C : \E n \in D : c = Candidate(n, profile)  BY CandidatesShape
<1> HIDE DEF f, C, D
<1>4. PICK m \in scores : \A x \in scores : x <= m
  <2>1. D # {}  BY <1>3 DEF C
  <2>2. IsFiniteSet(scores)  BY <1>1, ImageIsFinite
  <2>3. scores \in SUBSET Int /\ scores # {}  BY <1>2, <2>1
  <2> HIDE DEF scores
  <2> QED BY <2>2, <2>3, FiniteMaximum
<1> DEFINE first == {n \in D : f[n] = m}
<1>5. PICK k \in first : \A n \in first : k <= n
  <2>1. first \in SUBSET Nat /\ first # {}  BY <1>1, <1>4
  <2> HIDE DEF first
  <2> QED BY <2>1, NatMinimum
<1>6. k \in D /\ f[k] = m  BY <1>5
<1> DEFINE b == Candidate(k, profile)
           Better(c) == \A d \in C : c.score > d.score \/ (c.score = d.score /\ c.n <= d.n)
<1>7. Better(b)
  <2> SUFFICES ASSUME NEW d \in C PROVE b.score > d.score \/ (b.score = d.score /\ b.n <= d.n)
    OBVIOUS
  <2>1. PICK n \in D : d = Candidate(n, profile)  BY <1>3
  <2>2. b.score = m /\ b.n = k /\ d.score = f[n] /\ d.n = n  BY <1>2, <1>6, <2>1
  <2>3. f[n] \in Nat /\ m \in Nat /\ f[n] <= m  BY <1>2, <1>4, <1>6
  <2>4. f[n] = m => k <= n  BY <1>5
  <2> HIDE DEF b
  <2> QED BY <2>2, <2>3, <2>4
<1> DEFINE best == Best(C)
<1>8. best \in C /\ Better(best)
  <2>1. b \in C  BY <1>2, <1>6
  <2> HIDE DEF b
  <2> QED BY <1>7, <2>1 DEF Best
<1>9. PICK n \in D : best = Candidate(n, profile)  BY <1>3, <1>8
<1>10. ASSUME NEW d \in C PROVE d.score <= best.score
  <2>1. PICK j \in D : d = Candidate(j, profile)  BY <1>3
  <2>2. d.score \in Nat /\ best.score \in Nat  BY <1>2, <1>9, <2>1
  <2>3. best.score > d.score \/ best.score = d.score  BY <1>8
  <2> HIDE DEF best
  <2> QED BY <2>2, <2>3
<1> QED BY <1>9, <1>10 DEF C, D

(* The first of the ranking has a score only with quota. *)
LEMMA SelectionFollows == IInv => SelectedHasQuota
<1> SUFFICES ASSUME IInv PROVE SelectedHasQuota  OBVIOUS
<1> DEFINE chosen == Recommended(Overview, BurnRateEstimates(Overview.items))
           Counts(i) == i.visible /\ ~i.bank /\ ~IsCreditBalanceItem(i)
           Unexhausted == \E p \in ProviderIds :
                            /\ \E i \in ItemsOf(Overview, p) : Counts(i)
                            /\ \A i \in ItemsOf(Overview, p) : Counts(i) => i.remaining > 0
<1>1. ASSUME NEW profile \in Profiles
      PROVE  chosen[profile] = IF Candidates(profile) # {} /\ Best(Candidates(profile)).score > 0
                               THEN Best(Candidates(profile)) ELSE Nobody
  <2>1. chosen[profile]
          = SelectedProvider(Overview, Opportunities(AllOptions), profile, DefaultOptions)
    BY DEF Recommended, Opportunities
  <2> HIDE DEF chosen
  <2> QED BY <2>1 DEF SelectedProvider, Candidates
<1> HIDE DEF chosen
<1>2. ASSUME NEW profile \in Profiles, chosen[profile].provider # ""
      PROVE  \E n \in DOMAIN Providers : /\ chosen[profile] = Candidate(n, profile)
                                         /\ chosen[profile].score > 0
  <2>1. Nobody.provider = ""  BY DEF Nobody
  <2>2. Candidates(profile) # {} /\ Best(Candidates(profile)).score > 0  BY <1>1, <1>2, <2>1
  <2>3. chosen[profile] = Best(Candidates(profile))  BY <1>1, <2>2
  <2>4. \E n \in DOMAIN Providers : Best(Candidates(profile)) = Candidate(n, profile)
    BY <2>2, BestExists
  <2> QED BY <2>2, <2>3, <2>4
<1>3. ASSUME NEW profile \in Profiles, chosen[profile].provider # "", profile # "useItOrLoseIt"
      PROVE  \E i \in ItemsOf(Overview, chosen[profile].provider) : Counts(i) /\ i.remaining > 0
  <2>1. PICK n \in DOMAIN Providers : /\ chosen[profile] = Candidate(n, profile)
                                      /\ chosen[profile].score > 0
    BY <1>2, <1>3
  <2>2. chosen[profile].provider = Providers[n].id  BY <2>1, CandidateShape
  <2> DEFINE C == Counted(Providers[n].id)
  <2>3. ~(\A i \in C : i.remaining = 0)
    <3>1. (\A i \in C : i.remaining = 0) => Candidate(n, profile).score = 0
      BY <1>3, CandidateShape
    <3>2. ~(0 > 0)  OBVIOUS
    <3> HIDE DEF C
    <3> QED BY <2>1, <3>1, <3>2
  <2>4. PICK i \in C : i.remaining # 0  BY <2>3
  <2>5. i.remaining \in 0..100  BY CountedShape
  <2>6. i.remaining > 0
    <3> DEFINE r == i.remaining
    <3>1. r \in 0..100 /\ r # 0  BY <2>4, <2>5
    <3> HIDE DEF r
    <3>2. r > 0  BY <3>1
    <3> QED BY <3>2 DEF r
  <2>7. i \in ItemsOf(Overview, chosen[profile].provider) /\ Counts(i)  BY <2>2 DEF Counted
  <2> QED BY <2>6, <2>7
<1>4. ASSUME NEW profile \in Profiles, Unexhausted
      PROVE  chosen[profile].provider # ""
  <2>1. PICK p \in ProviderIds : /\ \E i \in ItemsOf(Overview, p) : Counts(i)
                                 /\ \A i \in ItemsOf(Overview, p) : Counts(i) => i.remaining > 0
    BY <1>4
  <2>2. PICK n \in DOMAIN Providers : Providers[n].id = p  BY DEF ProviderIds
  <2>3. Counted(p) # {} /\ \A i \in Counted(p) : i.remaining > 0  BY <2>1 DEF Counted
  <2> DEFINE d == Candidate(n, profile)
             best == Best(Candidates(profile))
  <2>4. d.score > 0 /\ d.score \in Nat  BY <2>2, <2>3, CandidateShape
  <2>5. d \in Candidates(profile)  BY CandidatesShape
  <2>6. PICK k \in DOMAIN Providers : best = Candidate(k, profile)  BY <2>5, BestExists
  <2>7. d.score <= best.score  BY <2>5, BestExists
  <2>8. best.score \in Nat /\ best.provider = Providers[k].id  BY <2>6, CandidateShape
  <2>9. best.score > 0
    <3> HIDE DEF d, best
    <3> QED BY <2>4, <2>7, <2>8
  <2>10. chosen[profile] = best  BY <1>1, <2>5, <2>9
  <2>11. Providers[k].id # ""  BY AdviceAssumption
  <2> HIDE DEF best
  <2> QED BY <2>8, <2>10, <2>11
<1> QED BY <1>3, <1>4 DEF SelectedHasQuota, chosen

(* Every profile but use-it-or-lose-it selects a provider with quota left, and *)
(* every profile selects one as long as some provider is unexhausted, whatever is *)
(* stale or in error (headroomSignals, recommendationScore). *)
THEOREM SelectedHasQuotaHolds == Spec => []SelectedHasQuota
<1>1. IInv => SelectedHasQuota  BY SelectionFollows
<1> QED BY <1>1, InvHolds, PTL
=============================================================================
