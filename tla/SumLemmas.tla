----------------------------- MODULE SumLemmas -----------------------------
(***************************************************************************)
(* Facts about SumFunctionOnSet and SumFunction of module Functions, for   *)
(* natural-valued functions on finite sets: the recursion by which the     *)
(* fold is defined has a solution (SumUnfold), the order in which it picks *)
(* the elements does not matter (SumPart), and what follows from these.    *)
(*                                                                         *)
(* Induction over finite sets is stated with a set of subsets in the place *)
(* of a predicate (SubsetInduction), so that it can be instantiated.       *)
(***************************************************************************)
EXTENDS Integers, Functions, FiniteSetTheorems, TLAPS

\* What holds of a set as soon as it holds of its proper subsets holds of all.
LEMMA SubsetInduction ==
  ASSUME NEW S, IsFiniteSet(S), NEW G,
         \A T \in SUBSET S : (\A U \in SUBSET T : U # T => U \in G) => T \in G
  PROVE  \A T \in SUBSET S : T \in G
<1> DEFINE Bad == {T \in SUBSET S : T \notin G}
           R == StrictSubsetOrdering(S)
<1>1. SUFFICES Bad = {}
  OBVIOUS
<1>2. SUFFICES ASSUME Bad # {} PROVE FALSE
  OBVIOUS
<1>3. IsWellFoundedOn(R, SUBSET S)
  BY FS_StrictSubsetOrderingWellFounded, FS_FiniteSubsetsOfFinite
<1>4. PICK T \in Bad : \A U \in Bad : ~ (<<U, T>> \in R)
  <2> HIDE DEF R
  <2>1. Bad \subseteq SUBSET S
    OBVIOUS
  <2> HIDE DEF Bad
  <2> QED
    BY <1>2, <1>3, <2>1, WFMin
<1>5. \A U \in SUBSET T : U # T => U \in G
  BY <1>4 DEF StrictSubsetOrdering
<1> QED
  BY <1>4, <1>5

\* Some numbers have a least one among them.
LEMMA LeastNumber ==
  ASSUME NEW S \in SUBSET Nat, S # {}
  PROVE  \E n \in S : \A m \in S : n <= m
<1> DEFINE R == OpToRel(<, Nat)
<1>1. PICK n \in S : \A m \in S : ~ (<<m, n>> \in R)
  <2> HIDE DEF R
  <2>1. IsWellFoundedOn(R, Nat)
    BY NatLessThanWellFounded DEF R
  <2> QED
    BY <2>1, WFMin
<1>2. ASSUME NEW m \in S, ~ (n <= m) PROVE FALSE
  <2>1. <<m, n>> \in Nat \X Nat /\ m < n
    BY <1>2
  <2>2. <<m, n>> \in R
    BY <2>1, Zenon DEF OpToRel
  <2> QED
    BY <1>1, <2>2
<1> QED
  BY <1>2

-----------------------------------------------------------------------------
(* The recursion of the fold has exactly one solution *)

Pick(s) == CHOOSE x \in s : TRUE

LEMMA PickIn == \A s : s # {} => Pick(s) \in s
BY DEF Pick

Solves(g, f, S) ==
  g = [s \in SUBSET S |-> IF s = {} THEN 0 ELSE f[Pick(s)] + g[s \ {Pick(s)}]]

\* Two solutions agree where both are defined.
LEMMA SolutionsAgree ==
  ASSUME NEW f, NEW S, NEW T \in SUBSET S, IsFiniteSet(S), NEW g, NEW h,
         Solves(g, f, S), Solves(h, f, T)
  PROVE  \A s \in SUBSET T : g[s] = h[s]
<1> DEFINE G == {s \in SUBSET T : g[s] = h[s]}
<1>1. IsFiniteSet(T)
  BY FS_Subset
<1>2. ASSUME NEW s \in SUBSET T, \A u \in SUBSET s : u # s => u \in G
      PROVE  s \in G
  <2>1. CASE s = {}
    BY <2>1 DEF Solves
  <2>2. CASE s # {}
    <3>1. s \ {Pick(s)} \in SUBSET s /\ s \ {Pick(s)} # s
      BY <2>2, PickIn
    <3>2. g[s \ {Pick(s)}] = h[s \ {Pick(s)}]
      BY <1>2, <3>1
    <3>3. /\ g[s] = f[Pick(s)] + g[s \ {Pick(s)}]
          /\ h[s] = f[Pick(s)] + h[s \ {Pick(s)}]
      BY <2>2 DEF Solves
    <3> QED
      BY <3>2, <3>3
  <2> QED
    BY <2>1, <2>2
<1>3. \A s \in SUBSET T : s \in G
  <2> HIDE DEF G
  <2> QED
    BY <1>1, <1>2, SubsetInduction
<1> QED
  BY <1>3

\* There is a solution on every finite set.
LEMMA SolutionExists ==
  ASSUME NEW f, NEW S, IsFiniteSet(S)
  PROVE  \E g : Solves(g, f, S)
<1> DEFINE G == {T \in SUBSET S : \E g : Solves(g, f, T)}
           Sol(T) == CHOOSE g : Solves(g, f, T)
<1>1. ASSUME NEW T \in SUBSET S, \A U \in SUBSET T : U # T => U \in G
      PROVE  T \in G
  <2> DEFINE next(s) == s \ {Pick(s)}
             g == [s \in SUBSET T |-> IF s = {} THEN 0
                                      ELSE f[Pick(s)] + Sol(next(s))[next(s)]]
  <2>1. ASSUME NEW s \in SUBSET T, s # {}
        PROVE  /\ next(s) \in SUBSET T /\ next(s) \in SUBSET s /\ next(s) # s
               /\ Solves(Sol(next(s)), f, next(s)) /\ IsFiniteSet(next(s))
    <3>1. next(s) \in SUBSET T /\ next(s) \in SUBSET s /\ next(s) # s /\ next(s) # T
      BY <2>1, PickIn
    <3>2. next(s) \in G
      BY <1>1, <3>1
    <3>3. IsFiniteSet(next(s))
      BY <3>1, FS_Subset
    <3> QED
      BY <3>1, <3>2, <3>3
  <2>2. ASSUME NEW s \in SUBSET T, s # {}
        PROVE  g[next(s)] = Sol(next(s))[next(s)]
    <3> DEFINE u == next(s)
    <3>1. u \in SUBSET T /\ Solves(Sol(u), f, u) /\ IsFiniteSet(u)
      BY <2>1, <2>2
    <3> HIDE DEF u
    <3>2. Sol(u)[u] = IF u = {} THEN 0 ELSE f[Pick(u)] + Sol(u)[next(u)]
      <4> HIDE DEF Sol
      <4> QED
        BY <3>1 DEF Solves
    <3>3. g[u] = IF u = {} THEN 0 ELSE f[Pick(u)] + Sol(next(u))[next(u)]
      BY <3>1
    <3> HIDE DEF Sol, g
    <3>4. CASE u = {}
      BY <3>2, <3>3, <3>4 DEF u
    <3>5. CASE u # {}
      <4>1. next(u) \in SUBSET u /\ Solves(Sol(next(u)), f, next(u))
        BY <2>1, <3>1, <3>5
      <4> HIDE DEF next
      <4>2. next(u) \in SUBSET next(u)
        OBVIOUS
      <4>3. Sol(u)[next(u)] = Sol(next(u))[next(u)]
        BY <3>1, <4>1, <4>2, SolutionsAgree
      <4> QED
        BY <3>2, <3>3, <3>5, <4>3 DEF u
    <3> QED
      BY <3>4, <3>5
  <2>3. Solves(g, f, T)
    <3>1. \A s \in SUBSET T : s # {} => Sol(next(s))[next(s)] = g[next(s)]
      BY <2>2
    <3> HIDE DEF Sol
    <3> QED
      BY <3>1 DEF Solves
  <2> QED
    BY <2>3
<1>2. \A T \in SUBSET S : T \in G
  <2> HIDE DEF G
  <2> QED
    BY <1>1, SubsetInduction
<1> QED
  BY <1>2

-----------------------------------------------------------------------------
(* The sum over a set *)

\* The sum is the value of a solution.
LEMMA SumIsSolution ==
  ASSUME NEW f, NEW S, IsFiniteSet(S)
  PROVE  \E g : Solves(g, f, S) /\ SumFunctionOnSet(f, S) = g[S]
<1> DEFINE g == CHOOSE g : g = [s \in SUBSET S |->
                              IF s = {} THEN 0 ELSE f[Pick(s)] + g[s \ {Pick(s)}]]
<1>1. SumFunctionOnSet(f, S) = g[S]
  BY DEF SumFunctionOnSet, FoldFunctionOnSet, MapThenFoldSet, Pick
<1>2. \E h : h = [s \in SUBSET S |->
                   IF s = {} THEN 0 ELSE f[Pick(s)] + h[s \ {Pick(s)}]]
  <2> HIDE DEF g
  <2>1. PICK h : Solves(h, f, S)
    BY SolutionExists
  <2>2. h = [s \in SUBSET S |-> IF s = {} THEN 0 ELSE f[Pick(s)] + h[s \ {Pick(s)}]]
    BY <2>1 DEF Solves
  <2> QED
    BY <2>2
<1>3. g = [s \in SUBSET S |-> IF s = {} THEN 0 ELSE f[Pick(s)] + g[s \ {Pick(s)}]]
  BY <1>2
<1> HIDE DEF g
<1> QED
  BY <1>1, <1>3 DEF Solves

\* The sum taken apart at the element the fold picks.
LEMMA SumUnfold ==
  ASSUME NEW f, NEW S, IsFiniteSet(S)
  PROVE  /\ SumFunctionOnSet(f, {}) = 0
         /\ S # {} => SumFunctionOnSet(f, S)
                        = f[Pick(S)] + SumFunctionOnSet(f, S \ {Pick(S)})
<1>1. SumFunctionOnSet(f, {}) = 0
  <2>1. PICK g : Solves(g, f, {}) /\ SumFunctionOnSet(f, {}) = g[{}]
    BY SumIsSolution, FS_EmptySet
  <2> QED
    BY <2>1 DEF Solves
<1>2. ASSUME S # {}
      PROVE  SumFunctionOnSet(f, S)
               = f[Pick(S)] + SumFunctionOnSet(f, S \ {Pick(S)})
  <2> DEFINE T == S \ {Pick(S)}
  <2>1. T \in SUBSET S /\ IsFiniteSet(T) /\ T \in SUBSET T
    BY FS_Subset
  <2>2. PICK g : Solves(g, f, S) /\ SumFunctionOnSet(f, S) = g[S]
    BY SumIsSolution
  <2>3. g[S] = f[Pick(S)] + g[T]
    BY <1>2, <2>2 DEF Solves
  <2> HIDE DEF T
  <2>4. PICK h : Solves(h, f, T) /\ SumFunctionOnSet(f, T) = h[T]
    BY <2>1, SumIsSolution
  <2>5. g[T] = h[T]
    BY <2>1, <2>2, <2>4, SolutionsAgree
  <2> QED
    BY <2>2, <2>3, <2>4, <2>5 DEF T
<1> QED
  BY <1>1, <1>2

\* A sum of natural numbers is one.
LEMMA SumType ==
  ASSUME NEW f, NEW S, IsFiniteSet(S), \A x \in S : f[x] \in Nat
  PROVE  \A T \in SUBSET S : SumFunctionOnSet(f, T) \in Nat
<1> DEFINE G == {T \in SUBSET S : SumFunctionOnSet(f, T) \in Nat}
<1>1. ASSUME NEW T \in SUBSET S, \A U \in SUBSET T : U # T => U \in G
      PROVE  T \in G
  <2>1. IsFiniteSet(T)
    BY FS_Subset
  <2>2. CASE T = {}
    <3>1. SumFunctionOnSet(f, {}) = 0
      BY <2>1, SumUnfold
    <3> QED
      BY <2>2, <3>1
  <2>3. CASE T # {}
    <3>1. Pick(T) \in T /\ T \ {Pick(T)} \in SUBSET T /\ T \ {Pick(T)} # T
      BY <2>3, PickIn
    <3>2. SumFunctionOnSet(f, T \ {Pick(T)}) \in Nat /\ f[Pick(T)] \in Nat
      BY <1>1, <3>1
    <3>3. SumFunctionOnSet(f, T) = f[Pick(T)] + SumFunctionOnSet(f, T \ {Pick(T)})
      BY <2>1, <2>3, SumUnfold
    <3> QED
      BY <3>2, <3>3
  <2> QED
    BY <2>2, <2>3
<1>2. \A T \in SUBSET S : T \in G
  <2> HIDE DEF G
  <2> QED
    BY <1>1, SubsetInduction
<1> QED
  BY <1>2

\* The sum taken apart at any element: the order of the fold does not matter.
LEMMA SumPart ==
  ASSUME NEW f, NEW S, IsFiniteSet(S), \A x \in S : f[x] \in Nat
  PROVE  \A T \in SUBSET S : \A x \in T :
           SumFunctionOnSet(f, T) = f[x] + SumFunctionOnSet(f, T \ {x})
<1> DEFINE Sum(T) == SumFunctionOnSet(f, T)
           G == {T \in SUBSET S : \A x \in T : Sum(T) = f[x] + Sum(T \ {x})}
<1>0. \A T \in SUBSET S : Sum(T) \in Nat /\ IsFiniteSet(T)
  BY SumType, FS_Subset
<1>1. \A T \in SUBSET S : T # {} => Sum(T) = f[Pick(T)] + Sum(T \ {Pick(T)})
  BY <1>0, SumUnfold
<1> HIDE DEF Sum
<1>2. ASSUME NEW T \in SUBSET S, \A U \in SUBSET T : U # T => U \in G, NEW x \in T
      PROVE  Sum(T) = f[x] + Sum(T \ {x})
  <2> DEFINE p == Pick(T)
  <2>1. p \in T /\ Sum(T) = f[p] + Sum(T \ {p})
    BY <1>1, PickIn
  <2> HIDE DEF p
  <2>2. CASE x = p
    BY <2>1, <2>2
  <2>3. CASE x # p
    <3>1. (T \ {p}) \ {x} = (T \ {x}) \ {p}
      OBVIOUS
    <3>2. T \ {p} \in G /\ T \ {x} \in G
      BY <1>2, <2>1
    <3>3. Sum(T \ {p}) = f[x] + Sum((T \ {p}) \ {x})
      BY <2>1, <2>3, <3>2
    <3>4. Sum(T \ {x}) = f[p] + Sum((T \ {x}) \ {p})
      BY <2>1, <2>3, <3>2
    <3>5. f[x] \in Nat /\ f[p] \in Nat /\ Sum((T \ {x}) \ {p}) \in Nat
      BY <1>0, <2>1
    <3> HIDE DEF G
    <3>6. /\ Sum(T) = f[p] + (f[x] + Sum((T \ {x}) \ {p}))
          /\ Sum(T \ {x}) = f[p] + Sum((T \ {x}) \ {p})
      BY <2>1, <3>1, <3>3, <3>4
    <3> QED
      BY <3>5, <3>6
  <2> QED
    BY <2>2, <2>3
<1>3. \A T \in SUBSET S : (\A U \in SUBSET T : U # T => U \in G) => T \in G
  BY <1>2
<1>4. \A T \in SUBSET S : T \in G
  <2> HIDE DEF G
  <2> QED
    BY <1>3, SubsetInduction
<1> QED
  BY <1>4 DEF Sum

\* The sum depends on the values at the summed elements only.
LEMMA SumSame ==
  ASSUME NEW f, NEW h, NEW S, IsFiniteSet(S), \A x \in S : f[x] = h[x]
  PROVE  SumFunctionOnSet(f, S) = SumFunctionOnSet(h, S)
<1> DEFINE G == {T \in SUBSET S : SumFunctionOnSet(f, T) = SumFunctionOnSet(h, T)}
<1>1. ASSUME NEW T \in SUBSET S, \A U \in SUBSET T : U # T => U \in G
      PROVE  T \in G
  <2>1. IsFiniteSet(T)
    BY FS_Subset
  <2>2. CASE T = {}
    BY <2>1, <2>2, SumUnfold
  <2>3. CASE T # {}
    <3>1. Pick(T) \in T /\ T \ {Pick(T)} \in SUBSET T /\ T \ {Pick(T)} # T
      BY <2>3, PickIn
    <3>2. /\ SumFunctionOnSet(f, T \ {Pick(T)}) = SumFunctionOnSet(h, T \ {Pick(T)})
          /\ f[Pick(T)] = h[Pick(T)]
      BY <1>1, <3>1
    <3>3. /\ SumFunctionOnSet(f, T) = f[Pick(T)] + SumFunctionOnSet(f, T \ {Pick(T)})
          /\ SumFunctionOnSet(h, T) = h[Pick(T)] + SumFunctionOnSet(h, T \ {Pick(T)})
      BY <2>1, <2>3, SumUnfold
    <3> QED
      BY <3>2, <3>3
  <2> QED
    BY <2>2, <2>3
<1>2. \A T \in SUBSET S : T \in G
  <2> HIDE DEF G
  <2> QED
    BY <1>1, SubsetInduction
<1> QED
  BY <1>2

\* A sum over fewer elements is not larger.
LEMMA SumMonotone ==
  ASSUME NEW f, NEW S, IsFiniteSet(S), \A x \in S : f[x] \in Nat, NEW T \in SUBSET S
  PROVE  SumFunctionOnSet(f, T) <= SumFunctionOnSet(f, S)
<1> DEFINE Sum(U) == SumFunctionOnSet(f, U)
           G == {U \in SUBSET S : T \subseteq U => Sum(T) <= Sum(U)}
<1>0. /\ \A U \in SUBSET S : Sum(U) \in Nat
      /\ \A U \in SUBSET S : \A x \in U : Sum(U) = f[x] + Sum(U \ {x})
  BY SumType, SumPart
<1> HIDE DEF Sum
<1>1. ASSUME NEW U \in SUBSET S, \A V \in SUBSET U : V # U => V \in G
      PROVE  U \in G
  <2>1. SUFFICES ASSUME T \subseteq U, U # T PROVE Sum(T) <= Sum(U)
    BY <1>0
  <2>2. PICK x \in U : x \notin T
    BY <2>1
  <2>3. U \ {x} \in G /\ T \subseteq U \ {x}
    BY <1>1, <2>1, <2>2
  <2>4. Sum(U) = f[x] + Sum(U \ {x}) /\ Sum(T) <= Sum(U \ {x})
    BY <1>0, <2>3
  <2>5. f[x] \in Nat /\ Sum(U \ {x}) \in Nat /\ Sum(T) \in Nat
    BY <1>0
  <2> QED
    BY <2>4, <2>5
<1>2. \A U \in SUBSET S : U \in G
  <2> HIDE DEF G
  <2> QED
    BY <1>1, SubsetInduction
<1> QED
  BY <1>2 DEF Sum

\* Sums over an initial segment of the numbers, as a running total.
LEMMA SumUpTo ==
  ASSUME NEW f, NEW k \in Nat, \A i \in 1..k : f[i] \in Nat
  PROVE  /\ SumFunctionOnSet(f, 1..0) = 0
         /\ SumFunctionOnSet(f, 1..k) \in Nat
         /\ k # 0 => SumFunctionOnSet(f, 1..k) = SumFunctionOnSet(f, 1..(k - 1)) + f[k]
<1>1. IsFiniteSet(1..k)
  BY FS_Interval
<1>2. SumFunctionOnSet(f, 1..0) = 0
  <2>1. 1..0 = {}
    OBVIOUS
  <2>2. SumFunctionOnSet(f, {}) = 0
    BY FS_EmptySet, SumUnfold
  <2> QED
    BY <2>1, <2>2
<1>3. \A T \in SUBSET (1..k) : SumFunctionOnSet(f, T) \in Nat
  BY <1>1, SumType
<1>4. ASSUME k # 0
      PROVE  SumFunctionOnSet(f, 1..k) = SumFunctionOnSet(f, 1..(k - 1)) + f[k]
  <2>1. k \in 1..k /\ (1..k) \ {k} = 1..(k - 1) /\ 1..(k - 1) \in SUBSET (1..k)
    BY <1>4
  <2>2. SumFunctionOnSet(f, 1..k) = f[k] + SumFunctionOnSet(f, (1..k) \ {k})
    BY <1>1, <2>1, SumPart
  <2>3. f[k] \in Nat /\ SumFunctionOnSet(f, 1..(k - 1)) \in Nat
    BY <1>3, <2>1
  <2>4. SumFunctionOnSet(f, 1..k) = f[k] + SumFunctionOnSet(f, 1..(k - 1))
    BY <2>1, <2>2
  <2> QED
    BY <2>3, <2>4
<1> QED
  BY <1>2, <1>3, <1>4

\* The sum of a function that counts up to k, from a function it agrees with below k.
LEMMA SumOnTop ==
  ASSUME NEW k \in Nat \ {0}, NEW f, NEW h \in [1..k -> Nat],
         \A i \in 1..(k - 1) : f[i] = h[i]
  PROVE  /\ SumFunctionOnSet(h, 1..(k - 1)) = SumFunctionOnSet(f, 1..(k - 1))
         /\ SumFunction(h) = SumFunctionOnSet(f, 1..(k - 1)) + h[k]
<1>1. SumFunctionOnSet(h, 1..(k - 1)) = SumFunctionOnSet(f, 1..(k - 1))
  <2> DEFINE S == 1..(k - 1)
  <2>1. IsFiniteSet(S)
    BY FS_Interval
  <2>2. \A i \in S : h[i] = f[i]
    OBVIOUS
  <2> HIDE DEF S
  <2>3. SumFunctionOnSet(h, S) = SumFunctionOnSet(f, S)
    BY <2>1, <2>2, SumSame
  <2> QED
    BY <2>3 DEF S
<1>2. SumFunctionOnSet(h, 1..k) = SumFunctionOnSet(h, 1..(k - 1)) + h[k]
  BY SumUpTo
<1> QED
  BY <1>1, <1>2 DEF SumFunction
=============================================================================
