---------------------------- MODULE FloorProofs ----------------------------
(***************************************************************************)
(* Two components of the production floor, for any constants.              *)
(*                                                                         *)
(* Shifting: no label is shifted for more pieces than it stands for, since *)
(* its advisory lock is held from the check of its remaining pieces to the *)
(* commit of its row; manual shifts stay within what was produced; and all *)
(* shifts within what was verified and what shifts under other locks add.  *)
(*                                                                         *)
(* Dpr: nothing is locked from the checks of an entry to its insertion, so *)
(* what the checks promise holds up to what the requests under way add:    *)
(* one twin each, and one entry each over the cap; and a placeholder older *)
(* than a genuine row stands only until its request has deleted it.        *)
(***************************************************************************)
EXTENDS Shifting, Dpr, FiniteSetTheorems, WellFoundedInduction, TLAPS

-----------------------------------------------------------------------------
(* Sums.  The induction theorems of the library cannot be instantiated, so *)
(* induction is over the set of what has the property, from WFMin.         *)

\* Induction over the subsets of a finite set, and over Nat, for a set of those
\* that have the property.
LEMMA SubsetsInduct ==
  ASSUME NEW S, IsFiniteSet(S), NEW T \in SUBSET (SUBSET S),
         \A s \in SUBSET S : (\A x \in s : s \ {x} \in T) => s \in T
  PROVE  T = SUBSET S
<1> DEFINE U == (SUBSET S) \ T
<1>1. IsWellFoundedOn(StrictSubsetOrdering(S), SUBSET S)
  <2>1. IsWellFoundedOn(StrictSubsetOrdering(S), FiniteSubsetsOf(S))
    BY FS_StrictSubsetOrderingWellFounded
  <2> QED
    BY <2>1, FS_FiniteSubsetsOfFinite, Zenon
<1>2. CASE U # {}
  <2>1. PICK s \in U : \A u \in U : <<u, s>> \notin StrictSubsetOrdering(S)
    <3>1. U \subseteq SUBSET S
      OBVIOUS
    <3> HIDE DEF U
    <3> QED
      BY <1>1, <1>2, <3>1, WFMin
  <2>2. ASSUME NEW x \in s PROVE s \ {x} \in T
    <3>1. s \ {x} # s /\ s \ {x} \subseteq s /\ s \in SUBSET S /\ s \ {x} \in SUBSET S
      BY <2>2
    <3>2. <<s \ {x}, s>> \in StrictSubsetOrdering(S)
      BY <3>1 DEF StrictSubsetOrdering
    <3> QED
      BY <2>1, <3>1, <3>2
  <2> QED
    BY <2>1, <2>2
<1> QED
  BY <1>2

\* Induction over the numbers, for a set of them.
LEMMA NatInduct ==
  ASSUME NEW T \in SUBSET Nat, 0 \in T, \A n \in T : n + 1 \in T
  PROVE  T = Nat
<1> DEFINE U == Nat \ T
<1>1. CASE U # {}
  <2>1. PICK n \in U : \A m \in U : <<m, n>> \notin OpToRel(<, Nat)
    <3>1. U \subseteq Nat
      OBVIOUS
    <3> HIDE DEF U
    <3> QED
      BY <1>1, <3>1, NatLessThanWellFounded, WFMin
  <2>2. n # 0 /\ n \in Nat /\ n - 1 \in Nat /\ (n - 1) + 1 = n
    <3>1. n \in Nat /\ n # 0
      OBVIOUS
    <3> QED
      BY <3>1
  <2>3. <<n - 1, n>> \in OpToRel(<, Nat)
    BY <2>2 DEF OpToRel
  <2>4. n - 1 \notin U
    BY <2>1, <2>3
  <2> QED
    BY <2>1, <2>2, <2>4
<1> QED
  BY <1>1

Pick(s) == CHOOSE x \in s : TRUE

\* What a sum adds, one element after the other.
Adds(f, s, g) == IF s = {} THEN 0 ELSE f[Pick(s)] + g[s \ {Pick(s)}]

SumSteps(f, S, g) == g = [s \in SUBSET S |-> Adds(f, s, g)]

\* The element that the sum takes next.
LEMMA PickIn ==
  ASSUME NEW s, s # {}
  PROVE  Pick(s) \in s
BY DEF Pick

\* The definition by recursion defines a function.
LEMMA SumDefined ==
  ASSUME NEW f, NEW S, IsFiniteSet(S)
  PROVE  \E g : SumSteps(f, S, g)
<1> DEFINE Upto(n, g) == \A s \in SUBSET S : Cardinality(s) <= n => g[s] = Adds(f, s, g)
           T == {n \in Nat : \E g : g = [s \in SUBSET S |-> g[s]] /\ Upto(n, g)}
<1>1. \A s \in SUBSET S : /\ IsFiniteSet(s) /\ Cardinality(s) \in Nat
                          /\ s # {} => Cardinality(s \ {Pick(s)}) = Cardinality(s) - 1
  <2> SUFFICES ASSUME NEW s \in SUBSET S
               PROVE  /\ IsFiniteSet(s) /\ Cardinality(s) \in Nat
                      /\ s # {} => Cardinality(s \ {Pick(s)}) = Cardinality(s) - 1
    OBVIOUS
  <2>1. IsFiniteSet(s) /\ Cardinality(s) \in Nat
    BY FS_Subset, FS_CardinalityType
  <2>2. s # {} => Cardinality(s \ {Pick(s)}) = Cardinality(s) - 1
    BY <2>1, PickIn, FS_RemoveElement
  <2> QED
    BY <2>1, <2>2
<1>2. 0 \in T
  <2> DEFINE g == [s \in SUBSET S |-> 0]
  <2>1. ASSUME NEW s \in SUBSET S, Cardinality(s) <= 0 PROVE g[s] = Adds(f, s, g)
    <3>1. IsFiniteSet(s) /\ Cardinality(s) \in Nat
      BY <1>1
    <3>2. Cardinality(s) = 0
      BY <2>1, <3>1
    <3>3. s = {}
      BY <3>1, <3>2, FS_EmptySet
    <3> QED
      BY <3>3 DEF Adds
  <2>2. g = [s \in SUBSET S |-> g[s]] /\ Upto(0, g)
    BY <2>1
  <2> QED
    BY <2>2
<1>3. ASSUME NEW n \in T PROVE n + 1 \in T
  <2>1. PICK g : g = [s \in SUBSET S |-> g[s]] /\ Upto(n, g)
    OBVIOUS
  <2> DEFINE h == [s \in SUBSET S |-> Adds(f, s, g)]
  <2>2. ASSUME NEW s \in SUBSET S, Cardinality(s) <= n + 1 PROVE h[s] = Adds(f, s, h)
    <3>1. CASE s = {}
      BY <3>1 DEF Adds
    <3>2. CASE s # {}
      <4>1. s \ {Pick(s)} \in SUBSET S /\ Cardinality(s \ {Pick(s)}) <= n
        BY <1>1, <2>2, <3>2
      <4>2. g[s \ {Pick(s)}] = h[s \ {Pick(s)}]
        BY <2>1, <4>1
      <4> QED
        BY <3>2, <4>2 DEF Adds
    <3> QED
      BY <3>1, <3>2
  <2>3. h = [s \in SUBSET S |-> h[s]] /\ Upto(n + 1, h)
    BY <2>2
  <2> HIDE DEF h
  <2>4. n + 1 \in Nat
    OBVIOUS
  <2> QED
    BY <2>3, <2>4
<1>4. T = Nat
  <2>1. T \in SUBSET Nat
    OBVIOUS
  <2> HIDE DEF T
  <2> QED
    BY <1>2, <1>3, <2>1, NatInduct
<1>5. Cardinality(S) \in T
  BY <1>1, <1>4
<1>6. PICK g : g = [s \in SUBSET S |-> g[s]] /\ Upto(Cardinality(S), g)
  BY <1>5
<1>7. \A s \in SUBSET S : g[s] = Adds(f, s, g)
  BY <1>1, <1>6, FS_Subset
<1>8. g = [s \in SUBSET S |-> Adds(f, s, g)]
  BY <1>6, <1>7
<1> QED
  BY <1>8 DEF SumSteps

\* A sum is its function of the subsets, at the whole set.
LEMMA SumUnfold ==
  ASSUME NEW f, NEW S, IsFiniteSet(S)
  PROVE  \E g : SumSteps(f, S, g) /\ Sum(f, S) = g[S]
<1>1. Sum(f, S) = (CHOOSE g : SumSteps(f, S, g))[S]
  BY DEF Sum, MapThenSumSet, MapThenFoldSet, SumSteps, Adds, Pick
<1>2. \E g : SumSteps(f, S, g)
  BY SumDefined
<1> QED
  BY <1>1, <1>2

\* One term and the sum of the rest.
LEMMA SumStep ==
  ASSUME NEW f, NEW S, NEW g, SumSteps(f, S, g), NEW s \in SUBSET S
  PROVE  s # {} => Pick(s) \in s /\ s \ {Pick(s)} \in SUBSET S /\ g[s] = f[Pick(s)] + g[s \ {Pick(s)}]
BY PickIn DEF SumSteps, Adds

\* The empty sum.
LEMMA SumNone ==
  ASSUME NEW f, NEW S, NEW g, SumSteps(f, S, g)
  PROVE  g[{}] = 0
BY DEF SumSteps, Adds

\* Natural numbers add up to one that is at least each of them.
LEMMA SumNat ==
  ASSUME NEW f, NEW S, IsFiniteSet(S), \A x \in S : f[x] \in Nat
  PROVE  Sum(f, S) \in Nat /\ \A x \in S : f[x] <= Sum(f, S)
<1>1. PICK g : SumSteps(f, S, g) /\ Sum(f, S) = g[S]
  BY SumUnfold
<1> DEFINE T == {s \in SUBSET S : g[s] \in Nat /\ \A x \in s : f[x] <= g[s]}
<1>2. ASSUME NEW s \in SUBSET S, \A x \in s : s \ {x} \in T PROVE s \in T
  <2>1. CASE s = {}
    <3>1. g[{}] = 0
      BY <1>1, SumNone
    <3> QED
      BY <2>1, <3>1
  <2>2. CASE s # {}
    <3>1. Pick(s) \in s /\ g[s] = f[Pick(s)] + g[s \ {Pick(s)}]
      BY <1>1, <2>2, SumStep
    <3>rest. s \ {Pick(s)} \in T
      BY <1>2, <3>1
    <3>2. f[Pick(s)] \in Nat /\ g[s \ {Pick(s)}] \in Nat
      BY <3>rest, <3>1
    <3>3. ASSUME NEW x \in s PROVE f[x] <= g[s]
      <4>1. f[x] \in Nat
        OBVIOUS
      <4>2. CASE x = Pick(s)
        BY <3>1, <3>2, <4>2
      <4>3. CASE x # Pick(s)
        <5>1. f[x] <= g[s \ {Pick(s)}]
          BY <3>rest, <4>3
        <5> QED
          BY <3>1, <3>2, <4>1, <5>1
      <4> QED
        BY <4>2, <4>3
    <3> QED
      BY <3>1, <3>2, <3>3
  <2> QED
    BY <2>1, <2>2
<1>3. T = SUBSET S
  <2>1. T \in SUBSET (SUBSET S)
    OBVIOUS
  <2> HIDE DEF T
  <2> QED
    BY <1>2, <2>1, SubsetsInduct
<1>4. S \in T
  BY <1>3
<1> QED
  BY <1>1, <1>4

\* Where one of them changes, the sum changes by as much.
LEMMA SumChange ==
  ASSUME NEW S, IsFiniteSet(S), NEW f, NEW h, \A x \in S : f[x] \in Int /\ h[x] \in Int,
         NEW y \in S, \A x \in S : x # y => h[x] = f[x]
  PROVE  Sum(h, S) = Sum(f, S) + (h[y] - f[y]) /\ Sum(f, S) \in Int
<1>1. PICK g : SumSteps(f, S, g) /\ Sum(f, S) = g[S]
  BY SumUnfold
<1>2. PICK k : SumSteps(h, S, k) /\ Sum(h, S) = k[S]
  BY SumUnfold
<1> DEFINE Rise(s) == IF y \in s THEN h[y] - f[y] ELSE 0
           T == {s \in SUBSET S : g[s] \in Int /\ k[s] = g[s] + Rise(s)}
<1>3. ASSUME NEW s \in SUBSET S, \A x \in s : s \ {x} \in T PROVE s \in T
  <2>1. CASE s = {}
    <3>1. g[{}] = 0 /\ k[{}] = 0
      BY <1>1, <1>2, SumNone
    <3> QED
      BY <2>1, <3>1
  <2>2. CASE s # {}
    <3>1. Pick(s) \in s /\ g[s] = f[Pick(s)] + g[s \ {Pick(s)}]
      <4> HIDE DEF T, Rise
      <4>1. s # {} => Pick(s) \in s /\ s \ {Pick(s)} \in SUBSET S /\ g[s] = f[Pick(s)] + g[s \ {Pick(s)}]
        BY <1>1, SumStep
      <4> QED
        BY <2>2, <4>1
    <3>rest. s \ {Pick(s)} \in T
      BY <1>3, <3>1
    <3>2. k[s] = h[Pick(s)] + k[s \ {Pick(s)}]
      BY <1>2, <2>2, SumStep
    <3>3. /\ f[Pick(s)] \in Int /\ h[Pick(s)] \in Int /\ f[y] \in Int /\ h[y] \in Int
          /\ Pick(s) # y => h[Pick(s)] = f[Pick(s)]
      BY <3>1
    <3>4. g[s \ {Pick(s)}] \in Int /\ k[s \ {Pick(s)}] = g[s \ {Pick(s)}] + Rise(s \ {Pick(s)})
      BY <3>rest
    <3>5. CASE Pick(s) = y
      BY <3>1, <3>2, <3>3, <3>4, <3>5
    <3>6. CASE Pick(s) # y
      <4>1. Rise(s \ {Pick(s)}) = Rise(s) /\ Rise(s) \in Int
        BY <3>3, <3>6
      <4> HIDE DEF Rise
      <4> QED
        BY <3>1, <3>2, <3>3, <3>4, <3>6, <4>1
    <3> QED
      BY <3>5, <3>6
  <2> QED
    BY <2>1, <2>2
<1>4. T = SUBSET S
  <2>1. T \in SUBSET (SUBSET S)
    OBVIOUS
  <2> HIDE DEF T
  <2> QED
    BY <1>3, <2>1, SubsetsInduct
<1>5. S \in T
  BY <1>4
<1> QED
  BY <1>1, <1>2, <1>5

\* At most m each make at most m times their number.
LEMMA SumBounded ==
  ASSUME NEW S, IsFiniteSet(S), NEW m \in Nat, NEW f, \A x \in S : f[x] \in Nat /\ f[x] <= m
  PROVE  Sum(f, S) <= Cardinality(S) * m
<1>1. PICK g : SumSteps(f, S, g) /\ Sum(f, S) = g[S]
  BY SumUnfold
<1> DEFINE T == {s \in SUBSET S : g[s] \in Nat /\ g[s] <= Cardinality(s) * m}
<1>2. ASSUME NEW s \in SUBSET S, \A x \in s : s \ {x} \in T PROVE s \in T
  <2>1. CASE s = {}
    <3>1. g[{}] = 0 /\ Cardinality({}) = 0
      BY <1>1, SumNone, FS_EmptySet
    <3> QED
      BY <2>1, <3>1
  <2>2. CASE s # {}
    <3>1. Pick(s) \in s /\ g[s] = f[Pick(s)] + g[s \ {Pick(s)}]
      BY <1>1, <2>2, SumStep
    <3>rest. s \ {Pick(s)} \in T
      BY <1>2, <3>1
    <3>2. f[Pick(s)] \in Nat /\ f[Pick(s)] <= m /\ g[s \ {Pick(s)}] \in Nat
          /\ g[s \ {Pick(s)}] <= Cardinality(s \ {Pick(s)}) * m
      BY <3>rest, <3>1
    <3>3. Cardinality(s) \in Nat /\ Cardinality(s \ {Pick(s)}) \in Nat
          /\ Cardinality(s) = Cardinality(s \ {Pick(s)}) + 1
      <4>1. IsFiniteSet(s) /\ IsFiniteSet(s \ {Pick(s)})
        BY FS_Subset
      <4>2. Cardinality(s) \in Nat /\ Cardinality(s \ {Pick(s)}) \in Nat
        BY <4>1, FS_CardinalityType
      <4>3. Cardinality(s \ {Pick(s)}) = Cardinality(s) - 1
        BY <3>1, <4>1, FS_RemoveElement
      <4> QED
        BY <4>2, <4>3
    <3>4. PICK c \in Nat : c = Cardinality(s \ {Pick(s)})
      BY <3>3
    <3>5. (c + 1) * m = c * m + m /\ c * m \in Nat
      BY <3>4
    <3> QED
      BY <3>1, <3>2, <3>3, <3>4, <3>5
  <2> QED
    BY <2>1, <2>2
<1>3. T = SUBSET S
  <2>1. T \in SUBSET (SUBSET S)
    OBVIOUS
  <2> HIDE DEF T
  <2> QED
    BY <1>2, <2>1, SubsetsInduct
<1>4. S \in T
  BY <1>3
<1> QED
  BY <1>1, <1>4

\* The equations of a sum have one solution, in which only the terms matter.
LEMMA SumUnique ==
  ASSUME NEW f, NEW h, NEW S, IsFiniteSet(S), \A x \in S : f[x] = h[x],
         NEW g, SumSteps(f, S, g), NEW k, SumSteps(h, S, k)
  PROVE  g = k
<1> DEFINE T == {s \in SUBSET S : g[s] = k[s]}
<1>1. ASSUME NEW s \in SUBSET S, \A x \in s : s \ {x} \in T PROVE s \in T
  <2>1. CASE s = {}
    BY <2>1, SumNone
  <2>2. CASE s # {}
    <3>1. Pick(s) \in s /\ g[s] = f[Pick(s)] + g[s \ {Pick(s)}]
      BY <2>2, PickIn DEF SumSteps, Adds
    <3>2. k[s] = h[Pick(s)] + k[s \ {Pick(s)}]
      BY <2>2 DEF SumSteps, Adds
    <3>3. g[s \ {Pick(s)}] = k[s \ {Pick(s)}]
      BY <1>1, <3>1
    <3> QED
      BY <3>1, <3>2, <3>3
  <2> QED
    BY <2>1, <2>2
<1>2. T = SUBSET S
  <2>1. T \in SUBSET (SUBSET S)
    OBVIOUS
  <2> HIDE DEF T
  <2> QED
    BY <1>1, <2>1, SubsetsInduct
<1>3. \A s \in SUBSET S : g[s] = k[s]
  BY <1>2
<1>4. g = [s \in SUBSET S |-> g[s]] /\ k = [s \in SUBSET S |-> k[s]]
  BY DEF SumSteps
<1> QED
  BY <1>3, <1>4

\* A sum depends on its terms alone.
LEMMA SumAgree ==
  ASSUME NEW f, NEW h, NEW S, IsFiniteSet(S), \A x \in S : f[x] = h[x]
  PROVE  Sum(f, S) = Sum(h, S)
<1>1. PICK g : SumSteps(f, S, g) /\ Sum(f, S) = g[S]
  BY SumUnfold
<1>2. PICK k : SumSteps(h, S, k) /\ Sum(h, S) = k[S]
  BY SumUnfold
<1>3. g = k
  BY <1>1, <1>2, SumUnique
<1> QED
  BY <1>1, <1>2, <1>3

\* The first term and the sum of the rest.
LEMMA SumFirst ==
  ASSUME NEW f, NEW S, IsFiniteSet(S)
  PROVE  /\ S = {} => Sum(f, S) = 0
         /\ S # {} => Pick(S) \in S /\ Sum(f, S) = f[Pick(S)] + Sum(f, S \ {Pick(S)})
<1>1. PICK g : SumSteps(f, S, g) /\ Sum(f, S) = g[S]
  BY SumUnfold
<1>2. S = {} => Sum(f, S) = 0
  BY <1>1, SumNone
<1>3. ASSUME S # {} PROVE Pick(S) \in S /\ Sum(f, S) = f[Pick(S)] + Sum(f, S \ {Pick(S)})
  <2> DEFINE R == S \ {Pick(S)}
             k == [s \in SUBSET R |-> g[s]]
  <2>1. Pick(S) \in S /\ g[S] = f[Pick(S)] + g[R]
    BY <1>1, <1>3, SumStep
  <2>2. IsFiniteSet(R)
    BY FS_RemoveElement
  <2>3. PICK j : SumSteps(f, R, j) /\ Sum(f, R) = j[R]
    BY <2>2, SumUnfold
  <2>4. SumSteps(f, R, k)
    <3>1. ASSUME NEW s \in SUBSET R PROVE g[s] = Adds(f, s, k)
      <4>1. g[s] = Adds(f, s, g)
        BY <1>1 DEF SumSteps
      <4>2. s \ {Pick(s)} \in SUBSET R
        OBVIOUS
      <4>3. Adds(f, s, k) = Adds(f, s, g)
        BY <4>2 DEF Adds
      <4> QED
        BY <4>1, <4>3
    <3> QED
      BY <3>1 DEF SumSteps
  <2> HIDE DEF R, k
  <2>5. j = k
    BY <2>2, <2>3, <2>4, SumUnique
  <2>6. k[R] = g[R]
    BY DEF k
  <2> QED
    BY <1>1, <2>1, <2>3, <2>5, <2>6 DEF R
<1> QED
  BY <1>2, <1>3

\* Any term and the sum of the rest.
LEMMA SumApart ==
  ASSUME NEW f, NEW S, IsFiniteSet(S), \A x \in S : f[x] \in Nat, NEW y \in S
  PROVE  Sum(f, S) = f[y] + Sum(f, S \ {y})
<1> DEFINE T == {s \in SUBSET S : \A z \in s : Sum(f, s) = f[z] + Sum(f, s \ {z})}
<1>0. \A s \in SUBSET S : IsFiniteSet(s) /\ Sum(f, s) \in Nat
  BY FS_Subset, SumNat
<1>1. ASSUME NEW s \in SUBSET S, \A x \in s : s \ {x} \in T PROVE s \in T
  <2> SUFFICES ASSUME NEW z \in s PROVE Sum(f, s) = f[z] + Sum(f, s \ {z})
    OBVIOUS
  <2> DEFINE p == Pick(s)
  <2>1. p \in s /\ Sum(f, s) = f[p] + Sum(f, s \ {p})
    BY <1>0, SumFirst
  <2>2. CASE p = z
    BY <2>1, <2>2
  <2>3. CASE p # z
    <3>1. Sum(f, s \ {p}) = f[z] + Sum(f, (s \ {p}) \ {z})
      BY <1>1, <2>1, <2>3
    <3>2. Sum(f, s \ {z}) = f[p] + Sum(f, (s \ {z}) \ {p})
      BY <1>1, <2>1, <2>3
    <3>3. (s \ {p}) \ {z} = (s \ {z}) \ {p} /\ (s \ {p}) \ {z} \in SUBSET S
      OBVIOUS
    <3>4. f[p] \in Nat /\ f[z] \in Nat /\ Sum(f, (s \ {p}) \ {z}) \in Nat
      BY <1>0, <2>1, <3>3
    <3> HIDE DEF p
    <3> QED
      BY <2>1, <3>1, <3>2, <3>3, <3>4
  <2> QED
    BY <2>2, <2>3
<1>2. T = SUBSET S
  <2>1. T \in SUBSET (SUBSET S)
    OBVIOUS
  <2> HIDE DEF T
  <2> QED
    BY <1>1, <2>1, SubsetsInduct
<1>3. S \in T
  BY <1>2
<1> QED
  BY <1>3

\* Fewer terms, no larger a sum.
LEMMA SumSubset ==
  ASSUME NEW f, NEW S, IsFiniteSet(S), \A x \in S : f[x] \in Nat, NEW R \in SUBSET S
  PROVE  Sum(f, R) <= Sum(f, S)
<1> DEFINE T == {s \in SUBSET S : \A r \in SUBSET s : Sum(f, r) <= Sum(f, s)}
<1>0. \A s \in SUBSET S : IsFiniteSet(s) /\ Sum(f, s) \in Nat
  BY FS_Subset, SumNat
<1>1. ASSUME NEW s \in SUBSET S, \A x \in s : s \ {x} \in T PROVE s \in T
  <2> SUFFICES ASSUME NEW r \in SUBSET s PROVE Sum(f, r) <= Sum(f, s)
    OBVIOUS
  <2>1. CASE r = s
    BY <1>0, <2>1
  <2>2. CASE r # s
    <3>1. PICK x \in s : x \notin r
      BY <2>2
    <3>2. Sum(f, r) <= Sum(f, s \ {x})
      BY <1>1, <3>1
    <3>3. Sum(f, s) = f[x] + Sum(f, s \ {x})
      BY <1>0, SumApart
    <3>4. f[x] \in Nat /\ Sum(f, s \ {x}) \in Nat /\ Sum(f, r) \in Nat
      BY <1>0
    <3> QED
      BY <3>2, <3>3, <3>4
  <2> QED
    BY <2>1, <2>2
<1>2. T = SUBSET S
  <2>1. T \in SUBSET (SUBSET S)
    OBVIOUS
  <2> HIDE DEF T
  <2> QED
    BY <1>1, <2>1, SubsetsInduct
<1>3. S \in T
  BY <1>2
<1> QED
  BY <1>3

\* Terms renamed one to one add up to the same.
LEMMA SumRenamed ==
  ASSUME NEW S, IsFiniteSet(S), NEW U, IsFiniteSet(U), NEW at \in [S -> U],
         \A x, y \in S : at[x] = at[y] => x = y,
         NEW f, \A u \in U : f[u] \in Nat, NEW h, \A x \in S : h[x] = f[at[x]]
  PROVE  Sum(h, S) = Sum(f, {at[x] : x \in S})
<1> DEFINE Im(s) == {at[x] : x \in s}
           T == {s \in SUBSET S : Sum(h, s) = Sum(f, Im(s))}
<1>1. ASSUME NEW s \in SUBSET S, \A x \in s : s \ {x} \in T PROVE s \in T
  <2>0. IsFiniteSet(s) /\ Im(s) \in SUBSET U
    BY FS_Subset
  <2>1. IsFiniteSet(Im(s)) /\ \A u \in Im(s) : f[u] \in Nat
    BY <2>0, FS_Subset
  <2>2. CASE s = {}
    <3>1. Im(s) = {}
      BY <2>2
    <3> QED
      BY <2>0, <2>1, <2>2, <3>1, SumFirst
  <2>3. CASE s # {}
    <3>1. PICK x \in s : TRUE
      BY <2>3
    <3>2. \A z \in s : h[z] \in Nat
      OBVIOUS
    <3>3. Sum(h, s) = h[x] + Sum(h, s \ {x})
      BY <2>0, <3>2, SumApart
    <3>4. at[x] \in Im(s) /\ Im(s \ {x}) = Im(s) \ {at[x]}
      OBVIOUS
    <3> HIDE DEF Im
    <3>5. Sum(f, Im(s)) = f[at[x]] + Sum(f, Im(s) \ {at[x]})
      BY <2>1, <3>4, SumApart
    <3>6. Sum(h, s \ {x}) = Sum(f, Im(s \ {x}))
      BY <1>1
    <3> QED
      BY <3>3, <3>4, <3>5, <3>6
  <2> QED
    BY <2>2, <2>3
<1>2. T = SUBSET S
  <2>1. T \in SUBSET (SUBSET S)
    OBVIOUS
  <2> HIDE DEF T
  <2> QED
    BY <1>1, <2>1, SubsetsInduct
<1>3. S \in T
  BY <1>2
<1> QED
  BY <1>3

\* At most m each but for one that is 0.
LEMMA AllButOne ==
  ASSUME NEW S, IsFiniteSet(S), NEW m \in Nat, NEW f, \A x \in S : f[x] \in Nat /\ f[x] <= m,
         NEW y \in S, f[y] = 0
  PROVE  Sum(f, S) <= (Cardinality(S) - 1) * m /\ Sum(f, S) \in Nat
<1>1. IsFiniteSet(S \ {y}) /\ Cardinality(S \ {y}) = Cardinality(S) - 1
  BY FS_RemoveElement
<1>2. Sum(f, S) = Sum(f, S \ {y}) /\ Sum(f, S) \in Nat
  <2>1. Sum(f, S) = f[y] + Sum(f, S \ {y})
    BY SumApart
  <2>2. Sum(f, S) \in Nat /\ Sum(f, S \ {y}) \in Nat
    BY <1>1, SumNat
  <2> QED
    BY <2>1, <2>2
<1>3. Sum(f, S \ {y}) <= Cardinality(S \ {y}) * m
  BY <1>1, SumBounded
<1> QED
  BY <1>1, <1>2, <1>3

\* All but one times a number is a number.
LEMMA TimesAllButOne ==
  ASSUME NEW S, IsFiniteSet(S), S # {}, NEW m \in Nat
  PROVE  (Cardinality(S) - 1) * m \in Nat
<1>1. Cardinality(S) \in Nat /\ Cardinality(S) # 0
  BY FS_CardinalityType, FS_EmptySet
<1>2. PICK c \in Nat : Cardinality(S) - 1 = c
  <2>1. Cardinality(S) - 1 \in Nat
    BY <1>1
  <2> QED
    BY <2>1
<1>3. c * m \in Nat
  OBVIOUS
<1> QED
  BY <1>2, <1>3

\* A finite set of numbers has a largest one.
LEMMA Largest ==
  ASSUME NEW S \in SUBSET Nat, IsFiniteSet(S), S # {}
  PROVE  Max(S) \in S /\ \A n \in S : n <= Max(S)
<1> DEFINE T == {s \in SUBSET S : s # {} => \E x \in s : \A y \in s : x >= y}
<1>1. \A n \in S : n \in Nat
  OBVIOUS
<1>2. ASSUME NEW s \in SUBSET S, \A x \in s : s \ {x} \in T PROVE s \in T
  <2> SUFFICES ASSUME s # {} PROVE \E x \in s : \A y \in s : x >= y
    OBVIOUS
  <2>1. PICK x \in s : TRUE
    OBVIOUS
  <2>2. CASE s = {x}
    BY <1>1, <2>1, <2>2
  <2>3. CASE s # {x}
    <3>1. PICK z \in s \ {x} : \A y \in s \ {x} : z >= y
      BY <1>2, <2>1, <2>3
    <3>2. x \in Nat /\ z \in Nat /\ \A y \in s : y \in Nat
      BY <1>1, <2>1, <3>1
    <3>3. CASE z >= x
      BY <3>1, <3>3
    <3>4. CASE x >= z
      BY <2>1, <3>1, <3>2, <3>4
    <3> QED
      BY <3>2, <3>3, <3>4
  <2> QED
    BY <2>2, <2>3
<1>3. T = SUBSET S
  <2>1. T \in SUBSET (SUBSET S)
    OBVIOUS
  <2> HIDE DEF T
  <2> QED
    BY <1>2, <2>1, SubsetsInduct
<1>4. \E x \in S : \A y \in S : x >= y
  <2>1. S \in T
    BY <1>3
  <2> QED
    BY <2>1
<1>5. Max(S) \in S /\ \A y \in S : Max(S) >= y
  BY <1>4, Zenon DEF Max
<1> QED
  BY <1>1, <1>5

-----------------------------------------------------------------------------
(* Labels.                                                                 *)

Typed == job \in [Handlers -> Jobs] /\ shifted \in [Sources -> Nat]

\* The advisory lock of a source has one holder.
OneInside == \A h, k \in Handlers : Inside(h) /\ Inside(k) /\ job[h].from = job[k].from => h = k

\* What the check of a scan found is so until its row is saved.
ChecksHold ==
  \A h \in Handlers :
    job[h].step = "save" /\ job[h].from \in Labels
      => shifted[job[h].from] + job[h].qty <= LabelQty[job[h].from]

ScanInv == Typed /\ OneInside /\ ChecksHold /\ LabelOnce

\* What is left of a label.
LEMMA MaxWithZero ==
  ASSUME NEW a \in Int, NEW n \in Nat \ {0}, n <= Max({a, 0})
  PROVE  n <= a
<1>1. \E x \in {a, 0} : \A y \in {a, 0} : x >= y
  <2>1. CASE a >= 0
    BY <2>1
  <2>2. CASE 0 >= a
    BY <2>2
  <2> QED
    BY <2>1, <2>2
<1>2. Max({a, 0}) \in {a, 0}
  BY <1>1, Zenon DEF Max
<1> QED
  BY <1>2

LEMMA IdleType ==
  Idle \in Jobs /\ Idle.step = "idle"
<1>1. (CHOOSE q \in Amounts : TRUE) \in Amounts
  BY ShiftingConstants
<1> QED
  BY <1>1 DEF Idle, Jobs, Sources

\* A step of one handler leaves the others' jobs alone.
LEMMA JobChange ==
  ASSUME Typed, NEW h \in Handlers, NEW j, job' = [job EXCEPT ![h] = j]
  PROVE  /\ job'[h] = j /\ \A k \in Handlers : k # h => job'[k] = job[k]
         /\ j \in Jobs => job' \in [Handlers -> Jobs]
  BY DEF Typed

LEMMA ScanInit == Init => ScanInv
<1> SUFFICES ASSUME Init PROVE ScanInv
  OBVIOUS
<1>1. \A h \in Handlers : job[h] = Idle
  BY DEF Init
<1>2. Typed
  BY IdleType DEF Init, Typed
<1>3. OneInside /\ ChecksHold
  BY <1>1, IdleType DEF OneInside, ChecksHold, Inside
<1>4. LabelOnce
  BY ShiftingConstants DEF Init, LabelOnce, Sources
<1> QED
  BY <1>2, <1>3, <1>4 DEF ScanInv

\* A handler that stays or goes outside the lock.
LEMMA Outside ==
  ASSUME ScanInv, NEW h \in Handlers, NEW j \in Jobs, job' = [job EXCEPT ![h] = j],
         j.step \in {"idle", "pool", "lock"}, shifted' = shifted
  PROVE  ScanInv'
<1> USE DEF ScanInv
<1>1. /\ job'[h] = j /\ \A k \in Handlers : k # h => job'[k] = job[k]
      /\ job' \in [Handlers -> Jobs]
  BY JobChange
<1>2. Typed' /\ LabelOnce'
  BY <1>1 DEF Typed, LabelOnce
<1>3. OneInside' /\ ChecksHold'
  BY <1>1 DEF OneInside, ChecksHold, Inside
<1> QED
  BY <1>2, <1>3

\* A lock is free when it is taken: nobody else is past it.
LEMMA LockTaken ==
  ASSUME ScanInv, NEW h \in Handlers, Lock(h)
  PROVE  ScanInv'
<1> USE DEF ScanInv
<1> DEFINE j == [job[h] EXCEPT !.step = "check"]
<1>1. job[h] \in Jobs /\ job' = [job EXCEPT ![h] = j] /\ shifted' = shifted
  BY DEF Lock, Does, table, Typed
<1>2. j \in Jobs /\ j.step = "check" /\ j.from = job[h].from
  BY <1>1 DEF Jobs
<1> HIDE DEF j
<1>3. /\ job'[h] = j /\ \A k \in Handlers : k # h => job'[k] = job[k]
      /\ job' \in [Handlers -> Jobs]
  BY <1>1, <1>2, JobChange
<1>4. Typed' /\ LabelOnce' /\ ChecksHold'
  BY <1>1, <1>2, <1>3 DEF Typed, LabelOnce, ChecksHold
<1>5. \A k \in Handlers : Inside(k) => job[k].from # job[h].from
  BY DEF Lock
<1>6. OneInside'
  BY <1>2, <1>3, <1>5 DEF OneInside, Inside
<1> QED
  BY <1>4, <1>6

\* The check of a label reads what only its holder can change.
LEMMA Checked ==
  ASSUME ScanInv, NEW h \in Handlers, NEW onHold \in BOOLEAN, NEW answered \in BOOLEAN,
         Check(h, onHold, answered)
  PROVE  ScanInv'
<1> USE DEF ScanInv
<1>1. shifted' = shifted /\ job[h] \in Jobs /\ job[h].step = "check"
  BY DEF Check, table, Typed
<1>2. CASE Ends(h)
  BY <1>1, <1>2, IdleType, Outside DEF Ends
<1>3. CASE /\ Allowed(job[h].from, job[h].qty, answered)
           /\ job' = [job EXCEPT ![h].step = "save", ![h].free = ~Enforced(answered)]
  <2> DEFINE j == [job[h] EXCEPT !.step = "save", !.free = ~Enforced(answered)]
  <2>1. job' = [job EXCEPT ![h] = j]
    BY <1>3
  <2>2. j.step = "save" /\ j.from = job[h].from /\ j.qty = job[h].qty /\ j.from \in Sources /\ j.qty \in Amounts
    BY <1>1 DEF Jobs
  <2>3. j \in Jobs
    <3>1. Enforced(answered) \in BOOLEAN \/ Enforced(answered) \notin BOOLEAN
      OBVIOUS
    <3>2. (~Enforced(answered)) \in BOOLEAN
      OBVIOUS
    <3> QED
      BY <1>1, <3>2 DEF Jobs
  <2> HIDE DEF j
  <2>4. /\ job'[h] = j /\ \A k \in Handlers : k # h => job'[k] = job[k]
        /\ job' \in [Handlers -> Jobs]
    BY <2>1, <2>3, JobChange
  <2>5. ASSUME j.from \in Labels PROVE shifted[j.from] + j.qty <= LabelQty[j.from]
    <3>1. j.qty <= Max({LabelQty[j.from] - shifted[j.from], 0})
      BY <1>3, <2>2, <2>5 DEF Allowed, FitsSource
    <3>2. j.qty \in Nat \ {0} /\ LabelQty[j.from] \in Nat /\ shifted[j.from] \in Nat
      BY <2>2, <2>5, ShiftingConstants DEF Typed
    <3>3. j.qty <= LabelQty[j.from] - shifted[j.from]
      BY <3>1, <3>2, MaxWithZero
    <3> QED
      BY <3>2, <3>3
  <2>6. Typed' /\ LabelOnce' /\ ChecksHold'
    BY <1>1, <2>2, <2>4, <2>5 DEF Typed, LabelOnce, ChecksHold
  <2>7. OneInside'
    BY <1>1, <2>2, <2>4 DEF OneInside, Inside
  <2> QED
    BY <2>6, <2>7
<1> QED
  BY <1>2, <1>3 DEF Check

\* What is saved is what was checked.
LEMMA Saved ==
  ASSUME ScanInv, NEW h \in Handlers, Save(h)
  PROVE  ScanInv'
<1> USE DEF ScanInv
<1> DEFINE s == job[h].from
           n == job[h].qty
<1>1. /\ job[h] \in Jobs /\ job[h].step = "save" /\ s \in Sources /\ n \in Nat
      /\ shifted' = [shifted EXCEPT ![s] = @ + n]
      /\ job' = [job EXCEPT ![h] = Idle]
  BY ShiftingConstants DEF Save, Ends, Typed, Jobs
<1>2. s \in Labels => shifted[s] + n <= LabelQty[s]
  BY <1>1 DEF ChecksHold
<1>3. \A k \in Handlers : k # h /\ Inside(k) => job[k].from # s
  BY <1>1 DEF OneInside, Inside
<1> HIDE DEF s, n
<1>4. /\ shifted'[s] = shifted[s] + n /\ shifted' \in [Sources -> Nat]
      /\ \A q \in Sources : q # s => shifted'[q] = shifted[q]
  BY <1>1 DEF Typed
<1>5. /\ job'[h] = Idle /\ \A k \in Handlers : k # h => job'[k] = job[k]
      /\ job' \in [Handlers -> Jobs]
  BY <1>1, IdleType, JobChange
<1>6. Typed' /\ LabelOnce'
  BY <1>2, <1>4, <1>5 DEF Typed, LabelOnce, Sources
<1>7. OneInside'
  BY <1>5, IdleType DEF OneInside, Inside
<1>8. ChecksHold'
  BY <1>3, <1>4, <1>5, IdleType DEF ChecksHold, Inside, Sources
<1> QED
  BY <1>6, <1>7, <1>8

LEMMA ScanNext == ScanInv /\ [Next]_vars => ScanInv'
<1> SUFFICES ASSUME ScanInv, [Next]_vars PROVE ScanInv'
  OBVIOUS
<1> USE DEF ScanInv
<1>1. ASSUME job' = job, \A s \in Sources : shifted'[s] = shifted[s] \/ shifted'[s] = 0,
             shifted' \in [Sources -> Nat]
      PROVE  ScanInv'
  <2>1. Typed' /\ OneInside'
    BY <1>1 DEF Typed, OneInside, Inside
  <2>2. LabelOnce'
    BY <1>1, ShiftingConstants DEF LabelOnce, Sources
  <2>3. ChecksHold'
    <3> SUFFICES ASSUME NEW h \in Handlers, job[h].step = "save", job[h].from \in Labels
                 PROVE  shifted'[job[h].from] + job[h].qty <= LabelQty[job[h].from]
      BY <1>1 DEF ChecksHold
    <3>1. shifted[job[h].from] + job[h].qty <= LabelQty[job[h].from]
      BY DEF ChecksHold
    <3>2. /\ shifted[job[h].from] \in Nat /\ job[h].qty \in Nat /\ LabelQty[job[h].from] \in Nat
          /\ job[h].from \in Sources
      BY ShiftingConstants DEF Typed, Jobs, Sources
    <3> QED
      BY <1>1, <3>1, <3>2
  <2> QED
    BY <2>1, <2>2, <2>3
<1>2. CASE Shop
  <2>1. job' = job
    BY <1>2 DEF Shop, Produce, Correct, TakeBack, VerifyEntry, VerifyHour, CacheExpires, ClearAll
  <2>2. shifted' = shifted \/ shifted' = [s \in Sources |-> 0]
    BY <1>2 DEF Shop, Produce, Correct, TakeBack, VerifyEntry, VerifyHour, CacheExpires, ClearAll, table
  <2>3. shifted' \in [Sources -> Nat] /\ \A s \in Sources : shifted'[s] = shifted[s] \/ shifted'[s] = 0
    BY <2>2 DEF Typed
  <2> QED
    BY <1>1, <2>1, <2>3
<1>3. ASSUME NEW h \in Handlers, NEW s \in Sources, NEW n \in Amounts, Ask(h, s, n) PROVE ScanInv'
  <2> DEFINE j == [step |-> "pool", from |-> s, qty |-> n, free |-> FALSE]
  <2>1. j \in Jobs /\ j.step = "pool"
    BY DEF Jobs
  <2>2. job' = [job EXCEPT ![h] = j] /\ shifted' = shifted
    BY <1>3 DEF Ask, table
  <2> HIDE DEF j
  <2> QED
    BY <2>1, <2>2, Outside
<1>4. ASSUME NEW h \in Handlers, Connect(h) PROVE ScanInv'
  <2> DEFINE j == [job[h] EXCEPT !.step = "lock"]
  <2>1. job[h] \in Jobs /\ job' = [job EXCEPT ![h] = j] /\ shifted' = shifted
    BY <1>4 DEF Connect, Does, table, Typed
  <2>2. j \in Jobs /\ j.step = "lock"
    BY <2>1 DEF Jobs
  <2> HIDE DEF j
  <2> QED
    BY <2>1, <2>2, Outside
<1>5. ASSUME NEW h \in Handlers, TimeOut(h) PROVE ScanInv'
  <2>1. job' = [job EXCEPT ![h] = Idle] /\ shifted' = shifted
    BY <1>5 DEF TimeOut, Ends, table
  <2> QED
    BY <2>1, IdleType, Outside
<1>6. CASE UNCHANGED vars
  <2>1. job' = job /\ shifted' = shifted
    BY <1>6 DEF vars, table
  <2> QED
    BY <1>1, <2>1 DEF Typed
<1> QED
  BY <1>2, <1>3, <1>4, <1>5, <1>6, LockTaken, Checked, Saved DEF Next, Serve

\* No label is shifted twice, or for more than it stands for, however many
\* scanners read it at once.
THEOREM LabelsShiftOnce == Spec => []LabelOnce
<1>1. Init => ScanInv
  BY ScanInit
<1>2. ScanInv /\ [Next]_vars => ScanInv'
  BY ScanNext
<1>3. ScanInv => LabelOnce
  BY DEF ScanInv
<1> QED
  BY <1>1, <1>2, <1>3, PTL DEF Spec

-----------------------------------------------------------------------------
(* Manual shifts.                                                          *)

LEMMA MaxOfTwo ==
  ASSUME NEW a \in Int, NEW b \in Int
  PROVE  /\ Max({a, b}) \in {a, b} /\ Max({a, b}) >= a /\ Max({a, b}) >= b
<1>1. \E x \in {a, b} : \A y \in {a, b} : x >= y
  <2>1. CASE a >= b
    BY <2>1
  <2>2. CASE b >= a
    BY <2>2
  <2> QED
    BY <2>1, <2>2
<1>2. Max({a, b}) \in {a, b} /\ \A y \in {a, b} : Max({a, b}) >= y
  BY <1>1, Zenon DEF Max
<1> QED
  BY <1>2

\* The quantities that DPR counts, and what they were at most.
Counted ==
  /\ good \in [Rows -> Nat] /\ made \in Nat /\ verified \in Nat
  /\ Produced <= made /\ Verified <= verified

\* What the check of a manual shift found is so until its row is saved.
ManualHolds ==
  \A h \in Handlers :
    job[h].step = "save" /\ job[h].from = Manual => shifted[Manual] + job[h].qty <= made

ManualInv == ScanInv /\ Counted /\ ManualHolds /\ ManualWithinProduced

\* Sums over DPR entries are numbers.
LEMMA CountsNat ==
  ASSUME good \in [Rows -> Nat]
  PROVE  Produced \in Nat /\ Verified \in Nat
<1>1. IsFiniteSet(Rows) /\ IsFiniteSet({i \in Rows : Counts(i)})
  BY ShiftingConstants, FS_Subset
<1>2. Sum(good, Rows) \in Nat
  BY <1>1, SumNat
<1>3. Sum(good, {i \in Rows : Counts(i)}) \in Nat
  BY <1>1, SumNat
<1> QED
  BY <1>2, <1>3 DEF Produced, Verified

LEMMA SourcesFinite == IsFiniteSet(Sources)
<1>1. IsFiniteSet(Labels \cup {Manual})
  BY ShiftingConstants, FS_AddElement
<1> QED
  BY <1>1 DEF Sources

\* So is what was shifted, and each source is part of it.
LEMMA ShiftedNat ==
  ASSUME Typed
  PROVE  Shifted \in Nat /\ \A s \in Sources : shifted[s] <= Shifted
<1>1. \A s \in Sources : shifted[s] \in Nat
  BY DEF Typed
<1> QED
  BY <1>1, SourcesFinite, SumNat DEF Shifted

LEMMA CountedInit == Init => Counted
<1> SUFFICES ASSUME Init PROVE Counted
  OBVIOUS
<1>1. good \in [Rows -> Nat] /\ \A i \in Rows : good[i] \in Nat /\ good[i] <= 0
  BY DEF Init
<1>2. IsFiniteSet(Rows) /\ IsFiniteSet({i \in Rows : Counts(i)})
  BY ShiftingConstants, FS_Subset
<1>3. Sum(good, Rows) <= Cardinality(Rows) * 0
  BY <1>1, <1>2, SumBounded
<1>4. Sum(good, {i \in Rows : Counts(i)}) <= Cardinality({i \in Rows : Counts(i)}) * 0
  BY <1>1, <1>2, SumBounded
<1>5. Cardinality(Rows) * 0 = 0 /\ Cardinality({i \in Rows : Counts(i)}) * 0 = 0
  BY <1>2, FS_CardinalityType
<1> QED
  BY <1>1, <1>3, <1>4, <1>5 DEF Counted, Produced, Verified, Init

\* The histories keep up with the counts.
LEMMA CountedNext ==
  ASSUME Counted, [Next]_vars
  PROVE  Counted' /\ made' >= made /\ verified' >= verified
<1>1. good' \in [Rows -> Nat]
  <2>1. \/ good' = good
        \/ \E i \in Rows, g \in Goods \cup {0} : good' = [good EXCEPT ![i] = g]
    BY DEF Next, vars, table, Shop, Produce, Correct, TakeBack, VerifyEntry, VerifyHour, CacheExpires, ClearAll,
           Serve, Connect, Lock, TimeOut, Save, Check, Ask
  <2> QED
    BY <2>1, ShiftingConstants DEF Counted
<1>2. Produced' \in Nat /\ Verified' \in Nat
  <2>1. Sum(good', Rows) \in Nat
    BY <1>1, ShiftingConstants, SumNat
  <2>2. IsFiniteSet({i \in Rows : Counts(i)'})
    BY ShiftingConstants, FS_Subset
  <2>3. Sum(good', {i \in Rows : Counts(i)'}) \in Nat
    BY <1>1, <2>2, SumNat
  <2> QED
    BY <2>1, <2>3 DEF Produced, Verified
<1>3. CASE History
  <2>1. made \in Nat /\ verified \in Nat
    BY DEF Counted
  <2>2. made' = Max({made, Produced'}) /\ verified' = Max({verified, Verified'})
    BY <1>3 DEF History
  <2>3. made' \in Nat /\ made' >= made /\ Produced' <= made'
    <3> HIDE DEF Produced
    <3>1. \A p \in Nat : Max({made, p}) \in {made, p} /\ Max({made, p}) >= made /\ Max({made, p}) >= p
      BY <2>1, MaxOfTwo
    <3> QED
      BY <1>2, <2>1, <2>2, <3>1
  <2>4. verified' \in Nat /\ verified' >= verified /\ Verified' <= verified'
    <3>1. \A p \in Nat : Max({verified, p}) \in {verified, p} /\ Max({verified, p}) >= verified /\ Max({verified, p}) >= p
      BY <2>1, MaxOfTwo
    <3> QED
      BY <1>2, <2>1, <2>2, <3>1
  <2> QED
    BY <1>1, <2>3, <2>4 DEF Counted
<1>4. CASE UNCHANGED vars
  <2>1. UNCHANGED <<good, verdict, hourly, made, verified>>
    BY <1>4 DEF vars, table
  <2>2. Produced' = Produced /\ Verified' = Verified
    BY <2>1 DEF Produced, Verified, Counts
  <2> QED
    BY <2>1, <2>2 DEF Counted
<1> QED
  BY <1>3, <1>4 DEF Next

\* A handler's step that leaves the shifts alone and does not enter "save".
LEMMA ManualOutside ==
  ASSUME ManualInv, made' \in Nat, made' >= made, shifted' = shifted,
         \A h \in Handlers : job'[h].step = "save" => job'[h] = job[h]
  PROVE  ManualHolds' /\ ManualWithinProduced'
<1>1. made \in Nat /\ shifted[Manual] \in Nat /\ shifted[Manual] <= made
  BY DEF ManualInv, Counted, ManualWithinProduced, ScanInv, Typed, Sources
<1>2. ManualWithinProduced'
  BY <1>1 DEF ManualWithinProduced
<1>3. ASSUME NEW h \in Handlers, job'[h].step = "save", job'[h].from = Manual
      PROVE  shifted'[Manual] + job'[h].qty <= made'
  <2>1. job'[h] = job[h] /\ job[h] \in Jobs
    BY <1>3 DEF ManualInv, ScanInv, Typed
  <2>2. shifted[Manual] + job[h].qty <= made
    BY <1>3, <2>1 DEF ManualInv, ManualHolds
  <2>3. job[h].qty \in Nat
    BY <2>1, ShiftingConstants DEF Jobs
  <2> QED
    BY <1>1, <2>1, <2>2, <2>3
<1> QED
  BY <1>2, <1>3 DEF ManualHolds

\* The check of a manual shift adds up what is saved and what it takes.
LEMMA ManualChecked ==
  ASSUME ManualInv, made' \in Nat, made' >= made, NEW h \in Handlers, NEW onHold \in BOOLEAN, NEW answered \in BOOLEAN,
         Check(h, onHold, answered)
  PROVE  ManualHolds' /\ ManualWithinProduced'
<1>1. /\ shifted' = shifted /\ job[h] \in Jobs /\ job[h].qty \in Nat \ {0} /\ Typed
      /\ \A k \in Handlers : k # h => job'[k] = job[k]
  BY ShiftingConstants DEF Check, Ends, table, ManualInv, ScanInv, Typed, Jobs
<1>2. CASE Ends(h)
  <2>1. job'[h].step = "idle"
    BY <1>1, <1>2, IdleType DEF Ends, Typed
  <2> QED
    BY <1>1, <2>1, ManualOutside
<1>3. CASE /\ Allowed(job[h].from, job[h].qty, answered)
           /\ job' = [job EXCEPT ![h].step = "save", ![h].free = ~Enforced(answered)]
  <2>1. job'[h].from = job[h].from /\ job'[h].qty = job[h].qty
    BY <1>1, <1>3 DEF Typed, Jobs
  <2>2. ASSUME job[h].from = Manual PROVE shifted[Manual] + job[h].qty <= made
    <3>1. Produced \in Int /\ Shifted \in Int /\ shifted[Manual] <= Shifted /\ shifted[Manual] \in Nat
      BY <1>1, CountsNat, ShiftedNat DEF ManualInv, Counted, Typed, Sources
    <3>2. job[h].qty <= Max({Produced - Shifted, 0})
      BY <1>3, <2>2, ShiftingConstants DEF Allowed, FitsSource
    <3>3. job[h].qty <= Produced - Shifted
      BY <1>1, <3>1, <3>2, MaxWithZero
    <3>4. Produced <= made /\ made \in Nat
      BY DEF ManualInv, Counted
    <3> QED
      BY <1>1, <3>1, <3>3, <3>4
  <2>3. made \in Nat /\ shifted[Manual] \in Nat /\ shifted[Manual] <= made
    BY DEF ManualInv, Counted, ManualWithinProduced, ScanInv, Typed, Sources
  <2>4. ASSUME NEW k \in Handlers, job'[k].step = "save", job'[k].from = Manual
        PROVE  shifted[Manual] + job'[k].qty <= made
    <3>1. CASE k = h
      BY <2>1, <2>2, <2>4, <3>1
    <3>2. CASE k # h
      BY <1>1, <2>4, <3>2 DEF ManualInv, ManualHolds
    <3> QED
      BY <3>1, <3>2
  <2>5. \A k \in Handlers : job'[k].qty \in Nat
    BY <1>1, <2>1, ShiftingConstants DEF Typed, Jobs
  <2>6. ManualHolds'
    BY <1>1, <2>3, <2>4, <2>5 DEF ManualHolds
  <2> QED
    BY <1>1, <2>3, <2>6 DEF ManualWithinProduced
<1> QED
  BY <1>2, <1>3 DEF Check

\* No other manual shift is saved between the check and the save.
LEMMA ManualSaved ==
  ASSUME ManualInv, made' \in Nat, made' >= made, NEW h \in Handlers, Save(h)
  PROVE  ManualHolds' /\ ManualWithinProduced'
<1> DEFINE s == job[h].from
           n == job[h].qty
<1>1. /\ job[h].step = "save" /\ s \in Sources /\ n \in Nat /\ Typed /\ made \in Nat
      /\ shifted' = [shifted EXCEPT ![s] = @ + n]
      /\ \A k \in Handlers : k # h => job'[k] = job[k]
  BY ShiftingConstants DEF Save, Ends, ManualInv, ScanInv, Counted, Typed, Jobs
<1>2. job'[h].step = "idle"
  BY <1>1, IdleType DEF Save, Ends, Typed
<1>3. \A k \in Handlers : k # h /\ Inside(k) => job[k].from # s
  BY <1>1 DEF ManualInv, ScanInv, OneInside, Inside
<1>4. s = Manual => shifted[Manual] + n <= made
  BY <1>1 DEF ManualInv, ManualHolds
<1>5. shifted[Manual] <= made /\ shifted[Manual] \in Nat /\ Manual \in Sources
  BY <1>1 DEF ManualInv, ManualWithinProduced, Typed, Sources
<1> HIDE DEF s, n
<1>6. shifted'[Manual] = IF s = Manual THEN shifted[Manual] + n ELSE shifted[Manual]
  BY <1>1, <1>5 DEF Typed
<1>7. ManualWithinProduced'
  BY <1>1, <1>4, <1>5, <1>6 DEF ManualWithinProduced
<1>8. ASSUME NEW k \in Handlers, job'[k].step = "save", job'[k].from = Manual
      PROVE  shifted'[Manual] + job'[k].qty <= made'
  <2>1. k # h /\ job'[k] = job[k]
    BY <1>1, <1>2, <1>8
  <2>2. s # Manual
    BY <1>3, <1>8, <2>1 DEF Inside
  <2>3. shifted[Manual] + job[k].qty <= made /\ job[k].qty \in Nat
    BY <1>1, <1>8, <2>1, ShiftingConstants DEF ManualInv, ManualHolds, Typed, Jobs
  <2> QED
    BY <1>1, <1>5, <1>6, <2>1, <2>2, <2>3
<1> QED
  BY <1>7, <1>8 DEF ManualHolds

\* A step that saves nothing and passes no check.
Aside ==
  /\ \A h \in Handlers : job'[h] = job[h] \/ (job'[h].step # "save" /\ job[h].step # "save")
  /\ UNCHANGED <<shifted, unchecked>>

\* Steps by what they do to shifts: most do nothing.
LEMMA Elsewhere ==
  ASSUME Typed, [Next]_vars
  PROVE  \/ Aside \/ ClearAll
         \/ \E h \in Handlers : Save(h) \/ \E onHold, answered \in BOOLEAN : Check(h, onHold, answered)
<1>1. CASE Shop
  BY <1>1 DEF Shop, Produce, Correct, TakeBack, VerifyEntry, VerifyHour, CacheExpires, table, Aside
<1>2. ASSUME NEW h \in Handlers, NEW s \in Sources, NEW n \in Amounts, Ask(h, s, n)
      PROVE  Aside
  BY <1>2 DEF Ask, table, Typed, Aside
<1>3. ASSUME NEW h \in Handlers, Connect(h) \/ Lock(h) \/ TimeOut(h)
      PROVE  Aside
  <2>1. CASE TimeOut(h)
    BY <2>1, IdleType DEF TimeOut, Ends, table, Typed, Aside
  <2>2. CASE Connect(h)
    BY <2>2 DEF Connect, Does, table, Typed, Jobs, Aside
  <2>3. CASE Lock(h)
    BY <2>3 DEF Lock, Does, table, Typed, Jobs, Aside
  <2> QED
    BY <1>3, <2>1, <2>2, <2>3
<1>4. CASE UNCHANGED vars
  BY <1>4 DEF vars, table, Aside
<1> QED
  BY <1>1, <1>2, <1>3, <1>4 DEF Next, Serve

LEMMA ManualNext == ManualInv /\ [Next]_vars => ManualInv'
<1> SUFFICES ASSUME ManualInv, [Next]_vars PROVE ManualInv'
  OBVIOUS
<1>1. ScanInv' /\ Typed
  BY ScanNext DEF ManualInv, ScanInv
<1>2. Counted' /\ made' >= made /\ made' \in Nat /\ made \in Nat
  BY CountedNext DEF ManualInv, Counted
<1>3. ASSUME Aside PROVE ManualHolds' /\ ManualWithinProduced'
  <2>1. shifted' = shifted /\ \A h \in Handlers : job'[h].step = "save" => job'[h] = job[h]
    BY <1>3 DEF Aside
  <2> QED
    BY <1>2, <2>1, ManualOutside
<1>4. ASSUME ClearAll PROVE ManualHolds' /\ ManualWithinProduced'
  <2>1. shifted'[Manual] = 0 /\ shifted[Manual] \in Nat /\ job' = job
    BY <1>1, <1>4 DEF ClearAll, Sources, Typed
  <2>2. ManualWithinProduced'
    BY <1>2, <2>1 DEF ManualWithinProduced
  <2>3. ASSUME NEW h \in Handlers, job[h].step = "save", job[h].from = Manual
        PROVE  0 + job[h].qty <= made'
    <3>1. shifted[Manual] + job[h].qty <= made /\ job[h].qty \in Nat
      BY <1>1, <2>3, ShiftingConstants DEF ManualInv, ManualHolds, Typed, Jobs
    <3> QED
      BY <1>2, <2>1, <3>1
  <2>4. \A h \in Handlers :
          job'[h].step = "save" /\ job'[h].from = Manual => shifted'[Manual] + job'[h].qty <= made'
    BY <2>1, <2>3
  <2> QED
    BY <2>2, <2>4 DEF ManualHolds
<1>5. ManualHolds' /\ ManualWithinProduced'
  <2>1. ASSUME NEW h \in Handlers, Save(h) PROVE ManualHolds' /\ ManualWithinProduced'
    BY <1>2, <2>1, ManualSaved
  <2>2. ASSUME NEW h \in Handlers, NEW onHold \in BOOLEAN, NEW answered \in BOOLEAN,
         Check(h, onHold, answered)
        PROVE  ManualHolds' /\ ManualWithinProduced'
    BY <1>2, <2>2, ManualChecked
  <2> QED
    BY <1>1, <1>3, <1>4, <2>1, <2>2, Elsewhere
<1> QED
  BY <1>1, <1>2, <1>5 DEF ManualInv

\* Shifts by hand, each checked under the lock of the job against all shifts
\* so far, never add up to more than DPR ever showed as produced, whatever
\* entries are corrected or deleted and whatever is scanned meanwhile.
THEOREM ManualShiftsProduced == Spec => []ManualWithinProduced
<1>1. Init => ManualInv
  <2> SUFFICES ASSUME Init PROVE ManualInv
    OBVIOUS
  <2>1. ScanInv /\ Counted
    BY ScanInit, CountedInit
  <2>2. ManualHolds
    BY IdleType DEF Init, ManualHolds
  <2>3. ManualWithinProduced
    BY DEF Init, ManualWithinProduced, Sources
  <2> QED
    BY <2>1, <2>2, <2>3 DEF ManualInv
<1>2. ManualInv /\ [Next]_vars => ManualInv'
  BY ManualNext
<1>3. ManualInv => ManualWithinProduced
  BY DEF ManualInv
<1> QED
  BY <1>1, <1>2, <1>3, PTL DEF Spec

-----------------------------------------------------------------------------
(* All shifts against what was verified.                                   *)

\* What handlers are about to save that was held against the verifications.
Pending == [h \in Handlers |-> IF job[h].step = "save" /\ ~job[h].free THEN job[h].qty ELSE 0]

Slack == (Cardinality(Handlers) - 1) * Max(Amounts)

\* A shift alone is within what is verified; what others that were checked
\* meanwhile add is at most the largest amount for each.
Bounded ==
  /\ \A h \in Handlers : Pending[h] <= verified
  /\ ~unchecked => Shifted + Sum(Pending, Handlers) <= verified + Slack

BoundInv == ScanInv /\ Counted /\ Bounded

\* The largest amount is a number, and no amount is larger.
LEMMA MostOfAmounts ==
  Max(Amounts) \in Nat /\ \A n \in Amounts : n \in Nat /\ n <= Max(Amounts)
<1>1. Amounts \in SUBSET Nat /\ IsFiniteSet(Amounts) /\ Amounts # {}
  BY ShiftingConstants
<1>2. Max(Amounts) \in Amounts /\ \A n \in Amounts : n <= Max(Amounts)
  BY <1>1, Largest
<1> QED
  BY <1>1, <1>2

\* All handlers but one shift a number of pieces.
LEMMA SlackNat == Slack \in Nat
BY MostOfAmounts, ShiftingConstants, TimesAllButOne DEF Slack

\* What one handler is about to save is an amount.
LEMMA PendingType ==
  ASSUME Typed
  PROVE  \A h \in Handlers : Pending[h] \in Nat /\ Pending[h] <= Max(Amounts)
BY MostOfAmounts DEF Typed, Jobs, Pending

\* All but one handler.
LEMMA OthersPend ==
  ASSUME NEW f, \A h \in Handlers : f[h] \in Nat /\ f[h] <= Max(Amounts),
         NEW y \in Handlers, f[y] = 0
  PROVE  Sum(f, Handlers) <= Slack /\ Sum(f, Handlers) \in Nat
<1>1. IsFiniteSet(Handlers) /\ Max(Amounts) \in Nat
  BY ShiftingConstants, MostOfAmounts
<1> QED
  BY <1>1, AllButOne DEF Slack

\* A step that neither checks nor saves nor clears.
LEMMA BoundAside ==
  ASSUME BoundInv, verified' \in Nat, verified' >= verified, Aside
  PROVE  Bounded'
<1>1. Pending' = Pending
  <2>1. ASSUME NEW h \in Handlers
        PROVE  (IF job'[h].step = "save" /\ ~job'[h].free THEN job'[h].qty ELSE 0)
             = (IF job[h].step = "save" /\ ~job[h].free THEN job[h].qty ELSE 0)
    BY DEF Aside
  <2> QED
    BY <2>1 DEF Pending
<1>2. Shifted' = Shifted /\ unchecked' = unchecked
  BY DEF Aside, Shifted
<1>3. Shifted \in Nat /\ Sum(Pending, Handlers) \in Nat /\ verified \in Nat /\ Slack \in Nat
  BY PendingType, ShiftedNat, SumNat, SlackNat, ShiftingConstants DEF BoundInv, ScanInv, Counted
<1>4. \A h \in Handlers : Pending[h] \in Nat
  BY PendingType DEF BoundInv, ScanInv
<1>5. Slack' = Slack
  BY DEF Slack
<1> HIDE DEF Pending, Slack
<1>6. \A h \in Handlers : Pending'[h] <= verified'
  BY <1>1, <1>3, <1>4 DEF BoundInv, Bounded
<1>7. ~unchecked' => Shifted' + Sum(Pending', Handlers) <= verified' + Slack
  BY <1>1, <1>2, <1>3 DEF BoundInv, Bounded
<1> QED
  BY <1>5, <1>6, <1>7 DEF Bounded

\* The facts of the state that the sums need.
LEMMA BoundFacts ==
  ASSUME BoundInv
  PROVE  /\ Shifted \in Nat /\ Sum(Pending, Handlers) \in Nat /\ verified \in Nat
         /\ Slack \in Nat /\ IsFiniteSet(Handlers)
         /\ \A h \in Handlers : Pending[h] \in Nat /\ Pending[h] <= Max(Amounts)
         /\ \A h \in Handlers : Pending[h] <= verified
         /\ ~unchecked => Shifted + Sum(Pending, Handlers) <= verified + Slack
BY PendingType, ShiftedNat, SumNat, SlackNat, ShiftingConstants DEF BoundInv, ScanInv, Bounded, Counted

\* A check adds an amount to what is pending; it has seen all that is saved, and
\* the others' pending amounts are within the slack.
LEMMA BoundChecked ==
  ASSUME BoundInv, verified' \in Nat, verified' >= verified,
         NEW h \in Handlers, NEW onHold \in BOOLEAN, NEW answered \in BOOLEAN,
         Check(h, onHold, answered)
  PROVE  Bounded'
<1>1. /\ job[h].step = "check" /\ job[h] \in Jobs /\ job[h].qty \in Nat \ {0} /\ Typed
      /\ shifted' = shifted /\ unchecked' = unchecked
      /\ \A k \in Handlers : k # h => job'[k] = job[k]
  BY ShiftingConstants DEF Check, Ends, table, BoundInv, ScanInv, Typed, Jobs
<1>2. CASE Ends(h)
  <2>1. job'[h].step = "idle"
    BY <1>1, <1>2, IdleType DEF Ends, Typed
  <2> QED
    BY <1>1, <2>1, BoundAside DEF Aside
<1>3. CASE /\ Allowed(job[h].from, job[h].qty, answered)
           /\ job' = [job EXCEPT ![h].step = "save", ![h].free = ~Enforced(answered)]
  <2>1. job'[h].step = "save" /\ job'[h].qty = job[h].qty /\ job'[h].free = (~Enforced(answered))
    BY <1>1, <1>3 DEF Typed, Jobs
  <2>2. Pending[h] = 0 /\ \A k \in Handlers : k # h => Pending'[k] = Pending[k]
    BY <1>1 DEF Pending
  <2>3. Pending'[h] = IF Enforced(answered) THEN job[h].qty ELSE 0
    BY <2>1 DEF Pending
  <2>4. \A k \in Handlers : Pending'[k] \in Nat
    BY <1>1, <2>2, <2>3, BoundFacts
  <2>5. Shifted' = Shifted /\ Slack' = Slack
    BY <1>1 DEF Shifted, Slack
  <2>6. Sum(Pending, Handlers) <= Slack
    BY <2>2, BoundFacts, OthersPend
  <2>7. Sum(Pending', Handlers) = Sum(Pending, Handlers) + (Pending'[h] - Pending[h])
    <3>1. \A k \in Handlers : Pending[k] \in Int /\ Pending'[k] \in Int
      BY <2>4, BoundFacts
    <3> HIDE DEF Pending
    <3> QED
      BY <2>2, <3>1, BoundFacts, SumChange
  <2>8. Enforced(answered) => job[h].qty <= verified - Shifted
    <3> SUFFICES ASSUME Enforced(answered) PROVE job[h].qty <= verified - Shifted
      OBVIOUS
    <3>1. Verified \in Nat /\ Verified <= verified
      BY CountsNat DEF BoundInv, Counted
    <3>2. job[h].qty <= Max({Verified - Shifted, 0})
      BY <1>3 DEF Allowed, Ready
    <3>3. job[h].qty <= Verified - Shifted
      BY <1>1, <3>1, <3>2, BoundFacts, MaxWithZero
    <3> QED
      BY <1>1, <3>1, <3>3, BoundFacts
  <2> HIDE DEF Pending, Slack
  <2>9. \A k \in Handlers : Pending'[k] <= verified'
    <3>1. Pending'[h] <= verified
      BY <1>1, <2>3, <2>8, BoundFacts
    <3>2. \A k \in Handlers : Pending'[k] <= verified
      BY <2>2, <3>1, BoundFacts
    <3> QED
      BY <2>4, <3>2, BoundFacts
  <2>10. ~unchecked' => Shifted' + Sum(Pending', Handlers) <= verified' + Slack
    <3>1. CASE Enforced(answered)
      BY <1>1, <2>2, <2>3, <2>5, <2>6, <2>7, <2>8, <3>1, BoundFacts
    <3>2. CASE ~Enforced(answered)
      <4>1. Sum(Pending', Handlers) = Sum(Pending, Handlers)
        BY <2>2, <2>3, <2>7, <3>2, BoundFacts
      <4> QED
        BY <1>1, <2>5, <4>1, BoundFacts
    <3> QED
      BY <3>1, <3>2
  <2> QED
    BY <2>5, <2>9, <2>10 DEF Bounded
<1> QED
  BY <1>2, <1>3 DEF Check

\* A save turns a pending amount into a shifted one.
LEMMA BoundSaved ==
  ASSUME BoundInv, verified' \in Nat, verified' >= verified, NEW h \in Handlers, Save(h)
  PROVE  Bounded'
<1> DEFINE s == job[h].from
           n == job[h].qty
<1>1. /\ job[h].step = "save" /\ s \in Sources /\ n \in Nat /\ Typed
      /\ shifted' = [shifted EXCEPT ![s] = @ + n]
      /\ unchecked' = (unchecked \/ job[h].free)
      /\ \A k \in Handlers : k # h => job'[k] = job[k]
  BY ShiftingConstants DEF Save, Ends, BoundInv, ScanInv, Typed, Jobs
<1>2. job'[h].step = "idle"
  BY <1>1, IdleType DEF Save, Ends, Typed
<1>3. /\ Pending'[h] = 0
      /\ ~job[h].free => Pending[h] = n
      /\ \A k \in Handlers : k # h => Pending'[k] = Pending[k]
  BY <1>1, <1>2 DEF Pending
<1> HIDE DEF s, n
<1>4. Shifted' = Shifted + n
  <2>1. /\ shifted'[s] = shifted[s] + n /\ \A q \in Sources : q # s => shifted'[q] = shifted[q]
        /\ \A q \in Sources : shifted[q] \in Int /\ shifted'[q] \in Int
    BY <1>1 DEF Typed
  <2>2. Sum(shifted', Sources) = Sum(shifted, Sources) + (shifted'[s] - shifted[s])
    <3>1. s \in Sources
      BY <1>1
    <3> QED
      BY <2>1, <3>1, SourcesFinite, SumChange
  <2>3. Sum(shifted, Sources) \in Nat
    BY BoundFacts DEF Shifted
  <2> QED
    BY <1>1, <2>1, <2>2, <2>3 DEF Shifted
<1>5. Sum(Pending', Handlers) = Sum(Pending, Handlers) + (Pending'[h] - Pending[h])
  <2>1. \A k \in Handlers : Pending[k] \in Int /\ Pending'[k] \in Int
    BY <1>1, <1>3, BoundFacts
  <2> HIDE DEF Pending
  <2> QED
    BY <1>3, <2>1, BoundFacts, SumChange
<1>6. Slack' = Slack
  BY DEF Slack
<1> HIDE DEF Pending, Slack
<1>7. ASSUME NEW k \in Handlers PROVE Pending'[k] <= verified'
  <2>1. Pending[k] \in Nat /\ Pending[k] <= verified /\ verified \in Nat
    BY BoundFacts
  <2>2. Pending'[k] = Pending[k] \/ Pending'[k] = 0
    BY <1>3
  <2> QED
    BY <2>1, <2>2
<1>8. ~unchecked' => Shifted' + Sum(Pending', Handlers) <= verified' + Slack
  <2> SUFFICES ASSUME ~unchecked' PROVE Shifted' + Sum(Pending', Handlers) <= verified' + Slack
    OBVIOUS
  <2>1. ~unchecked /\ Pending[h] = n
    BY <1>1, <1>3
  <2>2. Shifted + Sum(Pending, Handlers) <= verified + Slack
    BY <2>1, BoundFacts
  <2>3. Shifted \in Nat /\ Sum(Pending, Handlers) \in Nat /\ verified \in Nat /\ Slack \in Nat /\ n \in Nat
    BY <1>1, BoundFacts
  <2>4. Sum(Pending', Handlers) = Sum(Pending, Handlers) - n
    BY <1>3, <1>5, <2>1, <2>3
  <2> QED
    BY <1>4, <2>2, <2>3, <2>4
<1> QED
  BY <1>6, <1>7, <1>8 DEF Bounded

\* Clearing everything leaves what is pending.
LEMMA BoundCleared ==
  ASSUME BoundInv, verified' \in Nat, verified' >= verified, ClearAll
  PROVE  Bounded'
<1>1. shifted' = [s \in Sources |-> 0] /\ job' = job
  BY DEF ClearAll
<1>2. Pending' = Pending /\ Slack' = Slack
  BY <1>1 DEF Pending, Slack
<1>3. Shifted' = 0
  <2>1. Sum(shifted', Sources) <= Cardinality(Sources) * 0 /\ Sum(shifted', Sources) \in Nat
    <3>1. \A s \in Sources : shifted'[s] \in Nat /\ shifted'[s] <= 0
      BY <1>1
    <3> QED
      BY <3>1, SourcesFinite, SumNat, SumBounded
  <2>2. Cardinality(Sources) * 0 = 0
    BY SourcesFinite, FS_CardinalityType
  <2> QED
    BY <2>1, <2>2 DEF Shifted
<1>4. Sum(Pending, Handlers) <= Slack + verified
  <2>1. PICK h \in Handlers : TRUE
    BY ShiftingConstants
  <2> DEFINE f == [k \in Handlers |-> IF k = h THEN 0 ELSE Pending[k]]
  <2>2. /\ f[h] = 0 /\ \A k \in Handlers : k # h => Pending[k] = f[k]
        /\ \A k \in Handlers : f[k] \in Nat /\ f[k] <= Max(Amounts)
    BY BoundFacts, MostOfAmounts
  <2> HIDE DEF f, Pending
  <2>3. Sum(f, Handlers) <= Slack /\ Sum(f, Handlers) \in Nat
    BY <2>2, OthersPend
  <2>4. Sum(Pending, Handlers) = Sum(f, Handlers) + (Pending[h] - f[h])
    <3>1. \A k \in Handlers : f[k] \in Int /\ Pending[k] \in Int
      BY <2>2, BoundFacts
    <3> QED
      BY <2>2, <3>1, BoundFacts, SumChange
  <2> HIDE DEF Slack
  <2> QED
    BY <2>2, <2>3, <2>4, BoundFacts
<1> HIDE DEF Pending, Slack
<1>5. \A k \in Handlers : Pending'[k] <= verified'
  BY <1>2, BoundFacts
<1>6. Shifted' + Sum(Pending', Handlers) <= verified' + Slack
  BY <1>2, <1>3, <1>4, BoundFacts
<1> QED
  BY <1>2, <1>5, <1>6 DEF Bounded

LEMMA BoundInit == Init => BoundInv
<1> SUFFICES ASSUME Init PROVE BoundInv
  OBVIOUS
<1>1. ScanInv /\ Counted
  BY ScanInit, CountedInit
<1>2. \A h \in Handlers : Pending[h] = 0
  BY IdleType DEF Init, Pending
<1>3. Shifted = 0
  <2>1. Sum(shifted, Sources) <= Cardinality(Sources) * 0 /\ Sum(shifted, Sources) \in Nat
    <3>1. \A s \in Sources : shifted[s] \in Nat /\ shifted[s] <= 0
      BY DEF Init
    <3> QED
      BY <3>1, SourcesFinite, SumNat, SumBounded
  <2>2. Cardinality(Sources) * 0 = 0
    BY SourcesFinite, FS_CardinalityType
  <2> QED
    BY <2>1, <2>2 DEF Shifted
<1>4. Sum(Pending, Handlers) <= Slack /\ Sum(Pending, Handlers) \in Nat
  <2>1. PICK h \in Handlers : TRUE
    BY ShiftingConstants
  <2> QED
    BY <1>2, MostOfAmounts, OthersPend
<1>5. verified = 0 /\ Slack \in Nat
  BY SlackNat DEF Init
<1> HIDE DEF Pending, Slack
<1> QED
  BY <1>1, <1>2, <1>3, <1>4, <1>5 DEF BoundInv, Bounded

LEMMA BoundNext == BoundInv /\ [Next]_vars => Bounded'
<1> SUFFICES ASSUME BoundInv, [Next]_vars PROVE Bounded'
  OBVIOUS
<1>1. Typed
  BY DEF BoundInv, ScanInv
<1>2. verified' \in Nat /\ verified' >= verified
  BY CountedNext DEF BoundInv, Counted
<1>3. Typed'
  BY ScanNext DEF BoundInv, ScanInv
<1>4. ASSUME Aside PROVE Bounded'
  BY <1>2, <1>4, BoundAside
<1>5. ASSUME ClearAll PROVE Bounded'
  BY <1>2, <1>3, <1>5, BoundCleared
<1>6. ASSUME NEW h \in Handlers, Save(h) PROVE Bounded'
  BY <1>2, <1>3, <1>6, BoundSaved
<1>7. ASSUME NEW h \in Handlers, NEW onHold \in BOOLEAN, NEW answered \in BOOLEAN,
         Check(h, onHold, answered) PROVE Bounded'
  BY <1>2, <1>3, <1>7, BoundChecked
<1> QED
  BY <1>1, <1>4, <1>5, <1>6, <1>7, Elsewhere

\* While verification is enforced, all shifts together exceed what was ever
\* verified by no more than the largest amount for each handler but one: the
\* locks are one to a label, and each check reads before the others save.
THEOREM ShiftsBounded == Spec => []ShiftBounded
<1>1. Init => BoundInv
  BY BoundInit
<1>2. BoundInv /\ [Next]_vars => BoundInv'
  <2> SUFFICES ASSUME BoundInv, [Next]_vars PROVE BoundInv'
    OBVIOUS
  <2>1. ScanInv' /\ Counted'
    BY ScanNext, CountedNext DEF BoundInv
  <2>2. Bounded'
    BY BoundNext
  <2> QED
    BY <2>1, <2>2 DEF BoundInv
<1>3. BoundInv => ShiftBounded
  <2> SUFFICES ASSUME BoundInv, ~unchecked PROVE Shifted <= verified + Slack
    BY DEF ShiftBounded, Slack
  <2> QED
    BY BoundFacts
<1> QED
  BY <1>1, <1>2, <1>3, PTL DEF Spec

-----------------------------------------------------------------------------
(* Rows that are left after a deletion keep their order.                   *)

\* The ranks of the elements of a set are 1 to their number, in their order.
LEMMA Ranks ==
  ASSUME NEW n \in Nat, NEW left \in SUBSET (1..n)
  PROVE  /\ Cardinality(left) \in 0..n
         /\ \A i \in Int : Rank(left, i) \in 0..Cardinality(left)
         /\ \A i, j \in Int : i <= j => Rank(left, i) <= Rank(left, j)
         /\ \A i \in Int, j \in left : i < j => Rank(left, i) < Rank(left, j)
         /\ \A i \in 1..Cardinality(left) : Nth(left, i) \in left /\ Rank(left, Nth(left, i)) = i
<1> DEFINE Upto(i) == {j \in left : j <= i}
           c == Cardinality(left)
<1>1. IsFiniteSet(left) /\ c \in Nat /\ c <= n
  <2>1. IsFiniteSet(1..n) /\ Cardinality(1..n) = n
    BY FS_Interval
  <2> QED
    BY <2>1, FS_Subset, FS_CardinalityType
<1>2. ASSUME NEW i \in Int
      PROVE  IsFiniteSet(Upto(i)) /\ Rank(left, i) = Cardinality(Upto(i)) /\ Rank(left, i) \in 0..c
  <2>1. Upto(i) \in SUBSET left
    OBVIOUS
  <2>2. IsFiniteSet(Upto(i)) /\ Cardinality(Upto(i)) \in Nat /\ Cardinality(Upto(i)) <= c
    BY <1>1, <2>1, FS_Subset, FS_CardinalityType
  <2> QED
    BY <1>1, <2>2 DEF Rank
<1>0. (\A j \in left : j \in Int) /\ \A i \in Int : Rank(left, i) \in Int
  <2>1. \A i \in Int : Rank(left, i) \in 0..c
    BY <1>2
  <2> HIDE DEF Upto
  <2> QED
    BY <1>1, <2>1
<1>3. ASSUME NEW i \in Int, NEW j \in Int, i <= j
      PROVE  /\ Rank(left, i) <= Rank(left, j)
             /\ j \in left /\ i < j => Rank(left, i) < Rank(left, j)
  <2>1. Upto(i) \in SUBSET Upto(j)
    <3> SUFFICES ASSUME NEW k \in left, k <= i PROVE k <= j
      OBVIOUS
    <3> QED
      BY <1>0, <1>3
  <2>2. j \in left /\ i < j => Upto(i) # Upto(j)
    <3>1. j \in left /\ i < j => j \in Upto(j) /\ j \notin Upto(i)
      OBVIOUS
    <3> QED
      BY <3>1
  <2> DEFINE a == Upto(i)
             b == Upto(j)
  <2>3. IsFiniteSet(b) /\ Rank(left, i) = Cardinality(a) /\ Rank(left, j) = Cardinality(b)
    BY <1>2
  <2>4. a \in SUBSET b /\ (j \in left /\ i < j => a # b)
    BY <2>1, <2>2
  <2>5. Rank(left, i) \in Int /\ Rank(left, j) \in Int
    BY <1>0
  <2> HIDE DEF a, b
  <2>6. Cardinality(a) <= Cardinality(b) /\ (Cardinality(a) = Cardinality(b) => a = b)
    BY <2>3, <2>4, FS_Subset
  <2> QED
    BY <2>3, <2>4, <2>5, <2>6
<1>4. ASSUME NEW k \in left PROVE Rank(left, k) \in 1..c
  <2>1. k - 1 \in Int /\ k \in Int /\ k - 1 < k /\ k - 1 <= k
    BY <1>0
  <2>2. Rank(left, k - 1) < Rank(left, k)
    BY <1>3, <2>1
  <2>3. Rank(left, k - 1) \in 0..c /\ Rank(left, k) \in 0..c
    BY <1>2, <2>1
  <2> QED
    BY <1>1, <2>2, <2>3
<1>5. ASSUME NEW i \in 1..c PROVE \E k \in left : Rank(left, k) = i
  <2> DEFINE f == [k \in left |-> Rank(left, k)]
  <2>1. f \in [left -> 1..c]
    BY <1>4
  <2>2. ASSUME NEW a \in left, NEW b \in left, f[a] = f[b] PROVE a = b
    <3>1. a \in Int /\ b \in Int
      BY <1>0
    <3>2. a < b \/ b < a \/ a = b
      BY <3>1
    <3>3. Rank(left, a) = Rank(left, b) /\ Rank(left, a) \in Int
      BY <1>1, <1>4, <2>2
    <3>4. CASE a < b
      BY <1>3, <3>1, <3>3, <3>4
    <3>5. CASE b < a
      BY <1>3, <3>1, <3>3, <3>5
    <3> QED
      BY <3>2, <3>4, <3>5
  <2>3. f \in Injection(left, 1..c)
    BY <2>1, <2>2 DEF Injection, IsInjective
  <2>4. IsFiniteSet(1..c) /\ Cardinality(1..c) = c
    BY <1>1, FS_Interval
  <2>5. f \in Surjection(left, 1..c)
    BY <2>3, <2>4, FS_Injection
  <2> QED
    BY <2>5 DEF Surjection
<1>6. ASSUME NEW i \in 1..c PROVE Nth(left, i) \in left /\ Rank(left, Nth(left, i)) = i
  BY <1>5 DEF Nth
<1>7. ASSUME NEW i \in Int, NEW j \in left, i < j PROVE Rank(left, i) < Rank(left, j)
  BY <1>0, <1>3, <1>7
<1> HIDE DEF Upto
<1> QED
  BY <1>1, <1>2, <1>3, <1>6, <1>7

\* The rows of dpr_hourly.
Written == [entry : Stored, auto : BOOLEAN, edited : BOOLEAN, off : SUBSET Guards]

\* What the failures leave.
FailuresTyped == failures \in 0..MaxFailures /\ unreplaced \subseteq Slots

DprSteps == {"idle", "last", "gap", "fill", "twin", "insert", "replace", "grant"}

\* The rows that a deletion leaves: where they were, in the same order, and
\* none of the last two minutes that was older before.
LEMMA Deleted ==
  ASSUME rows \in Seq(Written), old \in 0..Len(rows), NEW ids, SoftDelete(ids)
  PROVE  /\ rows' \in Seq(Written) /\ Len(rows') <= Len(rows) /\ old' \in 0..Len(rows')
         /\ \E at \in [DOMAIN rows' -> DOMAIN rows \ ids] :
              /\ \A n \in DOMAIN rows' : rows'[n] = rows[at[n]] /\ (n > old' => at[n] > old)
              /\ \A m, n \in DOMAIN rows' : m < n => at[m] < at[n]
<1> DEFINE left == DOMAIN rows \ ids
           c    == Cardinality(left)
           at   == [n \in 1..c |-> Nth(left, n)]
<1>1. DOMAIN rows = 1..Len(rows) /\ Len(rows) \in Nat /\ old \in Int
      /\ \A i \in DOMAIN rows : rows[i] \in Written
  OBVIOUS
<1>2. rows' = [n \in 1..c |-> rows[Nth(left, n)]] /\ old' = Rank(left, old)
  BY DEF SoftDelete
<1>3. left \in SUBSET (1..Len(rows)) /\ left = DOMAIN rows \ ids /\ left \in SUBSET Int
  BY <1>1
<1> HIDE DEF left
<1>4. /\ c \in 0..Len(rows)
      /\ \A i \in Int : Rank(left, i) \in 0..c
      /\ \A i, j \in Int : i <= j => Rank(left, i) <= Rank(left, j)
      /\ \A i \in 1..c : Nth(left, i) \in left /\ Rank(left, Nth(left, i)) = i
  BY <1>1, <1>3, Ranks
<1> HIDE DEF c
<1>5. \A n \in 1..c : rows[Nth(left, n)] \in Written
  BY <1>1, <1>3, <1>4
<1>6. c \in Nat /\ rows' \in Seq(Written) /\ Len(rows') = c /\ DOMAIN rows' = 1..c
  <2>1. c \in Nat
    BY <1>4
  <2> QED
    BY <1>2, <1>5, <2>1
<1>7. at \in [DOMAIN rows' -> DOMAIN rows \ ids]
  BY <1>3, <1>4, <1>6
<1>8. ASSUME NEW n \in 1..c PROVE rows'[n] = rows[at[n]] /\ (n > old' => at[n] > old)
  <2>1. at[n] \in Int /\ Rank(left, at[n]) = n /\ Rank(left, old) \in Int
    <3>1. at[n] = Nth(left, n) /\ Nth(left, n) \in left /\ Rank(left, Nth(left, n)) = n
      BY <1>4
    <3>2. Rank(left, old) \in 0..c /\ c \in 0..Len(rows)
      BY <1>1, <1>4
    <3> QED
      BY <1>1, <1>3, <3>1, <3>2
  <2>2. at[n] <= old => n <= old'
    BY <1>1, <1>2, <1>4, <2>1
  <2>3. rows'[n] = rows[at[n]]
    BY <1>2
  <2> HIDE DEF at
  <2> QED
    BY <1>1, <1>2, <2>1, <2>2, <2>3
<1>9. ASSUME NEW m \in 1..c, NEW n \in 1..c, m < n PROVE at[m] < at[n]
  <2>1. at[m] \in Int /\ at[n] \in Int /\ Rank(left, at[m]) = m /\ Rank(left, at[n]) = n
    BY <1>3, <1>4
  <2>2. at[n] <= at[m] => n <= m
    BY <1>4, <2>1
  <2> HIDE DEF at
  <2> QED
    BY <1>9, <2>1, <2>2
<1>10. old' \in 0..Len(rows') /\ Len(rows') <= Len(rows)
  BY <1>1, <1>2, <1>4, <1>6
<1> HIDE DEF at
<1> QED
  BY <1>6, <1>7, <1>8, <1>9, <1>10

-----------------------------------------------------------------------------
(* Types.                                                                  *)

\* A slot is filled only while there is one, and a grant is an extra quantity.
ReqSound ==
  \A h \in Requests : /\ req[h].step = "fill" => req[h].gaps # {}
                      /\ req[h].step = "grant" => req[h].extra \in Extras

Granting == {k \in Requests : req[k].step = "grant"}

EntryInv ==
  /\ DprTypeOK
  /\ ReqSound
  /\ Len(grants) + Cardinality(Granting) <= MaxGrants

\* A set of numbers has a smallest one.
LEMMA SmallestOf ==
  ASSUME NEW S \in SUBSET Nat, S # {}
  PROVE  Min(S) \in S /\ \A n \in S : Min(S) <= n
<1>1. PICK m \in S : \A n \in S : <<n, m>> \notin OpToRel(<, Nat)
  BY NatLessThanWellFounded, WFMin
<1>2. \A n \in S : m <= n
  <2> SUFFICES ASSUME NEW n \in S, n < m PROVE FALSE
    OBVIOUS
  <2>1. <<n, m>> \in OpToRel(<, Nat)
    BY DEF OpToRel
  <2> QED
    BY <1>1, <2>1
<1> QED
  BY <1>1, <1>2 DEF Min

\* What a request that does nothing holds.
LEMMA NoRequestType == NoRequest \in Held /\ NoRequest.step = "idle"
BY DprConstants DEF NoRequest, NoEntry, Held

\* A request that goes on keeps what it holds, and the others keep theirs.
LEMMA RequestGoesOn ==
  ASSUME req \in [Requests -> Held], NEW h \in Requests, NEW step \in DprSteps, GoesOn(h, step)
  PROVE  /\ req' \in [Requests -> Held]
         /\ req'[h].step = step /\ req'[h].entry = req[h].entry
         /\ req'[h].gaps = req[h].gaps /\ req'[h].extra = req[h].extra
         /\ \A k \in Requests \ {h} : req'[k] = req[k]
BY DEF GoesOn, Held, DprSteps

\* A request that is answered holds nothing.
LEMMA RequestAnswered ==
  ASSUME req \in [Requests -> Held], NEW h \in Requests, Answers(h)
  PROVE  /\ req' \in [Requests -> Held]
         /\ req'[h].step = "idle"
         /\ \A k \in Requests \ {h} : req'[k] = req[k]
BY NoRequestType DEF Answers

\* A row that is added is the last one.
LEMMA RowAdded ==
  ASSUME rows \in Seq(Written), NEW r \in Written, rows' = Append(rows, r)
  PROVE  /\ rows' \in Seq(Written) /\ Len(rows') = Len(rows) + 1
         /\ DOMAIN rows = 1..Len(rows) /\ DOMAIN rows' = DOMAIN rows \cup {Len(rows) + 1}
         /\ Len(rows) + 1 \notin DOMAIN rows /\ Len(rows) \in Nat
         /\ rows'[Len(rows) + 1] = r /\ \A i \in DOMAIN rows : rows'[i] = rows[i]
OBVIOUS

\* One request goes on, without a grant.
LEMMA EntryKept ==
  ASSUME EntryInv, UNCHANGED <<grants, oldGrants>>,
         rows' \in Seq(Written), Len(rows') <= MaxRows, old' \in 0..Len(rows'),
         req' \in [Requests -> Held], NEW h \in Requests,
         \A k \in Requests \ {h} : req'[k] = req[k],
         req[h].step # "grant", req'[h].step # "grant",
         req'[h].step = "fill" => req'[h].gaps # {},
         FailuresTyped'
  PROVE  EntryInv'
<1>1. DprTypeOK'
  BY DEF EntryInv, DprTypeOK, Written, FailuresTyped
<1>2. ReqSound'
  BY DEF EntryInv, ReqSound
<1>3. Granting' = Granting
  BY DEF Granting
<1> QED
  BY <1>1, <1>2, <1>3 DEF EntryInv

\* The facts that the steps use.
LEMMA EntryFacts ==
  ASSUME EntryInv
  PROVE  /\ rows \in Seq(Written) /\ Len(rows) <= MaxRows /\ MaxRows \in Nat
         /\ old \in 0..Len(rows) /\ Len(rows) \in Nat
         /\ req \in [Requests -> Held]
         /\ grants \in Seq([extra : Extras, live : BOOLEAN])
         /\ Len(grants) <= MaxGrants /\ Len(grants) \in Nat /\ oldGrants \in 0..Len(grants)
         /\ IsFiniteSet(Granting) /\ Cardinality(Granting) \in Nat
         /\ failures \in 0..MaxFailures /\ unreplaced \in SUBSET Slots /\ MaxFailures \in Nat
         /\ FailuresTyped
<1>1. IsFiniteSet(Granting)
  BY DprConstants, FS_Subset DEF Granting
<1>2. Cardinality(Granting) \in Nat
  BY <1>1, FS_CardinalityType
<1> QED
  BY <1>1, <1>2, DprConstants DEF EntryInv, DprTypeOK, Written, FailuresTyped

\* A statement that answers or not keeps the number of failures within the bound.
LEMMA FailuresCounted ==
  ASSUME EntryInv, NEW answered \in BOOLEAN, FailsUnless(answered)
  PROVE  failures' \in 0..MaxFailures
BY EntryFacts DEF FailsUnless

\* With no row, no grant and no request, the types hold.
LEMMA EntryInit == DprInit => EntryInv
<1> SUFFICES ASSUME DprInit PROVE EntryInv
  OBVIOUS
<1>1. req \in [Requests -> Held] /\ \A h \in Requests : req[h].step = "idle"
  BY NoRequestType DEF DprInit
<1>2. Granting = {}
  BY <1>1 DEF Granting
<1>3. Cardinality(Granting) = 0
  BY <1>2, FS_EmptySet
<1>4. DprTypeOK
  BY <1>1, DprConstants DEF DprInit, DprTypeOK
<1>5. ReqSound
  BY <1>1 DEF ReqSound
<1> QED
  BY <1>3, <1>4, <1>5, DprConstants DEF DprInit, EntryInv

\* The slot that is looked at, or filled, is one of the gaps.
LEMMA NextGap ==
  ASSUME EntryInv, NEW h \in Requests, req[h].gaps # {}
  PROVE  Min(req[h].gaps) \in req[h].gaps /\ Min(req[h].gaps) \in Slots
<1>1. req[h].gaps \in SUBSET Slots
  BY EntryFacts DEF Held
<1>2. req[h].gaps \in SUBSET Nat
  BY <1>1, DprConstants
<1>3. Min(req[h].gaps) \in req[h].gaps
  BY <1>2, SmallestOf
<1> QED
  BY <1>1, <1>3

\* The row that FillGap adds.
LEMMA Placeholder ==
  ASSUME EntryInv, NEW h \in Requests, FillGap(h)
  PROVE  \E r \in Written :
           /\ rows' = Append(rows, r)
           /\ r.auto /\ ~r.edited /\ r.off = {} /\ r.entry.good = 0
           /\ req' = [req EXCEPT ![h].step = "gap", ![h].gaps = @ \ {r.entry.slot}]
<1> DEFINE s == Min(req[h].gaps)
           r == Row([slot |-> s, kind |-> "quick", good |-> 0], TRUE, {})
<1>1. s \in Slots
  BY NextGap DEF FillGap, EntryInv, ReqSound
<1>2. rows' = Append(rows, r) /\ req' = [req EXCEPT ![h].step = "gap", ![h].gaps = @ \ {s}]
  BY DEF FillGap
<1> HIDE DEF s
<1>3. r \in Written /\ r.auto /\ ~r.edited /\ r.off = {} /\ r.entry.good = 0 /\ r.entry.slot = s
  BY <1>1 DEF Row, Written, Stored
<1> QED
  BY <1>2, <1>3

\* The row that Insert adds.
LEMMA Genuine ==
  ASSUME EntryInv, NEW h \in Requests, Insert(h)
  PROVE  \E r \in Written :
           /\ rows' = Append(rows, r)
           /\ ~r.auto /\ ~r.edited /\ r.entry = req[h].entry /\ r.off = req[h].off
<1> DEFINE r == Row(req[h].entry, FALSE, req[h].off)
<1>1. req[h].entry \in Stored /\ req[h].off \in SUBSET Guards
  BY EntryFacts, DprConstants DEF Held, Stored
<1>2. r \in Written /\ ~r.auto /\ ~r.edited /\ r.entry = req[h].entry /\ r.off = req[h].off
  BY <1>1 DEF Row, Written
<1> QED
  BY <1>2 DEF Insert

\* A request that is cut off, not while it inserts a grant.
CutOff(h) == Stops(h) /\ req[h].step # "grant"

\* The entry is on its way.
Submits(h) == \E e \in Entries, answered \in BOOLEAN : Submit(h, e, answered)
Looks(h)   == \E answered \in BOOLEAN : LookForTwin(h, answered)

\* The steps of a submit.
ReqStep(h) ==
  \/ Submits(h) \/ ReadLast(h) \/ LookAtGap(h) \/ FillGap(h) \/ LeaveGaps(h)
  \/ Looks(h) \/ Insert(h) \/ ReplaceAutofill(h) \/ CutOff(h)

\* What a request holds after any of them.
LEMMA EntryReqStep ==
  ASSUME EntryInv, NEW h \in Requests, ReqStep(h)
  PROVE  /\ req' \in [Requests -> Held] /\ UNCHANGED <<grants, oldGrants>>
         /\ \A k \in Requests \ {h} : req'[k] = req[k]
         /\ req[h].step # "grant" /\ req'[h].step # "grant"
         /\ req'[h].step = "fill" => req'[h].gaps # {}
         /\ req[h].step # "idle" => req'[h].step = "idle" \/ req'[h].entry = req[h].entry
         /\ FailuresTyped'
<1> USE EntryFacts
<1>1. CASE Submits(h)
  <2>1. PICK e \in Entries, answered \in BOOLEAN : Submit(h, e, answered)
    BY <1>1 DEF Submits
  <2> DEFINE held == IF answered THEN {} ELSE {"cap"}
  <2>2. /\ req' = [req EXCEPT ![h].step = "last", ![h].entry = e, ![h].off = held]
        /\ req[h].step = "idle" /\ UNCHANGED <<grants, oldGrants, unreplaced>>
    BY <2>1 DEF Submit
  <2>3. held \in SUBSET Guards
    BY DEF Guards
  <2>4. failures' \in 0..MaxFailures
    BY <2>1, FailuresCounted DEF Submit
  <2> HIDE DEF held
  <2>5. req'[h] = [req[h] EXCEPT !.step = "last", !.entry = e, !.off = held]
        /\ \A k \in Requests \ {h} : req'[k] = req[k]
    BY <2>2
  <2>6. req'[h] \in Held /\ req'[h].step = "last" /\ req' \in [Requests -> Held]
    <3>1. req[h] \in Held
      OBVIOUS
    <3>2. req'[h].step = "last" /\ req'[h] \in Held
      BY <2>3, <2>5, <3>1 DEF Held
    <3>3. req' = [req EXCEPT ![h] = req'[h]]
      BY <2>2
    <3> QED
      BY <3>2, <3>3
  <2>7. FailuresTyped'
    BY <2>2, <2>4 DEF FailuresTyped
  <2> QED
    BY <2>2, <2>5, <2>6, <2>7
<1>3. CASE ReadLast(h)
  <2>1. Skipped(req[h].entry) \in SUBSET Slots
    BY DEF Skipped
  <2>2. FailuresTyped'
    BY <1>3 DEF ReadLast, failed, FailuresTyped
  <2> QED
    BY <1>3, <2>1, <2>2 DEF ReadLast, Held
<1>4. CASE LookAtGap(h)
  <2> DEFINE s == Min(req[h].gaps)
  <2>0. FailuresTyped'
    BY <1>4 DEF LookAtGap, failed, FailuresTyped
  <2>1. CASE Filled(s)
    <3>1. req' = [req EXCEPT ![h].gaps = @ \ {s}] /\ req[h].step = "gap" /\ UNCHANGED <<grants, oldGrants>>
      BY <1>4, <2>1 DEF LookAtGap
    <3> HIDE DEF s
    <3> QED
      BY <2>0, <3>1 DEF Held
  <2>2. CASE ~Filled(s)
    BY <1>4, <2>0, <2>2, RequestGoesOn DEF LookAtGap, DprSteps
  <2> QED
    BY <2>1, <2>2
<1>5. CASE FillGap(h)
  <2>1. PICK s \in Slots : req' = [req EXCEPT ![h].step = "gap", ![h].gaps = @ \ {s}]
    BY <1>5, Placeholder DEF Written, Stored
  <2>2. req[h].step = "fill" /\ UNCHANGED <<grants, oldGrants>> /\ FailuresTyped'
    BY <1>5 DEF FillGap, failed, FailuresTyped
  <2> QED
    BY <2>1, <2>2 DEF Held
<1>6. CASE Looks(h)
  <2>1. PICK answered \in BOOLEAN : LookForTwin(h, answered)
    BY <1>6 DEF Looks
  <2>2. FailuresTyped' /\ UNCHANGED <<grants, oldGrants>> /\ req[h].step = "gap"
    BY <2>1, FailuresCounted DEF LookForTwin, FailuresTyped
  <2>3. CASE Answers(h)
    BY <2>2, <2>3, RequestAnswered
  <2>4. CASE ~Answers(h)
    <3> DEFINE held == IF answered THEN req[h].off ELSE req[h].off \cup {"twin"}
    <3>1. req' = [req EXCEPT ![h].step = "insert", ![h].off = held]
      BY <2>1, <2>4 DEF LookForTwin
    <3>2. held \in SUBSET Guards
      BY DEF Held, Guards
    <3> HIDE DEF held
    <3> QED
      BY <2>2, <3>1, <3>2 DEF Held
  <2> QED
    BY <2>3, <2>4
<1>7. CASE Insert(h)
  <2>1. FailuresTyped'
    BY <1>7 DEF Insert, failed, FailuresTyped
  <2> QED
    BY <1>7, <2>1, RequestGoesOn DEF Insert, DprSteps
<1>8. CASE ReplaceAutofill(h)
  <2>1. FailuresTyped'
    BY <1>8 DEF ReplaceAutofill, FailuresTyped
  <2> QED
    BY <1>8, <2>1, RequestAnswered DEF ReplaceAutofill
<1>9. CASE LeaveGaps(h)
  <2>1. FailuresTyped'
    BY <1>9, FailuresCounted DEF LeaveGaps, FailuresTyped
  <2>2. req' = [req EXCEPT ![h].step = "gap", ![h].gaps = {}] /\ UNCHANGED <<grants, oldGrants>>
        /\ req[h].step \in {"last", "gap", "fill"}
    BY <1>9 DEF LeaveGaps
  <2> QED
    BY <2>1, <2>2 DEF Held
<1>10. CASE CutOff(h)
  <2>1. FailuresTyped'
    <3>1. req[h].entry.slot \in Slots
      BY DprConstants DEF Held
    <3>2. failures' \in 0..MaxFailures
      BY <1>10, FailuresCounted DEF CutOff, Stops
    <3> QED
      BY <1>10, <3>1, <3>2 DEF CutOff, Stops, FailuresTyped
  <2> QED
    BY <1>10, <2>1, RequestAnswered DEF CutOff, Stops
<1> QED
  BY <1>1, <1>3, <1>4, <1>5, <1>6, <1>7, <1>8, <1>9, <1>10 DEF ReqStep

\* What the steps do to the rows: a request adds a placeholder, or its genuine
\* row, or deletes the placeholders of its slot; a user deletes or corrects one.
RowsStep ==
  \/ UNCHANGED rows /\ old' \in {old, Len(rows)}
  \/ \E r \in Written : rows' = Append(rows, r) /\ UNCHANGED old /\ Len(rows) < MaxRows
  \/ \E ids : SoftDelete(ids)
  \/ \E i \in DOMAIN rows, g \in Corrected : Edit(i, g)

\* The steps of a request do one of these to the rows.
LEMMA RowsOfReqStep ==
  ASSUME EntryInv, NEW h \in Requests, ReqStep(h)
  PROVE  RowsStep
<1>1. CASE FillGap(h)
  BY <1>1, Placeholder DEF FillGap, RowsStep
<1>2. CASE Insert(h)
  BY <1>2, Genuine DEF Insert, RowsStep
<1>3. CASE ReplaceAutofill(h)
  BY <1>3 DEF ReplaceAutofill, RowsStep
<1>4. CASE UNCHANGED <<rows, old>>
  BY <1>4 DEF RowsStep
<1> QED
  BY <1>1, <1>2, <1>3, <1>4
  DEF ReqStep, Submits, Submit, ReadLast, LookAtGap, LeaveGaps, Looks, LookForTwin, CutOff, Stops

\* The rows after any of these.
LEMMA RowsTyped ==
  ASSUME EntryInv, RowsStep
  PROVE  rows' \in Seq(Written) /\ Len(rows') <= MaxRows /\ old' \in 0..Len(rows')
<1> USE EntryFacts
<1>1. CASE UNCHANGED rows /\ old' \in {old, Len(rows)}
  BY <1>1
<1>2. ASSUME NEW r \in Written, rows' = Append(rows, r), UNCHANGED old, Len(rows) < MaxRows
      PROVE  rows' \in Seq(Written) /\ Len(rows') <= MaxRows /\ old' \in 0..Len(rows')
  <2>1. rows' \in Seq(Written) /\ Len(rows') = Len(rows) + 1
    BY <1>2, RowAdded
  <2> QED
    BY <1>2, <2>1
<1>3. ASSUME NEW ids, SoftDelete(ids)
      PROVE  rows' \in Seq(Written) /\ Len(rows') <= MaxRows /\ old' \in 0..Len(rows')
  <2>1. rows' \in Seq(Written) /\ Len(rows') <= Len(rows) /\ old' \in 0..Len(rows')
    BY <1>3, Deleted
  <2> QED
    BY <2>1
<1>4. ASSUME NEW i \in DOMAIN rows, NEW g \in Corrected, Edit(i, g)
      PROVE  rows' \in Seq(Written) /\ Len(rows') <= MaxRows /\ old' \in 0..Len(rows')
  <2>1. [rows[i] EXCEPT !.entry.good = g, !.edited = TRUE] \in Written
    <3>1. rows[i] \in Written /\ g \in Nat
      BY DprConstants
    <3> QED
      BY <3>1 DEF Written, Stored
  <2>2. rows' = [rows EXCEPT ![i] = [rows[i] EXCEPT !.entry.good = g, !.edited = TRUE]] /\ UNCHANGED old
    BY <1>4 DEF Edit
  <2> QED
    BY <2>1, <2>2
<1> QED
  BY <1>1, <1>2, <1>3, <1>4 DEF RowsStep

\* Every step keeps the types, and enough room for the grants under way.
LEMMA EntryNext == EntryInv /\ [DprNext]_dprVars => EntryInv'
<1> SUFFICES ASSUME EntryInv, [DprNext]_dprVars PROVE EntryInv'
  OBVIOUS
<1> USE EntryFacts
<1>1. ASSUME NEW h \in Requests, ReqStep(h) PROVE EntryInv'
  BY <1>1, RowsOfReqStep, RowsTyped, EntryReqStep, EntryKept
<1>2. ASSUME NEW h \in Requests, NEW x \in Extras, Allow(h, x) PROVE EntryInv'
  <2>1. /\ req' \in [Requests -> Held] /\ req'[h].step = "grant" /\ req'[h].extra = x
        /\ \A k \in Requests \ {h} : req'[k] = req[k]
    BY <1>2 DEF Allow, Held
  <2>2. UNCHANGED <<rows, old, grants, oldGrants, failures, unreplaced>>
    BY <1>2 DEF Allow, failed
  <2>3. h \notin Granting /\ Granting' = Granting \cup {h}
    BY <1>2, <2>1 DEF Allow, Granting
  <2>4. Cardinality(Granting') = Cardinality(Granting) + 1
    BY <2>3, FS_AddElement
  <2>5. Len(grants) + Cardinality(Granting) < MaxGrants
    BY <1>2 DEF Allow, Granting
  <2>6. DprTypeOK' /\ ReqSound'
    BY <2>1, <2>2 DEF EntryInv, DprTypeOK, ReqSound
  <2> QED
    BY <2>2, <2>4, <2>5, <2>6, DprConstants DEF EntryInv
<1>3. ASSUME NEW h \in Requests, InsertGrant(h) PROVE EntryInv'
  <2>1. /\ req' \in [Requests -> Held] /\ req'[h].step = "idle"
        /\ \A k \in Requests \ {h} : req'[k] = req[k]
    BY <1>3, RequestAnswered DEF InsertGrant
  <2>2. h \in Granting /\ Granting' = Granting \ {h}
    BY <1>3, <2>1 DEF InsertGrant, Granting
  <2>3. Cardinality(Granting') = Cardinality(Granting) - 1
    BY <2>2, FS_RemoveElement
  <2>4. req[h].extra \in Extras
    BY <1>3 DEF InsertGrant, EntryInv, ReqSound
  <2>5. /\ grants' \in Seq([extra : Extras, live : BOOLEAN]) /\ Len(grants') = Len(grants) + 1
        /\ UNCHANGED <<rows, old, oldGrants, failures, unreplaced>>
    BY <1>3, <2>4 DEF InsertGrant, failed
  <2>6. Len(grants') + Cardinality(Granting') <= MaxGrants /\ Len(grants') <= MaxGrants
    <3>1. Len(grants) + Cardinality(Granting) <= MaxGrants /\ Cardinality(Granting') \in Nat
      BY <2>2, FS_RemoveElement, FS_CardinalityType DEF EntryInv
    <3> QED
      BY <2>3, <2>5, <3>1, DprConstants
  <2>7. ReqSound'
    BY <2>1 DEF EntryInv, ReqSound
  <2>8. DprTypeOK'
    BY <2>1, <2>5, <2>6 DEF DprTypeOK, Written
  <2> QED
    BY <2>6, <2>7, <2>8 DEF EntryInv
<1>4. ASSUME UNCHANGED <<grants, oldGrants, req, failures, unreplaced>>, RowsStep PROVE EntryInv'
  <2>1. rows' \in Seq(Written) /\ Len(rows') <= MaxRows /\ old' \in 0..Len(rows')
    BY <1>4, RowsTyped
  <2>2. DprTypeOK' /\ ReqSound' /\ Granting' = Granting
    BY <1>4, <2>1 DEF EntryInv, DprTypeOK, ReqSound, Granting, Written
  <2> QED
    BY <1>4, <2>2 DEF EntryInv
<1>5. ASSUME NEW i \in DOMAIN grants, WithdrawGrant(i) PROVE EntryInv'
  <2>1. /\ grants' \in Seq([extra : Extras, live : BOOLEAN]) /\ Len(grants') = Len(grants)
        /\ UNCHANGED <<rows, old, oldGrants, req, failures, unreplaced>>
    <3> DEFINE G == [extra : Extras, live : BOOLEAN]
               g == [grants[i] EXCEPT !.live = FALSE]
    <3>1. grants' = [grants EXCEPT ![i] = g] /\ UNCHANGED <<rows, old, oldGrants, req, failures, unreplaced>>
      BY <1>5 DEF WithdrawGrant, failed
    <3>2. grants \in Seq(G)
      OBVIOUS
    <3>3. g \in G
      <4>1. grants[i] \in G
        <5> HIDE DEF G
        <5> QED
          BY <3>2
      <4> QED
        BY <4>1
    <3> HIDE DEF G, g
    <3>4. grants' \in Seq(G) /\ Len(grants') = Len(grants)
      BY <3>1, <3>2, <3>3
    <3> QED
      BY <3>1, <3>4 DEF G
  <2> QED
    BY <2>1 DEF EntryInv, DprTypeOK, ReqSound, Granting
<1>6. CASE TwentySecondsPass
  BY <1>6 DEF TwentySecondsPass, EntryInv, DprTypeOK, ReqSound, Granting, failed
<1>7. ASSUME NEW i \in DOMAIN rows, Delete(i) PROVE EntryInv'
  BY <1>4, <1>7 DEF Delete, RowsStep, failed
<1>8. ASSUME NEW i \in DOMAIN rows, NEW g \in Corrected, Edit(i, g) PROVE EntryInv'
  <2>1. UNCHANGED <<grants, oldGrants, req, failures, unreplaced>>
    BY <1>8 DEF Edit, failed
  <2> QED
    BY <1>4, <1>8, <2>1 DEF RowsStep
<1>9. CASE TwoMinutesPass
  BY <1>4, <1>9 DEF TwoMinutesPass, RowsStep, failed
<1>10. CASE UNCHANGED dprVars
  BY <1>4, <1>10 DEF dprVars, RowsStep, failed
<1>11. ASSUME NEW h \in Requests, Stops(h), req[h].step = "grant" PROVE EntryInv'
  <2>1. /\ req' \in [Requests -> Held] /\ req'[h].step = "idle"
        /\ \A k \in Requests \ {h} : req'[k] = req[k]
    BY <1>11, RequestAnswered DEF Stops
  <2>2. h \in Granting /\ Granting' = Granting \ {h}
    BY <1>11, <2>1 DEF Granting
  <2>3. Cardinality(Granting') = Cardinality(Granting) - 1
    BY <2>2, FS_RemoveElement
  <2>4. UNCHANGED <<rows, old, grants, oldGrants>> /\ unreplaced' = unreplaced
        /\ failures' \in 0..MaxFailures
    BY <1>11, FailuresCounted DEF Stops
  <2>5. DprTypeOK' /\ ReqSound'
    BY <2>1, <2>4 DEF EntryInv, DprTypeOK, ReqSound
  <2> QED
    BY <2>3, <2>4, <2>5, DprConstants DEF EntryInv
<1> QED
  BY <1>1, <1>2, <1>3, <1>5, <1>6, <1>7, <1>8, <1>9, <1>10, <1>11
  DEF DprNext, ReqStep, Submits, Looks, CutOff

\* The type invariant.
THEOREM EntriesTyped == DprSpec => []DprTypeOK
<1>1. EntryInv => DprTypeOK
  BY DEF EntryInv
<1> QED
  BY <1>1, EntryInit, EntryNext, PTL DEF DprSpec

-----------------------------------------------------------------------------
(* Placeholders and genuine rows.                                          *)

\* A request is about to delete the placeholders of slot s, or failed to.
Superseding(s) ==
  \/ \E h \in Requests : req[h].step = "replace" /\ req[h].entry.slot = s
  \/ s \in unreplaced

\* The rows that stand against what GenuineSupersedes says.
Outlived(i, j) ==
  i < j /\ rows[i].auto /\ ~rows[j].auto /\ rows[i].entry.slot = rows[j].entry.slot

\* GenuineSupersedes, said with the two.
LEMMA SupersedesUnfold ==
  GenuineSupersedes <=> \A i, j \in DOMAIN rows : Outlived(i, j) => Superseding(rows[i].entry.slot)
BY DEF GenuineSupersedes, Outlived, Superseding

\* A request goes on superseding until it has deleted the placeholders.
LEMMA StillSuperseding ==
  ASSUME EntryInv, NEW h \in Requests, ReqStep(h), NEW s, Superseding(s)
  PROVE  Superseding(s)' \/ (ReplaceAutofill(h) /\ req[h].entry.slot = s)
<1>1. s \in unreplaced => s \in unreplaced' \/ (ReplaceAutofill(h) /\ req[h].entry.slot = s)
  <2>1. CASE UNCHANGED unreplaced \/ ReplaceAutofill(h) \/ Stops(h)
    BY <2>1 DEF ReplaceAutofill, Stops
  <2> QED
    BY <2>1 DEF ReqStep, Submits, Submit, ReadLast, LookAtGap, FillGap, LeaveGaps, Looks,
                LookForTwin, Insert, CutOff, failed
<1>2. ASSUME NEW k \in Requests, req[k].step = "replace", req[k].entry.slot = s
      PROVE  Superseding(s)' \/ (ReplaceAutofill(h) /\ req[h].entry.slot = s)
  <2>1. CASE k # h
    BY <1>2, <2>1, EntryReqStep DEF Superseding
  <2>2. CASE k = h /\ Stops(h)
    BY <1>2, <2>2 DEF Stops, Superseding
  <2>3. CASE k = h /\ ~Stops(h)
    BY <1>2, <2>3 DEF ReqStep, Submits, Submit, ReadLast, LookAtGap, FillGap, LeaveGaps, Looks,
                      LookForTwin, Insert, CutOff
  <2> QED
    BY <2>1, <2>2, <2>3
<1> QED
  BY <1>1, <1>2 DEF Superseding

\* The rows that are left after a deletion stood as they stand.
LEMMA SupersedesDeleted ==
  ASSUME EntryInv, GenuineSupersedes, NEW ids, SoftDelete(ids),
         \A s \in Slots, i \in DOMAIN rows \ ids :
           rows[i].auto /\ rows[i].entry.slot = s /\ Superseding(s) => Superseding(s)'
  PROVE  GenuineSupersedes'
<1>1. PICK at \in [DOMAIN rows' -> DOMAIN rows \ ids] :
        /\ \A n \in DOMAIN rows' : rows'[n] = rows[at[n]]
        /\ \A m, n \in DOMAIN rows' : m < n => at[m] < at[n]
  BY EntryFacts, Deleted
<1>2. ASSUME NEW m \in DOMAIN rows', NEW n \in DOMAIN rows', NEW s \in Slots,
             m < n, rows'[m].auto, ~rows'[n].auto, rows'[m].entry.slot = s, rows'[n].entry.slot = s
      PROVE  Superseding(s)'
  <2>1. at[m] \in DOMAIN rows \ ids /\ at[n] \in DOMAIN rows
    OBVIOUS
  <2>2. Outlived(at[m], at[n]) /\ rows[at[m]].auto /\ rows[at[m]].entry.slot = s
    BY <1>1, <1>2 DEF Outlived
  <2>3. Superseding(s)
    BY <2>1, <2>2, SupersedesUnfold
  <2> QED
    BY <2>1, <2>2, <2>3
<1>3. rows' \in Seq(Written)
  BY EntryFacts, Deleted
<1>4. \A n \in DOMAIN rows' : rows'[n] \in Written
  BY <1>3
<1>5. \A n \in DOMAIN rows' : rows'[n].entry.slot \in Slots
  BY <1>4 DEF Written, Stored
<1> QED
  BY <1>2, <1>5 DEF GenuineSupersedes, Superseding

\* A row is added: a placeholder after all rows, or a genuine one whose request
\* supersedes the placeholders before it.
LEMMA SupersedesAdded ==
  ASSUME EntryInv, GenuineSupersedes, NEW r \in Written, rows' = Append(rows, r),
         \A s \in Slots : Superseding(s) => Superseding(s)',
         r.auto \/ \A s \in Slots : r.entry.slot = s => Superseding(s)'
  PROVE  GenuineSupersedes'
<1>1. /\ DOMAIN rows = 1..Len(rows) /\ DOMAIN rows' = DOMAIN rows \cup {Len(rows) + 1} /\ Len(rows) \in Nat
      /\ rows'[Len(rows) + 1] = r /\ \A i \in DOMAIN rows : rows'[i] = rows[i]
  BY EntryFacts, RowAdded
<1>2. ASSUME NEW i \in DOMAIN rows', NEW j \in DOMAIN rows', NEW s \in Slots,
             i < j, rows'[i].auto, ~rows'[j].auto, rows'[i].entry.slot = s, rows'[j].entry.slot = s
      PROVE  Superseding(s)'
  <2>1. i \in DOMAIN rows
    BY <1>1, <1>2
  <2>2. CASE j = Len(rows) + 1
    BY <1>1, <1>2, <2>2
  <2>3. CASE j \in DOMAIN rows
    <3>1. Outlived(i, j) /\ rows[i].entry.slot = s
      BY <1>1, <1>2, <2>1, <2>3 DEF Outlived
    <3>2. Superseding(s)
      BY <2>1, <2>3, <3>1, SupersedesUnfold
    <3> QED
      BY <3>2
  <2> QED
    BY <1>1, <2>2, <2>3
<1>3. \A n \in DOMAIN rows : rows[n] \in Written
  BY EntryFacts
<1>4. \A n \in DOMAIN rows' : rows'[n].entry.slot \in Slots
  BY <1>1, <1>3 DEF Written, Stored
<1> QED
  BY <1>2, <1>4 DEF GenuineSupersedes, Superseding

\* The rows stand as they stood, corrections of quantities aside.
LEMMA SupersedesSame ==
  ASSUME EntryInv, GenuineSupersedes, DOMAIN rows' = DOMAIN rows,
         \A i \in DOMAIN rows : rows'[i].auto = rows[i].auto /\ rows'[i].entry.slot = rows[i].entry.slot,
         \A s \in Slots : Superseding(s) => Superseding(s)'
  PROVE  GenuineSupersedes'
<1>1. ASSUME NEW i \in DOMAIN rows, NEW j \in DOMAIN rows, NEW s \in Slots,
             i < j, rows'[i].auto, ~rows'[j].auto, rows'[i].entry.slot = s, rows'[j].entry.slot = s
      PROVE  Superseding(s)'
  <2>1. Outlived(i, j) /\ rows[i].entry.slot = s
    BY <1>1 DEF Outlived
  <2>2. Superseding(s)
    BY <2>1, SupersedesUnfold
  <2> QED
    BY <2>2
<1>2. \A n \in DOMAIN rows : rows[n] \in Written
  BY EntryFacts
<1>3. \A n \in DOMAIN rows : rows'[n].entry.slot \in Slots
  BY <1>2 DEF Written, Stored
<1> QED
  BY <1>1, <1>3 DEF GenuineSupersedes, Superseding

\* Every step keeps GenuineSupersedes.
LEMMA SupersedesNext == EntryInv /\ GenuineSupersedes /\ [DprNext]_dprVars => GenuineSupersedes'
<1> SUFFICES ASSUME EntryInv, GenuineSupersedes, [DprNext]_dprVars PROVE GenuineSupersedes'
  OBVIOUS
<1>1. ASSUME NEW h \in Requests, ReqStep(h) PROVE GenuineSupersedes'
  <2>1. CASE FillGap(h)
    <3>1. \A s \in Slots : Superseding(s) => Superseding(s)'
      BY <1>1, <2>1, StillSuperseding DEF FillGap, ReplaceAutofill
    <3> QED
      BY <2>1, <3>1, Placeholder, SupersedesAdded
  <2>2. CASE Insert(h)
    <3>1. \A s \in Slots : Superseding(s) => Superseding(s)'
      BY <1>1, <2>2, StillSuperseding DEF Insert, ReplaceAutofill
    <3>2. req'[h].step = "replace" /\ req'[h].entry = req[h].entry
      BY <2>2, EntryFacts, RequestGoesOn DEF Insert, DprSteps
    <3>3. \A s \in Slots : req[h].entry.slot = s => Superseding(s)'
      BY <3>2 DEF Superseding
    <3>4. PICK r \in Written : rows' = Append(rows, r) /\ r.entry = req[h].entry
      BY <2>2, Genuine
    <3>5. \A s \in Slots : r.entry.slot = s => Superseding(s)'
      BY <3>3, <3>4
    <3> QED
      BY <3>1, <3>4, <3>5, SupersedesAdded
  <2>3. CASE ReplaceAutofill(h)
    <3> DEFINE s0  == req[h].entry.slot
               ids == Replaced(s0)
    <3>1. SoftDelete(ids)
      BY <2>3 DEF ReplaceAutofill
    <3>2. \A s \in Slots : Superseding(s) => Superseding(s)' \/ s0 = s
      BY <1>1, StillSuperseding
    <3>3. \A i \in DOMAIN rows \ ids : rows[i].auto => rows[i].entry.slot # s0
      BY DEF Replaced
    <3> HIDE DEF ids
    <3>4. \A s \in Slots, i \in DOMAIN rows \ ids :
            rows[i].auto /\ rows[i].entry.slot = s /\ Superseding(s) => Superseding(s)'
      BY <3>2, <3>3
    <3> QED
      BY <3>1, <3>4, SupersedesDeleted
  <2>4. CASE UNCHANGED rows /\ ~ReplaceAutofill(h)
    <3>1. \A s \in Slots : Superseding(s) => Superseding(s)'
      BY <1>1, <2>4, StillSuperseding
    <3> QED
      BY <2>4, <3>1, SupersedesSame
  <2> QED
    BY <1>1, <2>1, <2>2, <2>3, <2>4
    DEF ReqStep, Submits, Submit, ReadLast, LookAtGap, LeaveGaps, Looks, LookForTwin, CutOff, Stops
<1>2. ASSUME NEW h \in Requests,
             \/ InsertGrant(h) \/ \E x \in Extras : Allow(h, x)
             \/ Stops(h) /\ req[h].step = "grant"
      PROVE  GenuineSupersedes'
  <2>1. UNCHANGED rows /\ req[h].step # "replace" /\ UNCHANGED unreplaced
    BY <1>2 DEF InsertGrant, Allow, Stops, failed
  <2>2. \A k \in Requests \ {h} : req'[k] = req[k]
    <3>1. CASE InsertGrant(h)
      BY <3>1, EntryFacts, RequestAnswered DEF InsertGrant
    <3>2. CASE \E x \in Extras : Allow(h, x)
      BY <3>2, EntryFacts DEF Allow
    <3>3. CASE Stops(h)
      BY <3>3, EntryFacts, RequestAnswered DEF Stops
    <3> QED
      BY <1>2, <3>1, <3>2, <3>3
  <2>3. \A s \in Slots : Superseding(s) => Superseding(s)'
    BY <2>1, <2>2 DEF Superseding
  <2> QED
    BY <2>1, <2>3, SupersedesSame
<1>3. ASSUME NEW i \in DOMAIN rows, Delete(i) PROVE GenuineSupersedes'
  <2>1. \A s \in Slots : Superseding(s) => Superseding(s)'
    BY <1>3 DEF Delete, Superseding, failed
  <2> QED
    BY <1>3, <2>1, SupersedesDeleted DEF Delete
<1>4. ASSUME NEW i \in DOMAIN rows, NEW g \in Corrected, Edit(i, g) PROVE GenuineSupersedes'
  <2>1. \A s \in Slots : Superseding(s) => Superseding(s)'
    BY <1>4 DEF Edit, Superseding, failed
  <2>2. \A k \in DOMAIN rows : rows[k] \in Written
    BY EntryFacts
  <2>3. /\ DOMAIN rows' = DOMAIN rows
        /\ \A k \in DOMAIN rows : rows'[k].auto = rows[k].auto /\ rows'[k].entry.slot = rows[k].entry.slot
    BY <1>4, <2>2 DEF Edit, Written, Stored
  <2> QED
    BY <2>1, <2>3, SupersedesSame
<1>5. ASSUME UNCHANGED <<rows, req, unreplaced>> PROVE GenuineSupersedes'
  BY <1>5 DEF GenuineSupersedes
<1> QED
  BY <1>1, <1>2, <1>3, <1>4, <1>5
  DEF DprNext, ReqStep, Submits, Looks, CutOff, WithdrawGrant, TwoMinutesPass, TwentySecondsPass, dprVars, failed

\* "the genuine entry we just inserted supersedes the placeholder" (8252-8258).
THEOREM GenuineRowsSupersede == DprSpec => []GenuineSupersedes
<1>1. DprInit => GenuineSupersedes
  BY DEF DprInit, GenuineSupersedes
<1> QED
  BY <1>1, EntryInit, EntryNext, SupersedesNext, PTL DEF DprSpec

-----------------------------------------------------------------------------
(* Twins.                                                                  *)

\* The genuine, uncorrected rows of entry e of the last two minutes that were held
\* against the guard, and the requests that found no twin of it and are about to
\* insert one more.
Standing(e)  == {i \in DOMAIN rows : /\ i > old /\ rows[i].entry = e /\ "twin" \notin rows[i].off
                                     /\ ~rows[i].auto /\ ~rows[i].edited}
Inserting(e) == {h \in Requests : req[h].step = "insert" /\ req[h].entry = e /\ "twin" \notin req[h].off}

TwinInv == \A e \in Entries : Cardinality(Standing(e)) + Cardinality(Inserting(e)) <= Cardinality(Requests)

\* The sets that are counted are finite, and no more insert than there are requests.
LEMMA TwinFacts ==
  ASSUME EntryInv, NEW e
  PROVE  /\ IsFiniteSet(Standing(e)) /\ Cardinality(Standing(e)) \in Nat
         /\ IsFiniteSet(Inserting(e)) /\ Cardinality(Inserting(e)) \in Nat
         /\ Cardinality(Inserting(e)) <= Cardinality(Requests)
         /\ Cardinality(Requests) \in Nat
<1>1. IsFiniteSet(DOMAIN rows)
  BY EntryFacts, FS_Interval
<1>2. Standing(e) \in SUBSET (DOMAIN rows) /\ Inserting(e) \in SUBSET Requests
  BY DEF Standing, Inserting
<1>3. IsFiniteSet(Standing(e)) /\ IsFiniteSet(Inserting(e)) /\ Cardinality(Inserting(e)) <= Cardinality(Requests)
  BY <1>1, <1>2, FS_Subset, DprConstants
<1> QED
  BY <1>3, FS_CardinalityType, DprConstants

\* No twin more and no insertion more.
LEMMA NoMoreTwins ==
  ASSUME EntryInv, EntryInv', TwinInv, NEW e \in Entries,
         Cardinality(Standing(e)') <= Cardinality(Standing(e)), Inserting(e)' \subseteq Inserting(e)
  PROVE  Cardinality(Standing(e)') + Cardinality(Inserting(e)') <= Cardinality(Requests)
<1>1. Cardinality(Inserting(e)') <= Cardinality(Inserting(e)) /\ Cardinality(Inserting(e)') \in Nat
  BY TwinFacts, FS_Subset, FS_CardinalityType
<1>2. /\ Cardinality(Standing(e)) \in Nat /\ Cardinality(Inserting(e)) \in Nat
      /\ Cardinality(Requests) \in Nat
      /\ Cardinality(Standing(e)) + Cardinality(Inserting(e)) <= Cardinality(Requests)
  BY TwinFacts DEF TwinInv
<1>3. IsFiniteSet(Standing(e)')
  <2>1. rows' \in Seq(Written)
    BY DEF EntryInv, DprTypeOK, Written
  <2>2. IsFiniteSet(DOMAIN rows')
    BY <2>1, FS_Interval
  <2>3. Standing(e)' \in SUBSET (DOMAIN rows')
    BY DEF Standing
  <2> QED
    BY <2>2, <2>3, FS_Subset
<1>4. Cardinality(Standing(e)') \in Nat
  BY <1>3, FS_CardinalityType
<1> QED
  BY <1>1, <1>2, <1>4

\* A deletion leaves no twin that was not one.
LEMMA TwinsDeleted ==
  ASSUME EntryInv, NEW ids, SoftDelete(ids), NEW e
  PROVE  Cardinality(Standing(e)') <= Cardinality(Standing(e))
<1>1. PICK at \in [DOMAIN rows' -> DOMAIN rows \ ids] :
        /\ \A n \in DOMAIN rows' : rows'[n] = rows[at[n]] /\ (n > old' => at[n] > old)
        /\ \A m, n \in DOMAIN rows' : m < n => at[m] < at[n]
  BY EntryFacts, Deleted
<1>2. /\ DOMAIN rows' \in SUBSET Int /\ \A n \in DOMAIN rows' : at[n] \in DOMAIN rows /\ at[n] \in Int
  BY EntryFacts, Deleted
<1> DEFINE f == [n \in Standing(e)' |-> at[n]]
<1>3. f \in [Standing(e)' -> Standing(e)]
  BY <1>1, <1>2 DEF Standing
<1>4. ASSUME NEW m \in Standing(e)', NEW n \in Standing(e)', f[m] = f[n] PROVE m = n
  <2>1. m \in DOMAIN rows' /\ n \in DOMAIN rows' /\ at[m] = at[n]
    BY <1>4 DEF Standing
  <2>2. m < n \/ n < m \/ m = n
    BY <1>2, <2>1
  <2> QED
    BY <1>1, <1>2, <2>1, <2>2
<1>5. f \in Injection(Standing(e)', Standing(e))
  BY <1>3, <1>4 DEF Injection, IsInjective
<1> QED
  BY <1>5, TwinFacts, FS_Injection

\* Rows that are no twins more than they were.
LEMMA TwinsSubset ==
  ASSUME EntryInv, NEW e, Standing(e)' \subseteq Standing(e)
  PROVE  Cardinality(Standing(e)') <= Cardinality(Standing(e))
BY TwinFacts, FS_Subset

\* A request inserts its entry: it is one of the twins from now on.
LEMMA TwinInserted ==
  ASSUME EntryInv, NEW h \in Requests, Insert(h), NEW e \in Entries, req[h].entry = e,
         "twin" \notin req[h].off
  PROVE  /\ Cardinality(Standing(e)') = Cardinality(Standing(e)) + 1
         /\ Cardinality(Inserting(e)') = Cardinality(Inserting(e)) - 1
<1>1. PICK r \in Written : /\ rows' = Append(rows, r) /\ ~r.auto /\ ~r.edited /\ r.entry = e
                           /\ "twin" \notin r.off
  BY Genuine
<1>2. /\ DOMAIN rows' = DOMAIN rows \cup {Len(rows) + 1} /\ Len(rows) + 1 \notin DOMAIN rows
      /\ rows'[Len(rows) + 1] = r /\ \A i \in DOMAIN rows : rows'[i] = rows[i]
  BY <1>1, EntryFacts, RowAdded
<1>3. old' = old /\ old < Len(rows) + 1
  BY EntryFacts DEF Insert
<1>4. Len(rows) + 1 \notin Standing(e) /\ Standing(e)' = Standing(e) \cup {Len(rows) + 1}
  BY <1>1, <1>2, <1>3 DEF Standing
<1>5. Cardinality(Standing(e)') = Cardinality(Standing(e)) + 1
  BY <1>4, TwinFacts, FS_AddElement
<1>6. req'[h].step = "replace" /\ (\A k \in Requests \ {h} : req'[k] = req[k]) /\ req[h].step = "insert"
  BY EntryFacts, RequestGoesOn DEF Insert, DprSteps
<1>7. h \in Inserting(e) /\ Inserting(e)' = Inserting(e) \ {h}
  BY <1>6 DEF Inserting
<1>8. Cardinality(Inserting(e)') = Cardinality(Inserting(e)) - 1
  <2>1. IsFiniteSet(Inserting(e))
    BY TwinFacts
  <2>2. Cardinality(Inserting(e) \ {h}) = Cardinality(Inserting(e)) - 1
    BY <1>7, <2>1, FS_RemoveElement
  <2> QED
    BY <1>7, <2>2
<1> QED
  BY <1>5, <1>8

\* A request that finds no twin inserts one at most, and the others are not more.
LEMMA TwinReqStep ==
  ASSUME EntryInv, EntryInv', TwinInv, NEW h \in Requests, ReqStep(h), NEW e \in Entries
  PROVE  Cardinality(Standing(e)') + Cardinality(Inserting(e)') <= Cardinality(Requests)
<1>1. \A k \in Requests \ {h} : req'[k] = req[k]
  BY EntryReqStep
<1>2. CASE req'[h].step # "insert"
  <2>1. Inserting(e)' \subseteq Inserting(e)
    BY <1>1, <1>2 DEF Inserting
  <2>2. CASE Insert(h) /\ req[h].entry = e /\ "twin" \notin req[h].off
    <3>1. /\ Cardinality(Standing(e)) \in Nat /\ Cardinality(Inserting(e)) \in Nat
          /\ Cardinality(Requests) \in Nat
          /\ Cardinality(Standing(e)) + Cardinality(Inserting(e)) <= Cardinality(Requests)
      BY TwinFacts DEF TwinInv
    <3>2. /\ Cardinality(Standing(e)') = Cardinality(Standing(e)) + 1
          /\ Cardinality(Inserting(e)') = Cardinality(Inserting(e)) - 1
      BY <2>2, TwinInserted
    <3> QED
      BY <3>1, <3>2
  <2>3. CASE FillGap(h) \/ (Insert(h) /\ (req[h].entry # e \/ "twin" \in req[h].off))
    <3>1. PICK r \in Written : rows' = Append(rows, r) /\ (r.auto \/ r.entry # e \/ "twin" \in r.off)
      BY <2>3, Placeholder, Genuine
    <3>2. /\ DOMAIN rows' = DOMAIN rows \cup {Len(rows) + 1}
          /\ rows'[Len(rows) + 1] = r /\ \A i \in DOMAIN rows : rows'[i] = rows[i]
      BY <3>1, EntryFacts, RowAdded
    <3>3. Standing(e)' \subseteq Standing(e)
      BY <2>3, <3>1, <3>2 DEF Standing, FillGap, Insert
    <3> QED
      BY <2>1, <3>3, TwinsSubset, NoMoreTwins
  <2>4. CASE ReplaceAutofill(h)
    BY <2>1, <2>4, TwinsDeleted, NoMoreTwins DEF ReplaceAutofill
  <2>5. CASE UNCHANGED <<rows, old>>
    <3>1. Standing(e)' = Standing(e)
      BY <2>5 DEF Standing
    <3> QED
      BY <2>1, <3>1, TwinsSubset, NoMoreTwins
  <2> QED
    BY <2>2, <2>3, <2>4, <2>5
    DEF ReqStep, Submits, Submit, ReadLast, LookAtGap, LeaveGaps, Looks, LookForTwin, CutOff, Stops
<1>3. CASE req'[h].step = "insert"
  <2>1. Looks(h) /\ req'[h].entry = req[h].entry
    <3>1. CASE Submits(h)
      BY <1>3, <3>1, EntryFacts DEF Submits, Submit, Held
    <3>2. CASE ReadLast(h) \/ LookAtGap(h) \/ FillGap(h) \/ LeaveGaps(h)
      <4>1. req'[h].step \in {"gap", "fill"}
        <5>1. req[h] \in Held
          BY EntryFacts
        <5>2. CASE ReadLast(h)
          BY <5>1, <5>2, EntryFacts DEF ReadLast
        <5>3. CASE LookAtGap(h)
          <6> DEFINE s == Min(req[h].gaps)
          <6>1. req[h].step = "gap"
            BY <5>3 DEF LookAtGap
          <6>2. req' = [req EXCEPT ![h].gaps = @ \ {s}] \/ GoesOn(h, "fill")
            BY <5>3 DEF LookAtGap
          <6> HIDE DEF s
          <6>3. CASE req' = [req EXCEPT ![h].gaps = @ \ {s}]
            BY <5>1, <6>1, <6>3, EntryFacts
          <6>4. CASE GoesOn(h, "fill")
            BY <6>4, EntryFacts, RequestGoesOn DEF DprSteps
          <6> QED
            BY <6>2, <6>3, <6>4
        <5>4. CASE FillGap(h)
          BY <5>1, <5>4, EntryFacts DEF FillGap
        <5>5. CASE LeaveGaps(h)
          BY <5>1, <5>5, EntryFacts DEF LeaveGaps
        <5> QED
          BY <3>2, <5>2, <5>3, <5>4, <5>5
      <4> QED
        BY <1>3, <4>1
    <3>3. CASE Insert(h) \/ ReplaceAutofill(h) \/ CutOff(h)
      BY <1>3, <3>3, EntryFacts, RequestGoesOn, RequestAnswered
      DEF Insert, ReplaceAutofill, CutOff, Stops, DprSteps
    <3>4. CASE Looks(h)
      BY <1>3, <3>4, EntryReqStep DEF Looks, LookForTwin
    <3> QED
      BY <3>1, <3>2, <3>3, <3>4 DEF ReqStep
  <2>2. /\ UNCHANGED <<rows, old>>
        /\ Twin(req[h].entry) = {} \/ "twin" \in req'[h].off
    <3>1. PICK answered \in BOOLEAN : LookForTwin(h, answered)
      BY <2>1 DEF Looks
    <3>2. UNCHANGED <<rows, old>> /\ ~Answers(h)
      BY <1>3, <3>1, EntryFacts, RequestAnswered DEF LookForTwin
    <3>3. ~answered => "twin" \in req'[h].off
      <4> SUFFICES ASSUME ~answered PROVE "twin" \in req'[h].off
        OBVIOUS
      <4>1. req' = [req EXCEPT ![h].step = "insert", ![h].off = req[h].off \cup {"twin"}]
        BY <3>1, <3>2 DEF LookForTwin
      <4> QED
        BY <4>1, EntryFacts DEF Held
    <3> QED
      BY <3>1, <3>2, <3>3 DEF LookForTwin
  <2>3. Standing(e)' = Standing(e)
    BY <2>2 DEF Standing
  <2>4. CASE req[h].entry = e /\ Twin(req[h].entry) = {}
    <3>1. Standing(e) = {}
      BY <2>2, <2>4 DEF Standing, Twin
    <3>2. Cardinality(Standing(e)') = 0
      BY <2>3, <3>1, FS_EmptySet
    <3>3. Cardinality(Inserting(e)') <= Cardinality(Requests) /\ Cardinality(Inserting(e)') \in Nat
      <4>1. Inserting(e)' \in SUBSET Requests
        BY DEF Inserting
      <4> QED
        BY <4>1, DprConstants, FS_Subset, FS_CardinalityType
    <3> QED
      BY <3>2, <3>3, TwinFacts
  <2>5. CASE req[h].entry # e \/ "twin" \in req'[h].off
    <3>1. Inserting(e)' \subseteq Inserting(e)
      BY <1>1, <2>1, <2>5 DEF Inserting
    <3> QED
      BY <2>3, <3>1, TwinsSubset, NoMoreTwins
  <2> QED
    BY <2>2, <2>4, <2>5
<1> QED
  BY <1>2, <1>3

\* Every step keeps TwinInv.
LEMMA TwinNext == EntryInv /\ TwinInv /\ [DprNext]_dprVars => TwinInv'
<1> SUFFICES ASSUME EntryInv, TwinInv, [DprNext]_dprVars, NEW e \in Entries
             PROVE  Cardinality(Standing(e)') + Cardinality(Inserting(e)') <= Cardinality(Requests)
  BY DEF TwinInv
<1>0. EntryInv'
  BY EntryNext
<1>1. ASSUME NEW h \in Requests, ReqStep(h)
      PROVE  Cardinality(Standing(e)') + Cardinality(Inserting(e)') <= Cardinality(Requests)
  BY <1>0, <1>1, TwinReqStep
<1>2. ASSUME Standing(e)' \subseteq Standing(e), Inserting(e)' \subseteq Inserting(e)
      PROVE  Cardinality(Standing(e)') + Cardinality(Inserting(e)') <= Cardinality(Requests)
  BY <1>0, <1>2, TwinsSubset, NoMoreTwins
<1>3. ASSUME NEW h \in Requests,
             \/ InsertGrant(h) \/ \E x \in Extras : Allow(h, x)
             \/ Stops(h) /\ req[h].step = "grant"
      PROVE  Standing(e)' \subseteq Standing(e) /\ Inserting(e)' \subseteq Inserting(e)
  <2>1. CASE InsertGrant(h)
    BY <2>1, EntryFacts, RequestAnswered DEF InsertGrant, Standing, Inserting
  <2>2. CASE \E x \in Extras : Allow(h, x)
    BY <2>2, EntryFacts DEF Allow, Standing, Inserting
  <2>3. CASE Stops(h)
    BY <2>3, EntryFacts, RequestAnswered DEF Stops, Standing, Inserting
  <2> QED
    BY <1>3, <2>1, <2>2, <2>3
<1>4. ASSUME NEW i \in DOMAIN rows, Delete(i)
      PROVE  Cardinality(Standing(e)') + Cardinality(Inserting(e)') <= Cardinality(Requests)
  <2>1. Inserting(e)' = Inserting(e)
    BY <1>4 DEF Delete, Inserting
  <2> QED
    BY <1>0, <1>4, <2>1, TwinsDeleted, NoMoreTwins DEF Delete
<1>5. ASSUME NEW i \in DOMAIN rows, NEW g \in Corrected, Edit(i, g)
      PROVE  Standing(e)' \subseteq Standing(e) /\ Inserting(e)' \subseteq Inserting(e)
  <2>1. rows[i] \in Written
    BY EntryFacts
  <2>2. /\ DOMAIN rows' = DOMAIN rows /\ rows'[i].edited
        /\ \A k \in DOMAIN rows \ {i} : rows'[k] = rows[k]
    BY <1>5, <2>1 DEF Edit, Written, Stored
  <2> QED
    BY <1>5, <2>2 DEF Edit, Standing, Inserting
<1>6. CASE TwoMinutesPass
  <2>1. Standing(e)' = {}
    BY <1>6, EntryFacts DEF TwoMinutesPass, Standing
  <2> QED
    BY <1>2, <1>6, <2>1 DEF TwoMinutesPass, Inserting
<1>7. CASE UNCHANGED <<rows, old, req>>
  BY <1>2, <1>7 DEF Standing, Inserting
<1> QED
  BY <1>1, <1>2, <1>3, <1>4, <1>5, <1>6, <1>7
  DEF DprNext, ReqStep, Submits, Looks, CutOff, WithdrawGrant, TwentySecondsPass, dprVars

\* The duplicate guard (8184-8189): one twin per request that can be under way.
THEOREM TwinsAreBounded == DprSpec => []TwinsBounded
<1>1. DprInit => TwinInv
  <2> SUFFICES ASSUME DprInit, NEW e \in Entries
               PROVE  Cardinality(Standing(e)) + Cardinality(Inserting(e)) <= Cardinality(Requests)
    BY DEF TwinInv
  <2>1. Standing(e) = {} /\ Inserting(e) = {}
    BY NoRequestType DEF DprInit, Standing, Inserting
  <2>2. Cardinality(Standing(e)) = 0 /\ Cardinality(Inserting(e)) = 0
    BY <2>1, FS_EmptySet
  <2> QED
    BY <2>2, EntryInit, TwinFacts
<1>2. EntryInv /\ TwinInv => TwinsBounded
  <2> SUFFICES ASSUME EntryInv, TwinInv, NEW e \in Entries
               PROVE  Cardinality(Standing(e)) <= Cardinality(Requests)
    BY DEF TwinsBounded, Standing
  <2> QED
    BY TwinFacts DEF TwinInv
<1> QED
  BY <1>1, <1>2, EntryInit, EntryNext, TwinNext, PTL DEF DprSpec

-----------------------------------------------------------------------------
(* The cap.                                                                *)

RowGood    == [i \in DOMAIN rows |-> rows[i].entry.good]
GrantExtra == [i \in DOMAIN grants |-> grants[i].extra]

\* What the requests that passed the cap have yet to insert.
Owes(h) == req[h].step \in {"last", "gap", "fill", "insert"} /\ "cap" \notin req[h].off
Due == [h \in Requests |-> IF Owes(h) THEN req[h].entry.good ELSE 0]

UnderCap    == {i \in DOMAIN rows : ~rows[i].edited /\ "cap" \notin rows[i].off}
Uncorrected == Good(UnderCap)
EverGranted == Granted(DOMAIN grants)
MostGood    == Max({e.good : e \in Entries})
CapSlack    == (Cardinality(Requests) - 1) * MostGood

CapInv == Uncorrected + Sum(Due, Requests) <= PlanCap + EverGranted + CapSlack

\* The sums of the model and of the lemmas are the same.
LEMMA SumOnSet ==
  ASSUME NEW f, NEW S
  PROVE  SumFunctionOnSet(f, S) = Sum(f, S)
BY DEF SumFunctionOnSet, FoldFunctionOnSet, Sum, MapThenSumSet

\* The quantities of rows are numbers.
LEMMA QuantitiesOfRows ==
  ASSUME NEW s \in Seq(Written)
  PROVE  IsFiniteSet(DOMAIN s) /\ \A i \in DOMAIN s : s[i].entry.good \in Nat
<1>1. IsFiniteSet(DOMAIN s)
  BY FS_Interval
<1>2. \A i \in DOMAIN s : s[i] \in Written
  OBVIOUS
<1> QED
  BY <1>1, <1>2 DEF Written, Stored

\* The same of grants.
LEMMA QuantitiesOfGrants ==
  ASSUME NEW s \in Seq([extra : Extras, live : BOOLEAN])
  PROVE  IsFiniteSet(DOMAIN s) /\ \A i \in DOMAIN s : s[i].extra \in Nat
<1> DEFINE G == [extra : Extras, live : BOOLEAN]
<1>1. \A i \in DOMAIN s : s[i] \in G
  <2> HIDE DEF G
  <2>1. s \in Seq(G)
    BY DEF G
  <2> QED
    BY <2>1
<1>2. IsFiniteSet(DOMAIN s)
  BY FS_Interval
<1>3. \A i \in DOMAIN s : s[i].extra \in Nat
  BY <1>1, DprConstants
<1> QED
  BY <1>2, <1>3

\* The largest quantity of an entry, and what all requests but one may add.
LEMMA MostOfEntries ==
  /\ MostGood \in Nat /\ \A e \in Entries : e.good \in Nat /\ e.good <= MostGood
  /\ CapSlack \in Nat
<1> DEFINE G == {e.good : e \in Entries}
           f == [e \in Entries |-> e.good]
<1>1. f \in Surjection(Entries, G)
  BY DEF Surjection
<1>2. IsFiniteSet(G)
  BY <1>1, DprConstants, FS_Surjection
<1>3. G \in SUBSET Nat /\ G # {}
  BY DprConstants
<1> HIDE DEF G
<1>4. Max(G) \in G /\ \A n \in G : n <= Max(G)
  BY <1>2, <1>3, Largest
<1>5. MostGood \in Nat /\ \A e \in Entries : e.good \in Nat /\ e.good <= MostGood
  BY <1>3, <1>4 DEF G, MostGood
<1>6. CapSlack \in Nat
  BY <1>5, DprConstants, TimesAllButOne DEF CapSlack
<1> QED
  BY <1>5, <1>6

\* The facts that the sums of a state need.
LEMMA CapFacts ==
  ASSUME EntryInv
  PROVE  /\ IsFiniteSet(DOMAIN rows) /\ UnderCap \in SUBSET (DOMAIN rows) /\ IsFiniteSet(UnderCap)
         /\ \A i \in DOMAIN rows : RowGood[i] \in Nat
         /\ Uncorrected = Sum(RowGood, UnderCap) /\ Uncorrected \in Nat
         /\ EverGranted = Sum(GrantExtra, DOMAIN grants) /\ EverGranted \in Nat
         /\ IsFiniteSet(DOMAIN grants) /\ \A i \in DOMAIN grants : GrantExtra[i] \in Nat
         /\ \A h \in Requests : Due[h] \in Nat /\ Due[h] <= MostGood
         /\ Sum(Due, Requests) \in Nat
<1>1. IsFiniteSet(DOMAIN rows) /\ \A i \in DOMAIN rows : RowGood[i] \in Nat
  BY EntryFacts, QuantitiesOfRows DEF RowGood
<1>2. UnderCap \in SUBSET (DOMAIN rows) /\ IsFiniteSet(UnderCap)
  BY <1>1, FS_Subset DEF UnderCap
<1>3. Uncorrected = Sum(RowGood, UnderCap)
  BY SumOnSet DEF Uncorrected, Good, RowGood
<1>4. Uncorrected \in Nat
  BY <1>1, <1>2, <1>3, SumNat
<1>5. IsFiniteSet(DOMAIN grants) /\ \A i \in DOMAIN grants : GrantExtra[i] \in Nat
  BY EntryFacts, QuantitiesOfGrants DEF GrantExtra
<1>6. EverGranted = Sum(GrantExtra, DOMAIN grants)
  BY SumOnSet DEF EverGranted, Granted, GrantExtra
<1>7. EverGranted \in Nat
  BY <1>5, <1>6, SumNat
<1>8. \A h \in Requests : Due[h] \in Nat /\ Due[h] <= MostGood
  <2>1. \A h \in Requests : req[h].entry \in Entries
    BY EntryFacts DEF Held
  <2> QED
    BY <2>1, MostOfEntries DEF Due, Owes
<1>9. Sum(Due, Requests) \in Nat
  BY <1>8, DprConstants, SumNat
<1> QED
  BY <1>1, <1>2, <1>3, <1>4, <1>5, <1>6, <1>7, <1>8, <1>9

\* The same of the next state.
LEMMA CapFactsNext ==
  ASSUME EntryInv'
  PROVE  /\ IsFiniteSet(UnderCap') /\ \A i \in UnderCap' : RowGood'[i] \in Nat
         /\ Uncorrected' = Sum(RowGood', UnderCap') /\ Uncorrected' \in Nat
         /\ EverGranted' = Sum(GrantExtra', DOMAIN grants') /\ EverGranted' \in Nat
         /\ IsFiniteSet(DOMAIN grants') /\ \A i \in DOMAIN grants' : GrantExtra'[i] \in Nat
         /\ \A h \in Requests : Due'[h] \in Nat
         /\ Sum(Due', Requests) \in Nat
<1>0. /\ rows' \in Seq(Written) /\ grants' \in Seq([extra : Extras, live : BOOLEAN])
      /\ req' \in [Requests -> Held]
  BY DEF EntryInv, DprTypeOK, Written
<1>1. IsFiniteSet(DOMAIN rows') /\ \A i \in DOMAIN rows' : RowGood'[i] \in Nat
  BY <1>0, QuantitiesOfRows DEF RowGood
<1>2. UnderCap' \in SUBSET (DOMAIN rows') /\ IsFiniteSet(UnderCap')
  BY <1>1, FS_Subset DEF UnderCap
<1>3. Uncorrected' = Sum(RowGood', UnderCap')
  BY SumOnSet DEF Uncorrected, Good, RowGood
<1>4. Uncorrected' \in Nat
  BY <1>1, <1>2, <1>3, SumNat
<1>5. IsFiniteSet(DOMAIN grants') /\ \A i \in DOMAIN grants' : GrantExtra'[i] \in Nat
  BY <1>0, QuantitiesOfGrants DEF GrantExtra
<1>6. EverGranted' = Sum(GrantExtra', DOMAIN grants')
  BY SumOnSet DEF EverGranted, Granted, GrantExtra
<1>7. EverGranted' \in Nat
  BY <1>5, <1>6, SumNat
<1>8. \A h \in Requests : Due'[h] \in Nat
  <2>1. \A h \in Requests : req'[h].entry \in Entries
    BY <1>0 DEF Held
  <2> QED
    BY <2>1, MostOfEntries DEF Due, Owes
<1>9. Sum(Due', Requests) \in Nat
  BY <1>8, DprConstants, SumNat
<1> QED
  BY <1>1, <1>2, <1>3, <1>4, <1>5, <1>6, <1>7, <1>8, <1>9

\* A row that is added adds its quantity.
LEMMA MadeMore ==
  ASSUME EntryInv, EntryInv', NEW r \in Written, rows' = Append(rows, r), ~r.edited, "cap" \notin r.off
  PROVE  Uncorrected' = Uncorrected + r.entry.good
<1> DEFINE n == Len(rows) + 1
<1>1. /\ DOMAIN rows' = DOMAIN rows \cup {n} /\ n \notin DOMAIN rows
      /\ rows'[n] = r /\ \A i \in DOMAIN rows : rows'[i] = rows[i]
  BY EntryFacts, RowAdded
<1> HIDE DEF n
<1>2. n \notin UnderCap /\ UnderCap' = UnderCap \cup {n} /\ UnderCap' \ {n} = UnderCap /\ n \in UnderCap'
  BY <1>1 DEF UnderCap
<1>3. RowGood'[n] = r.entry.good /\ \A i \in UnderCap : RowGood'[i] = RowGood[i]
  BY <1>1 DEF RowGood, UnderCap
<1>4. /\ IsFiniteSet(UnderCap') /\ \A i \in UnderCap' : RowGood'[i] \in Nat
      /\ Uncorrected' = Sum(RowGood', UnderCap')
  BY CapFactsNext
<1>5. Sum(RowGood', UnderCap') = RowGood'[n] + Sum(RowGood', UnderCap)
  BY <1>2, <1>4, SumApart
<1>6. Sum(RowGood', UnderCap) = Sum(RowGood, UnderCap)
  BY <1>3, CapFacts, SumAgree
<1>7. Uncorrected \in Nat /\ Uncorrected = Sum(RowGood, UnderCap) /\ r.entry.good \in Nat
  BY CapFacts DEF Written, Stored
<1> QED
  BY <1>3, <1>4, <1>5, <1>6, <1>7

\* A row that was not held against the cap does not count.
LEMMA MadeAside ==
  ASSUME EntryInv, EntryInv', NEW r \in Written, rows' = Append(rows, r), "cap" \in r.off
  PROVE  Uncorrected' = Uncorrected
<1> DEFINE n == Len(rows) + 1
<1>1. /\ DOMAIN rows' = DOMAIN rows \cup {n} /\ n \notin DOMAIN rows
      /\ rows'[n] = r /\ \A i \in DOMAIN rows : rows'[i] = rows[i]
  BY EntryFacts, RowAdded
<1> HIDE DEF n
<1>2. UnderCap' = UnderCap
  BY <1>1 DEF UnderCap
<1>3. \A i \in UnderCap : RowGood'[i] = RowGood[i]
  BY <1>1 DEF RowGood, UnderCap
<1>4. Uncorrected' = Sum(RowGood', UnderCap)
  BY <1>2, CapFactsNext
<1>5. Sum(RowGood', UnderCap) = Sum(RowGood, UnderCap)
  BY <1>3, CapFacts, SumAgree
<1> QED
  BY <1>4, <1>5, CapFacts

\* A deletion leaves no more than there was.
LEMMA MadeLess ==
  ASSUME EntryInv, EntryInv', NEW ids, SoftDelete(ids)
  PROVE  Uncorrected' <= Uncorrected
<1>1. PICK at \in [DOMAIN rows' -> DOMAIN rows \ ids] :
        /\ \A n \in DOMAIN rows' : rows'[n] = rows[at[n]]
        /\ \A m, n \in DOMAIN rows' : m < n => at[m] < at[n]
  BY EntryFacts, Deleted
<1>2. /\ DOMAIN rows' \in SUBSET Int
      /\ \A n \in DOMAIN rows' : at[n] \in DOMAIN rows /\ at[n] \in Int
  <2>1. rows' \in Seq(Written)
    BY EntryFacts, Deleted
  <2>2. DOMAIN rows' = 1..Len(rows') /\ Len(rows') \in Nat /\ DOMAIN rows = 1..Len(rows)
    BY <2>1, EntryFacts
  <2> QED
    BY <1>1, <2>2
<1> DEFINE from == [n \in UnderCap' |-> at[n]]
           Im   == {from[n] : n \in UnderCap'}
<1>3. from \in [UnderCap' -> UnderCap] /\ Im \in SUBSET UnderCap
  BY <1>1, <1>2 DEF UnderCap
<1>4. ASSUME NEW m \in UnderCap', NEW n \in UnderCap', from[m] = from[n] PROVE m = n
  <2>1. m \in DOMAIN rows' /\ n \in DOMAIN rows' /\ at[m] = at[n]
    BY <1>4 DEF UnderCap
  <2>2. m < n \/ n < m \/ m = n
    BY <1>2, <2>1
  <2> QED
    BY <1>1, <1>2, <2>1, <2>2
<1>5. \A n \in UnderCap' : RowGood'[n] = RowGood[from[n]]
  BY <1>1, <1>2 DEF RowGood, UnderCap
<1>6. IsFiniteSet(UnderCap') /\ Uncorrected' = Sum(RowGood', UnderCap')
  BY CapFactsNext
<1>7. /\ IsFiniteSet(UnderCap) /\ \A i \in UnderCap : RowGood[i] \in Nat
      /\ Uncorrected = Sum(RowGood, UnderCap)
  BY CapFacts
<1> HIDE DEF from
<1>8. Sum(RowGood', UnderCap') = Sum(RowGood, Im)
  BY <1>3, <1>4, <1>5, <1>6, <1>7, SumRenamed
<1> HIDE DEF Im
<1>9. Sum(RowGood, Im) <= Sum(RowGood, UnderCap)
  BY <1>3, <1>7, SumSubset
<1> QED
  BY <1>6, <1>7, <1>8, <1>9

\* A corrected row counts no longer.
LEMMA MadeCorrected ==
  ASSUME EntryInv, EntryInv', NEW i \in DOMAIN rows, NEW g \in Corrected, Edit(i, g)
  PROVE  Uncorrected' <= Uncorrected
<1>1. rows[i] \in Written
  BY EntryFacts
<1>2. /\ DOMAIN rows' = DOMAIN rows /\ rows'[i].edited
      /\ \A k \in DOMAIN rows \ {i} : rows'[k] = rows[k]
  BY <1>1 DEF Edit, Written, Stored
<1>3. UnderCap' \in SUBSET UnderCap /\ \A k \in UnderCap' : RowGood'[k] = RowGood[k]
  BY <1>2 DEF UnderCap, RowGood
<1>4. /\ IsFiniteSet(UnderCap) /\ \A k \in UnderCap : RowGood[k] \in Nat
      /\ Uncorrected = Sum(RowGood, UnderCap)
  BY CapFacts
<1>5. IsFiniteSet(UnderCap') /\ Uncorrected' = Sum(RowGood', UnderCap')
  BY CapFactsNext
<1>6. Sum(RowGood', UnderCap') = Sum(RowGood, UnderCap')
  BY <1>3, <1>5, SumAgree
<1>7. Sum(RowGood, UnderCap') <= Sum(RowGood, UnderCap)
  BY <1>3, <1>4, SumSubset
<1> QED
  BY <1>4, <1>5, <1>6, <1>7

\* Grants only ever add up.
LEMMA GrantedMore ==
  ASSUME EntryInv, EntryInv',
         \/ UNCHANGED grants
         \/ \E h \in Requests : InsertGrant(h)
         \/ \E i \in DOMAIN grants : WithdrawGrant(i)
  PROVE  EverGranted' >= EverGranted
<1> DEFINE G == [extra : Extras, live : BOOLEAN]
<1>1. EverGranted \in Nat /\ EverGranted = Sum(GrantExtra, DOMAIN grants) /\ IsFiniteSet(DOMAIN grants)
  BY CapFacts
<1>2. /\ EverGranted' = Sum(GrantExtra', DOMAIN grants')
      /\ IsFiniteSet(DOMAIN grants') /\ \A i \in DOMAIN grants' : GrantExtra'[i] \in Nat
  BY CapFactsNext
<1>3. CASE UNCHANGED grants
  <2>1. EverGranted' = EverGranted
    BY <1>3 DEF EverGranted, Granted
  <2> QED
    BY <1>1, <2>1
<1>4. ASSUME NEW i \in DOMAIN grants, WithdrawGrant(i) PROVE EverGranted' >= EverGranted
  <2>1. DOMAIN grants' = DOMAIN grants /\ \A k \in DOMAIN grants : grants'[k].extra = grants[k].extra
    <3>1. \A k \in DOMAIN grants : grants[k] \in G
      <4>1. grants \in Seq(G)
        BY EntryFacts
      <4> HIDE DEF G
      <4> QED
        BY <4>1
    <3> QED
      BY <1>4, <3>1 DEF WithdrawGrant
  <2>2. \A k \in DOMAIN grants : GrantExtra'[k] = GrantExtra[k]
    BY <2>1 DEF GrantExtra
  <2>3. EverGranted' = EverGranted
    BY <1>1, <1>2, <2>1, <2>2, SumAgree
  <2> QED
    BY <1>1, <2>3
<1>5. ASSUME NEW h \in Requests, InsertGrant(h) PROVE EverGranted' >= EverGranted
  <2> DEFINE n == Len(grants) + 1
             g == [extra |-> req[h].extra, live |-> TRUE]
  <2>1. req[h].extra \in Extras /\ grants' = Append(grants, g)
    BY <1>5 DEF InsertGrant, EntryInv, ReqSound
  <2>2. g \in G /\ g.extra \in Nat
    BY <2>1, DprConstants
  <2>3. grants \in Seq(G)
    BY EntryFacts
  <2> HIDE DEF G, g
  <2>4. /\ DOMAIN grants' = DOMAIN grants \cup {n} /\ n \notin DOMAIN grants
        /\ grants'[n] = g /\ \A i \in DOMAIN grants : grants'[i] = grants[i]
    BY <2>1, <2>2, <2>3
  <2> HIDE DEF n
  <2>5. /\ DOMAIN grants' \ {n} = DOMAIN grants /\ n \in DOMAIN grants'
        /\ GrantExtra'[n] = g.extra /\ \A i \in DOMAIN grants : GrantExtra'[i] = GrantExtra[i]
    BY <2>4 DEF GrantExtra
  <2>6. Sum(GrantExtra', DOMAIN grants') = GrantExtra'[n] + Sum(GrantExtra', DOMAIN grants)
    BY <1>2, <2>5, SumApart
  <2>7. Sum(GrantExtra', DOMAIN grants) = Sum(GrantExtra, DOMAIN grants)
    BY <1>1, <2>5, SumAgree
  <2> QED
    BY <1>1, <1>2, <2>2, <2>5, <2>6, <2>7
<1> QED
  BY <1>3, <1>4, <1>5

\* One request owes another quantity than before.
LEMMA DueChanged ==
  ASSUME EntryInv, EntryInv', NEW h \in Requests, \A k \in Requests \ {h} : req'[k] = req[k]
  PROVE  Sum(Due', Requests) = Sum(Due, Requests) + (Due'[h] - Due[h])
<1>1. \A k \in Requests : k # h => Due'[k] = Due[k]
  BY DEF Due, Owes
<1>2. \A k \in Requests : Due[k] \in Nat /\ Due'[k] \in Nat
  BY CapFacts, CapFactsNext
<1>3. \A k \in Requests : Due[k] \in Int /\ Due'[k] \in Int
  BY <1>2
<1> QED
  BY <1>1, <1>3, DprConstants, SumChange

\* Neither production nor what requests owe grows, and grants do not shrink.
LEMMA CapKept ==
  ASSUME EntryInv, EntryInv', CapInv, EverGranted' >= EverGranted,
         Uncorrected' + Sum(Due', Requests) <= Uncorrected + Sum(Due, Requests)
  PROVE  CapInv'
<1>1. /\ Uncorrected \in Nat /\ EverGranted \in Nat /\ Sum(Due, Requests) \in Nat
      /\ PlanCap \in Nat /\ CapSlack \in Nat
  BY CapFacts, MostOfEntries, DprConstants
<1>2. Uncorrected' \in Nat /\ EverGranted' \in Nat /\ Sum(Due', Requests) \in Nat
  BY CapFactsNext
<1>3. CapSlack' = CapSlack
  BY DEF CapSlack, MostGood
<1> QED
  BY <1>1, <1>2, <1>3 DEF CapInv

\* A submit that passes: production and this entry are within the cap, and the
\* other requests owe no more than the slack.
LEMMA CapSubmit ==
  ASSUME EntryInv, EntryInv', CapInv, NEW h \in Requests, NEW e \in Entries,
         NEW answered \in BOOLEAN, Submit(h, e, answered)
  PROVE  CapInv'
<1>1. /\ Uncorrected \in Nat /\ EverGranted \in Nat /\ Sum(Due, Requests) \in Nat
      /\ PlanCap \in Nat /\ CapSlack \in Nat
      /\ Uncorrected + Sum(Due, Requests) <= PlanCap + EverGranted + CapSlack
  BY CapFacts, MostOfEntries, DprConstants DEF CapInv
<1>2. Uncorrected' = Uncorrected /\ EverGranted' = EverGranted /\ CapSlack' = CapSlack
  BY DEF Submit, Uncorrected, Good, UnderCap, EverGranted, Granted, CapSlack, MostGood
<1> DEFINE held == IF answered THEN {} ELSE {"cap"}
           owed == IF answered THEN e.good ELSE 0
<1>3. /\ req[h].step = "idle" /\ req[h] \in Held
      /\ req' = [req EXCEPT ![h].step = "last", ![h].entry = e, ![h].off = held]
  BY EntryFacts DEF Submit
<1>4. /\ Due[h] = 0 /\ Due'[h] = owed /\ e.good \in Nat /\ owed \in Nat
      /\ \A k \in Requests \ {h} : req'[k] = req[k]
  <2>1. req'[h].step = "last" /\ req'[h].entry = e /\ req'[h].off = held
    BY <1>3, EntryFacts DEF Held
  <2>2. ("cap" \in held) <=> ~answered
    OBVIOUS
  <2> HIDE DEF held
  <2>3. Due'[h] = owed
    BY <2>1, <2>2 DEF Due, Owes
  <2> QED
    BY <1>3, <2>3, EntryFacts, MostOfEntries DEF Due, Owes
<1> HIDE DEF held
<1>5. Sum(Due', Requests) = Sum(Due, Requests) + owed
  BY <1>1, <1>4, DueChanged
<1>6. CASE owed = 0
  BY <1>1, <1>2, <1>5, <1>6 DEF CapInv
<1>7. CASE owed > 0 /\ answered /\ owed = e.good
  <2>1. Sum(Due, Requests) <= CapSlack
    BY <1>4, CapFacts, MostOfEntries, DprConstants, AllButOne DEF CapSlack
  <2>2. AllGood + e.good <= PlanCap + Granted(LiveGrants)
    BY <1>7 DEF Submit, WithinCap
  <2>3. Uncorrected <= AllGood /\ AllGood \in Nat
    <3>1. AllGood = Sum(RowGood, DOMAIN rows)
      BY SumOnSet DEF AllGood, Good, RowGood
    <3> QED
      BY <3>1, CapFacts, SumSubset, SumNat
  <2>4. Granted(LiveGrants) <= EverGranted /\ Granted(LiveGrants) \in Nat
    <3>1. Granted(LiveGrants) = Sum(GrantExtra, LiveGrants)
      BY SumOnSet DEF Granted, GrantExtra
    <3>2. LiveGrants \in SUBSET (DOMAIN grants)
      BY DEF LiveGrants
    <3>3. IsFiniteSet(LiveGrants) /\ \A i \in LiveGrants : GrantExtra[i] \in Nat
      BY <3>2, CapFacts, FS_Subset
    <3>4. Sum(GrantExtra, LiveGrants) <= Sum(GrantExtra, DOMAIN grants)
      BY <3>2, CapFacts, SumSubset
    <3> QED
      BY <3>1, <3>3, <3>4, CapFacts, SumNat
  <2> QED
    BY <1>1, <1>2, <1>4, <1>5, <2>1, <2>2, <2>3, <2>4 DEF CapInv
<1> QED
  BY <1>4, <1>6, <1>7

\* An entry that is inserted is due no longer, if it ever was.
LEMMA CapInsert ==
  ASSUME EntryInv, EntryInv', CapInv, NEW h \in Requests, Insert(h)
  PROVE  CapInv'
<1>1. PICK r \in Written : /\ rows' = Append(rows, r) /\ ~r.edited /\ r.entry = req[h].entry
                           /\ r.off = req[h].off
  BY Genuine
<1> DEFINE added == IF "cap" \in r.off THEN 0 ELSE r.entry.good
<1>2. Uncorrected' = Uncorrected + added
  <2>1. CASE "cap" \in r.off
    BY <1>1, <2>1, MadeAside, CapFacts
  <2>2. CASE "cap" \notin r.off
    BY <1>1, <2>2, MadeMore
  <2> QED
    BY <2>1, <2>2
<1>3. req'[h].step = "replace" /\ (\A k \in Requests \ {h} : req'[k] = req[k]) /\ req[h].step = "insert"
  BY EntryFacts, RequestGoesOn DEF Insert, DprSteps
<1>4. Due[h] = added /\ Due'[h] = 0
  BY <1>1, <1>3 DEF Due, Owes
<1>5. Sum(Due', Requests) = Sum(Due, Requests) + (Due'[h] - Due[h])
  BY <1>3, DueChanged
<1>6. /\ Uncorrected \in Nat /\ Sum(Due, Requests) \in Nat /\ Due[h] \in Nat
  BY CapFacts
<1>7. EverGranted' >= EverGranted
  BY GrantedMore DEF Insert
<1> QED
  BY <1>2, <1>4, <1>5, <1>6, <1>7, CapKept

\* A request that was not held against the cap never will be.
LEMMA CapKeepsOff ==
  ASSUME EntryInv, NEW h \in Requests, ReqStep(h), ~Submits(h), ~CutOff(h), ~ReplaceAutofill(h),
         req'[h].step # "idle", "cap" \in req[h].off
  PROVE  "cap" \in req'[h].off
<1>0. req[h] \in Held /\ req \in [Requests -> Held]
  BY EntryFacts
<1>1. CASE ReadLast(h)
  BY <1>0, <1>1 DEF ReadLast
<1>2. CASE LookAtGap(h)
  <2> DEFINE s == Min(req[h].gaps)
  <2>1. req' = [req EXCEPT ![h].gaps = @ \ {s}] \/ req' = [req EXCEPT ![h].step = "fill"]
    BY <1>2 DEF LookAtGap, GoesOn
  <2> HIDE DEF s
  <2> QED
    BY <1>0, <2>1 DEF Held
<1>3. CASE FillGap(h)
  <2>1. PICK s : req' = [req EXCEPT ![h].step = "gap", ![h].gaps = @ \ {s}]
    BY <1>3 DEF FillGap
  <2> QED
    BY <1>0, <2>1 DEF Held
<1>4. CASE LeaveGaps(h)
  BY <1>0, <1>4 DEF LeaveGaps
<1>5. CASE Looks(h)
  <2>1. PICK answered \in BOOLEAN : LookForTwin(h, answered)
    BY <1>5 DEF Looks
  <2> DEFINE held == IF answered THEN req[h].off ELSE req[h].off \cup {"twin"}
  <2>2. ~Answers(h)
    BY <1>0, RequestAnswered
  <2>3. req' = [req EXCEPT ![h].step = "insert", ![h].off = held] /\ "cap" \in held
    BY <2>1, <2>2 DEF LookForTwin
  <2> HIDE DEF held
  <2> QED
    BY <1>0, <2>3 DEF Held
<1>6. CASE Insert(h)
  BY <1>0, <1>6 DEF Insert, GoesOn
<1> QED
  BY <1>1, <1>2, <1>3, <1>4, <1>5, <1>6 DEF ReqStep

\* No step of a request but Submit adds to what it owes.
LEMMA DueLess ==
  ASSUME EntryInv, EntryInv', NEW h \in Requests,
         \/ ReqStep(h) \/ InsertGrant(h) \/ \E x \in Extras : Allow(h, x)
         \/ Stops(h) /\ req[h].step = "grant",
         ~Submits(h)
  PROVE  Sum(Due', Requests) <= Sum(Due, Requests)
<1>1. \A k \in Requests \ {h} : req'[k] = req[k]
  <2>1. CASE ReqStep(h)
    BY <2>1, EntryReqStep
  <2>2. CASE InsertGrant(h)
    BY <2>2, EntryFacts, RequestAnswered DEF InsertGrant
  <2>3. CASE \E x \in Extras : Allow(h, x)
    BY <2>3, EntryFacts DEF Allow
  <2>4. CASE Stops(h)
    BY <2>4, EntryFacts, RequestAnswered DEF Stops
  <2> QED
    BY <2>1, <2>2, <2>3, <2>4
<1>2. Due'[h] <= Due[h]
  <2>0. Due[h] \in Nat
    BY CapFacts
  <2>1. CASE InsertGrant(h)
    <3>1. Due'[h] = 0
      BY <2>1, EntryFacts, RequestAnswered DEF InsertGrant, Due, Owes
    <3> QED
      BY <2>0, <3>1
  <2>2. CASE \E x \in Extras : Allow(h, x)
    <3>1. req'[h].step = "grant"
      BY <2>2, EntryFacts DEF Allow, Held
    <3>2. Due'[h] = 0
      BY <3>1 DEF Due, Owes
    <3> QED
      BY <2>0, <3>2
  <2>3. CASE ReqStep(h) /\ req'[h].step = "idle"
    <3>1. Due'[h] = 0
      BY <2>3 DEF Due, Owes
    <3> QED
      BY <2>0, <3>1
  <2>4. CASE ReqStep(h) /\ req'[h].step # "idle" /\ req[h].step \notin {"idle", "replace"}
    <3>0. ~CutOff(h) /\ ~ReplaceAutofill(h)
      BY <2>4, EntryFacts, RequestAnswered DEF CutOff, Stops, ReplaceAutofill
    <3>1. req[h].step \in {"last", "gap", "fill", "insert"}
      BY <2>4, <3>0 DEF ReqStep, Submits, Submit, ReadLast, LookAtGap, FillGap, LeaveGaps, Looks, LookForTwin, Insert
    <3>2. req'[h].entry = req[h].entry
      BY <2>4, EntryReqStep
    <3>3. "cap" \in req[h].off => "cap" \in req'[h].off
      BY <2>4, <3>0, CapKeepsOff
    <3>4. Owes(h)' => Owes(h)
      BY <3>1, <3>3 DEF Owes
    <3>5. Due'[h] \in {0, Due[h]}
      BY <3>2, <3>4 DEF Due
    <3> QED
      BY <2>0, <3>5
  <2>5. CASE ReqStep(h) /\ req[h].step \in {"idle", "replace"} /\ req'[h].step # "idle"
    <3>1. ReplaceAutofill(h) \/ CutOff(h)
      BY <2>5 DEF ReqStep, ReadLast, LookAtGap, FillGap, LeaveGaps, Looks, LookForTwin, Insert
    <3> QED
      BY <2>5, <3>1, EntryFacts, RequestAnswered DEF ReplaceAutofill, CutOff, Stops
  <2>6. CASE Stops(h)
    <3>1. Due'[h] = 0
      BY <2>6, EntryFacts, RequestAnswered DEF Stops, Due, Owes
    <3> QED
      BY <2>0, <3>1
  <2> QED
    BY <2>1, <2>2, <2>3, <2>4, <2>5, <2>6
<1>3. Sum(Due', Requests) = Sum(Due, Requests) + (Due'[h] - Due[h])
  BY <1>1, DueChanged
<1> QED
  BY <1>2, <1>3, CapFacts, CapFactsNext

\* A placeholder adds nothing, deletions and corrections take away.
LEMMA MadeNoMore ==
  ASSUME EntryInv, EntryInv',
         \/ UNCHANGED rows
         \/ \E h \in Requests : FillGap(h)
         \/ \E ids : SoftDelete(ids)
         \/ \E i \in DOMAIN rows, g \in Corrected : Edit(i, g)
  PROVE  Uncorrected' <= Uncorrected
<1>1. CASE UNCHANGED rows
  <2>1. Uncorrected' = Uncorrected
    BY <1>1 DEF Uncorrected, Good, UnderCap
  <2> QED
    BY <2>1, CapFacts
<1>2. ASSUME NEW h \in Requests, FillGap(h) PROVE Uncorrected' <= Uncorrected
  <2>1. PICK r \in Written : rows' = Append(rows, r) /\ ~r.edited /\ r.off = {} /\ r.entry.good = 0
    BY <1>2, Placeholder
  <2>2. Uncorrected' = Uncorrected + r.entry.good
    BY <2>1, MadeMore
  <2> QED
    BY <2>1, <2>2, CapFacts
<1> QED
  BY <1>1, <1>2, MadeLess, MadeCorrected

\* Every step keeps CapInv.
LEMMA CapNext == EntryInv /\ CapInv /\ [DprNext]_dprVars => CapInv'
<1> SUFFICES ASSUME EntryInv, CapInv, [DprNext]_dprVars PROVE CapInv'
  OBVIOUS
<1>1. EntryInv'
  BY EntryNext
<1>2. ASSUME Uncorrected' <= Uncorrected, Sum(Due', Requests) <= Sum(Due, Requests), EverGranted' >= EverGranted
      PROVE  CapInv'
  <2>1. Uncorrected' + Sum(Due', Requests) <= Uncorrected + Sum(Due, Requests)
    BY <1>1, <1>2, CapFacts, CapFactsNext
  <2> QED
    BY <1>1, <1>2, <2>1, CapKept
<1>3. ASSUME NEW h \in Requests, ReqStep(h) PROVE CapInv'
  <2>1. CASE Insert(h)
    BY <1>1, <2>1, CapInsert
  <2>2. CASE Submits(h)
    BY <1>1, <2>2, CapSubmit DEF Submits
  <2>3. CASE ~Insert(h) /\ ~Submits(h)
    <3>1. Sum(Due', Requests) <= Sum(Due, Requests)
      BY <1>1, <1>3, <2>3, DueLess
    <3>2. EverGranted' >= EverGranted
      BY <1>1, <1>3, EntryReqStep, GrantedMore
    <3>3. UNCHANGED rows \/ FillGap(h) \/ \E ids : SoftDelete(ids)
      BY <1>3, <2>3 DEF ReqStep, ReadLast, LookAtGap, LeaveGaps, Looks, LookForTwin, ReplaceAutofill, CutOff, Stops
    <3>4. Uncorrected' <= Uncorrected
      BY <1>1, <3>3, MadeNoMore
    <3> QED
      BY <1>2, <3>1, <3>2, <3>4
  <2> QED
    BY <2>1, <2>2, <2>3
<1>4. ASSUME NEW h \in Requests,
             \/ InsertGrant(h) \/ \E x \in Extras : Allow(h, x)
             \/ Stops(h) /\ req[h].step = "grant"
      PROVE  CapInv'
  <2>1. UNCHANGED rows /\ ~Submits(h)
    <3>1. CASE InsertGrant(h)
      BY <3>1 DEF InsertGrant, Submits, Submit
    <3>0. CASE Stops(h) /\ req[h].step = "grant"
      BY <3>0 DEF Stops, Submits, Submit
    <3>2. CASE \E x \in Extras : Allow(h, x)
      <4>1. UNCHANGED rows /\ req'[h].step = "grant"
        BY <3>2, EntryFacts DEF Allow, Held
      <4>2. ASSUME NEW e \in Entries, NEW answered \in BOOLEAN, Submit(h, e, answered) PROVE FALSE
        <5>1. req'[h].step = "last"
          BY <4>2, EntryFacts DEF Submit, Held
        <5> QED
          BY <4>1, <5>1
      <4> QED
        BY <4>1, <4>2 DEF Submits
    <3> QED
      BY <1>4, <3>0, <3>1, <3>2
  <2>2. Sum(Due', Requests) <= Sum(Due, Requests)
    BY <1>1, <1>4, <2>1, DueLess
  <2>3. EverGranted' >= EverGranted
    BY <1>1, <1>4, GrantedMore DEF Allow, Stops
  <2> QED
    BY <1>1, <1>2, <2>1, <2>2, <2>3, MadeNoMore
<1>5. ASSUME UNCHANGED req, UNCHANGED grants \/ \E i \in DOMAIN grants : WithdrawGrant(i),
             UNCHANGED rows \/ (\E ids : SoftDelete(ids)) \/ (\E i \in DOMAIN rows, g \in Corrected : Edit(i, g))
      PROVE  CapInv'
  <2>1. Due' = Due
    BY <1>5 DEF Due, Owes
  <2>2. Sum(Due', Requests) <= Sum(Due, Requests)
    BY <2>1, CapFacts
  <2>3. EverGranted' >= EverGranted
    BY <1>1, <1>5, GrantedMore
  <2>4. Uncorrected' <= Uncorrected
    BY <1>1, <1>5, MadeNoMore
  <2> QED
    BY <1>2, <2>2, <2>3, <2>4
<1>6. ASSUME NEW i \in DOMAIN rows, Delete(i) PROVE CapInv'
  BY <1>5, <1>6 DEF Delete
<1>7. ASSUME NEW i \in DOMAIN rows, NEW g \in Corrected, Edit(i, g) PROVE CapInv'
  <2>1. UNCHANGED <<req, grants>>
    BY <1>7 DEF Edit
  <2> QED
    BY <1>5, <1>7, <2>1
<1>8. ASSUME NEW i \in DOMAIN grants, WithdrawGrant(i) PROVE CapInv'
  <2>1. UNCHANGED <<req, rows>>
    BY <1>8 DEF WithdrawGrant
  <2> QED
    BY <1>5, <1>8, <2>1
<1>9. CASE TwoMinutesPass \/ TwentySecondsPass \/ UNCHANGED dprVars
  BY <1>5, <1>9 DEF TwoMinutesPass, TwentySecondsPass, dprVars
<1> QED
  BY <1>3, <1>4, <1>6, <1>7, <1>8, <1>9 DEF DprNext, ReqStep, Submits, Looks, CutOff

\* The over-production cap (8042-8048): passed by no more than the entries of
\* the requests that were under way with the one that reached it.
THEOREM CapIsBounded == DprSpec => []CapBounded
<1>1. DprInit => CapInv
  <2> SUFFICES ASSUME DprInit PROVE CapInv
    OBVIOUS
  <2>1. EntryInv
    BY EntryInit
  <2>2. UnderCap = {}
    BY DEF DprInit, UnderCap
  <2>3. Uncorrected = 0
    BY <2>1, <2>2, CapFacts, SumFirst
  <2>4. PICK h \in Requests : TRUE
    BY DprConstants
  <2>5. Due[h] = 0
    BY NoRequestType DEF DprInit, Due, Owes
  <2>6. Sum(Due, Requests) <= CapSlack
    BY <2>1, <2>5, CapFacts, MostOfEntries, DprConstants, AllButOne DEF CapSlack
  <2> QED
    BY <2>1, <2>3, <2>6, CapFacts, MostOfEntries, DprConstants DEF CapInv
<1>2. EntryInv /\ CapInv => CapBounded
  <2> SUFFICES ASSUME EntryInv, CapInv PROVE CapBounded
    OBVIOUS
  <2>1. Uncorrected <= PlanCap + EverGranted + CapSlack
    BY CapFacts, MostOfEntries, DprConstants DEF CapInv
  <2> QED
    BY <2>1 DEF CapBounded, Uncorrected, UnderCap, EverGranted, CapSlack, MostGood
<1> QED
  BY <1>1, <1>2, EntryInit, EntryNext, CapNext, PTL DEF DprSpec
=============================================================================
