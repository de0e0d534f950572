--------------------------- MODULE BackOfficeProofs ---------------------------
(***************************************************************************)
(* Proofs about MCBackOffice: RefundsAddUp, SellOutEndsPromotion,          *)
(* SettingsFit, AssistantKeepsItsWord, CatalogIsSellable and               *)
(* ProposalsAreFair, whatever the number of refunds, lines, proposals,     *)
(* workers, variants, combinations, providers, packages, requests, plans,  *)
(* codes and orders.                                                       *)
(*                                                                         *)
(* Each component has an invariant of its own, named for it (PromoInv,     *)
(* ModulesInv ...), with the same lemmas: its start, its step, its         *)
(* stutter, and what it means for the property.  A behaviour moves one of  *)
(* them, and the others keep theirs.                                       *)
(***************************************************************************)
EXTENDS MCBackOffice, SequenceTheorems, FiniteSetTheorems, WellFoundedInduction, TLAPS

-----------------------------------------------------------------------------
(* Sequences: their elements, one more at the end, one of them changed; the least of a set *)

LEMMA ElementsOf ==
    ASSUME NEW X, NEW s \in Seq(X)
    PROVE  Len(s) \in Nat /\ DOMAIN s = 1..Len(s) /\ \A i \in 1..Len(s) : s[i] \in X
BY LenProperties, ElementOfSeq

LEMMA SequenceOf ==
    ASSUME NEW X, NEW n \in Nat, NEW s \in [1..n -> X]
    PROVE  s \in Seq(X) /\ Len(s) = n
<1>1. s \in Seq(X)
  BY SeqDef
<1>2. DOMAIN s = 1..n
  OBVIOUS
<1> QED
  BY <1>1, <1>2, LenProperties

LEMMA OneMore ==
    ASSUME NEW X, NEW s \in Seq(X), NEW x \in X
    PROVE  /\ Append(s, x) \in Seq(X) /\ Len(Append(s, x)) = Len(s) + 1
           /\ \A i \in 1..Len(s) : Append(s, x)[i] = s[i]
           /\ Append(s, x)[Len(s) + 1] = x
BY AppendProperties

LEMMA OneChanged ==
    ASSUME NEW X, NEW s \in Seq(X), NEW i \in 1..Len(s), NEW x \in X
    PROVE  /\ [s EXCEPT ![i] = x] \in Seq(X) /\ Len([s EXCEPT ![i] = x]) = Len(s)
           /\ \A j \in 1..Len(s) : [s EXCEPT ![i] = x][j] = IF j = i THEN x ELSE s[j]
BY ExceptSeq, ElementsOf

\* Every set of numbers with a member has a least one.
LEMMA LeastOf ==
    ASSUME NEW X \in SUBSET Nat, X # {}
    PROVE  /\ (CHOOSE x \in X : \A y \in X : x <= y) \in X
           /\ \A y \in X : (CHOOSE x \in X : \A z \in X : x <= z) <= y
<1> DEFINE R == OpToRel(<, Nat)
<1>1. \A x, y \in Nat : y < x => <<y, x>> \in R
  BY DEF OpToRel
<1>2. IsWellFoundedOn(R, Nat)
  BY NatLessThanWellFounded
<1> HIDE DEF R
<1>3. PICK x \in X : \A y \in X : ~(<<y, x>> \in R)
  BY <1>2, WFMin
<1>4. ASSUME NEW y \in X
      PROVE  x <= y
  <2>1. x \in Nat /\ y \in Nat
    BY <1>3
  <2>2. ~(y < x)
    BY <1>1, <1>3, <2>1, Zenon
  <2> QED
    BY <2>1, <2>2
<1>5. \E z \in X : \A y \in X : z <= y
  BY <1>4
<1> QED
  BY <1>5

-----------------------------------------------------------------------------
(* Sums: what MapThenSumSet is, for every finite set.  The theorems of the library about induction *)
(* take an operator; here a set takes its place, whose smallest counterexample is looked at.        *)

LEMMA MinimalSubset ==
    ASSUME NEW X, IsFiniteSet(X), NEW Sets \in SUBSET (SUBSET X), Sets # {}
    PROVE  \E s \in Sets : \A x \in s : s \ {x} \notin Sets
<1>1. IsWellFoundedOn(StrictSubsetOrdering(X), SUBSET X)
  BY FS_StrictSubsetOrderingWellFounded, FS_FiniteSubsetsOfFinite, Zenon
<1>2. PICK s \in Sets : \A t \in Sets : ~(<<t, s>> \in StrictSubsetOrdering(X))
  BY <1>1, WFMin
<1>3. ASSUME NEW x \in s
      PROVE  <<s \ {x}, s>> \in StrictSubsetOrdering(X)
  BY DEF StrictSubsetOrdering
<1> QED
  BY <1>2, <1>3, Zenon

\* The member a sum takes first, and what MapThenSumSet chooses: the sums of all subsets at once.
One(X) == CHOOSE x \in X : TRUE
Body(f, X, g) == [s \in SUBSET X |-> IF s = {} THEN 0 ELSE f[One(s)] + g[s \ {One(s)}]]

LEMMA SumIs ==
    ASSUME NEW f, NEW X
    PROVE  Sum(f, X) = (CHOOSE g : g = Body(f, X, g))[X]
BY DEF Sum, MapThenSumSet, MapThenFoldSet, Body, One

LEMMA OneIn == ASSUME NEW X, X # {} PROVE One(X) \in X
BY DEF One

\* There is such a function: its values are found from the small subsets to the large ones.
LEMMA SumsExist ==
    ASSUME NEW f, NEW X, IsFiniteSet(X)
    PROVE  \E g : g = Body(f, X, g)
<1> DEFINE Total(s, h) == IF s = {} THEN 0 ELSE f[One(s)] + h[s \ {One(s)}]
           Small(n) == {s \in SUBSET X : Cardinality(s) <= n}
           Bad == {n \in Nat : ~\E h : h = [s \in Small(n) |-> Total(s, h)]}
<1>1. \A s \in SUBSET X : IsFiniteSet(s) /\ Cardinality(s) \in Nat
  BY FS_Subset, FS_CardinalityType
<1>2. Bad = {}
  <2> SUFFICES ASSUME Bad # {}
               PROVE  FALSE
    BY Zenon
  <2>1. PICK n \in Bad : \A m \in Bad : n <= m
    BY LeastOf, Zenon
  <2>2. n # 0
    <3> DEFINE h == [s \in Small(0) |-> 0]
    <3>1. \A s \in Small(0) : s = {}
      BY <1>1, FS_EmptySet
    <3>2. h = [s \in Small(0) |-> Total(s, h)]
      BY <3>1
    <3> QED
      BY <3>2, Zenon
  <2>3. n - 1 \in Nat /\ n - 1 \notin Bad
    <3>1. n \in Nat
      BY <2>1
    <3>2. n - 1 \in Nat /\ ~(n <= n - 1)
      BY <2>2, <3>1
    <3> HIDE DEF Bad
    <3> QED
      BY <2>1, <3>2
  <2>4. PICK h : h = [s \in Small(n - 1) |-> Total(s, h)]
    BY <2>3, Zenon
  <2> DEFINE k == [s \in Small(n) |-> Total(s, h)]
  <2>5. ASSUME NEW s \in Small(n), s # {}
        PROVE  h[s \ {One(s)}] = k[s \ {One(s)}]
    <3>1. One(s) \in s /\ IsFiniteSet(s) /\ Cardinality(s) \in Nat
      BY <1>1, <2>5, OneIn
    <3>2. Cardinality(s \ {One(s)}) = Cardinality(s) - 1
      BY <3>1, FS_RemoveElement, Zenon
    <3>3. s \ {One(s)} \in Small(n - 1) /\ s \ {One(s)} \in Small(n)
      BY <2>3, <3>1, <3>2
    <3> QED
      BY <2>4, <3>3, Zenon
  <2>6. \A s \in Small(n) : Total(s, h) = Total(s, k)
    BY <2>5, Zenon
  <2>7. k = [s \in Small(n) |-> Total(s, k)]
    BY <2>6, Zenon
  <2> HIDE DEF k
  <2> QED
    BY <2>1, <2>7, Zenon
<1>3. PICK h : h = [s \in Small(Cardinality(X)) |-> Total(s, h)]
  BY <1>2, FS_CardinalityType, Zenon
<1>4. Small(Cardinality(X)) = SUBSET X
  BY FS_Subset
<1>5. h = Body(f, X, h)
  BY <1>3, <1>4, Zenon DEF Body
<1> QED
  BY <1>5

\* And only one.
LEMMA SumsAgree ==
    ASSUME NEW f, NEW X, IsFiniteSet(X), NEW g, g = Body(f, X, g), NEW Y \in SUBSET X,
           NEW h, h = Body(f, Y, h)
    PROVE  \A s \in SUBSET Y : g[s] = h[s]
<1> DEFINE Bad == {s \in SUBSET Y : g[s] # h[s]}
<1> SUFFICES ASSUME Bad # {}
             PROVE  FALSE
  OBVIOUS
<1>1. PICK s \in Bad : \A x \in s : s \ {x} \notin Bad
  BY MinimalSubset, FS_Subset, Zenon
<1>2. \A t \in SUBSET Y : /\ g[t] = IF t = {} THEN 0 ELSE f[One(t)] + g[t \ {One(t)}]
                          /\ h[t] = IF t = {} THEN 0 ELSE f[One(t)] + h[t \ {One(t)}]
  BY Zenon DEF Body
<1>3. s # {}
  BY <1>1, <1>2, Zenon
<1>4. g[s \ {One(s)}] = h[s \ {One(s)}]
  BY <1>1, <1>3, OneIn
<1> QED
  BY <1>1, <1>2, <1>3, <1>4

LEMMA SumStep ==
    ASSUME NEW f, NEW X, IsFiniteSet(X)
    PROVE  Sum(f, X) = IF X = {} THEN 0 ELSE f[One(X)] + Sum(f, X \ {One(X)})
<1>1. PICK g : g = (CHOOSE h : h = Body(f, X, h)) /\ g = Body(f, X, g)
  BY SumsExist
<1>2. Sum(f, X) = g[X]
  BY <1>1, SumIs, Zenon
<1>3. CASE X = {}
  BY <1>1, <1>2, <1>3 DEF Body
<1>4. CASE X # {}
  <2> DEFINE Y == X \ {One(X)}
  <2>1. Y \in SUBSET X /\ IsFiniteSet(Y)
    BY FS_Subset
  <2>2. PICK h : h = (CHOOSE k : k = Body(f, Y, k)) /\ h = Body(f, Y, h)
    BY <2>1, SumsExist
  <2>3. Sum(f, Y) = h[Y]
    BY <2>2, SumIs, Zenon
  <2> HIDE DEF Y
  <2>4. g[Y] = h[Y]
    <3>1. \A s \in SUBSET Y : g[s] = h[s]
      <4>1. g = Body(f, X, g) /\ h = Body(f, Y, h)
        BY <1>1, <2>2
      <4> QED
        BY ONLY <2>1, <4>1, IsFiniteSet(X), SumsAgree
    <3> QED
      BY <3>1
  <2>5. g[X] = f[One(X)] + g[Y]
    BY <1>1, <1>4, Zenon DEF Body, Y
  <2> QED
    BY <1>2, <1>4, <2>3, <2>4, <2>5 DEF Y
<1> QED
  BY <1>3, <1>4

LEMMA SumEmpty == \A f : Sum(f, {}) = 0
BY SumStep, FS_EmptySet, Zenon

LEMMA SumIsInt ==
    ASSUME NEW X, IsFiniteSet(X), NEW f, \A x \in X : f[x] \in Int
    PROVE  Sum(f, X) \in Int
<1> DEFINE Bad == {s \in SUBSET X : Sum(f, s) \notin Int}
<1> SUFFICES ASSUME Bad # {}
             PROVE  FALSE
  OBVIOUS
<1>1. PICK s \in Bad : \A x \in s : s \ {x} \notin Bad
  BY MinimalSubset, Zenon
<1>2. IsFiniteSet(s) /\ s # {}
  <2>1. IsFiniteSet(s)
    BY <1>1, FS_Subset
  <2>2. Sum(f, {}) \in Int
    BY SumEmpty
  <2> QED
    BY <1>1, <2>1, <2>2
<1>3. One(s) \in s /\ Sum(f, s \ {One(s)}) \in Int
  BY <1>1, <1>2, OneIn
<1> QED
  BY <1>1, <1>2, <1>3, SumStep

\* Whichever member is taken.
LEMMA SumOne ==
    ASSUME NEW X, IsFiniteSet(X), NEW f, \A x \in X : f[x] \in Int
    PROVE  \A x \in X : /\ Sum(f, X) = f[x] + Sum(f, X \ {x})
                       /\ Sum(f, X \ {x}) \in Int /\ f[x] \in Int
<1> DEFINE Bad == {s \in SUBSET X : \E x \in s : Sum(f, s) # f[x] + Sum(f, s \ {x})}
<1>1. \A s \in SUBSET X : IsFiniteSet(s) /\ Sum(f, s) \in Int
  BY FS_Subset, SumIsInt, Zenon
<1>2. Bad = {}
  <2> SUFFICES ASSUME Bad # {}
               PROVE  FALSE
    OBVIOUS
  <2>1. PICK s \in Bad : \A x \in s : s \ {x} \notin Bad
    BY MinimalSubset, Zenon
  <2>2. PICK x \in s : Sum(f, s) # f[x] + Sum(f, s \ {x})
    BY <2>1
  <2>3. s \in SUBSET X
    BY <2>1
  <2> DEFINE y == One(s)
  <2>4. y \in s /\ Sum(f, s) = f[y] + Sum(f, s \ {y})
    BY <1>1, <2>2, <2>3, OneIn, SumStep
  <2> HIDE DEF y
  <2>5. x # y
    BY <2>2, <2>4, Zenon
  <2>6. s \ {x} \in SUBSET X /\ s \ {y} \in SUBSET X
    BY <2>3
  <2>7. Sum(f, s \ {x}) = f[y] + Sum(f, (s \ {x}) \ {y})
    BY <2>1, <2>4, <2>5, <2>6, Zenon
  <2>8. Sum(f, s \ {y}) = f[x] + Sum(f, (s \ {y}) \ {x})
    BY <2>1, <2>2, <2>4, <2>5, <2>6, Zenon
  <2>9. (s \ {x}) \ {y} = (s \ {y}) \ {x}
    OBVIOUS
  <2> DEFINE z == Sum(f, (s \ {y}) \ {x})
  <2>10. f[x] \in Int /\ f[y] \in Int /\ z \in Int
    BY <1>1, <2>3, <2>4, <2>6
  <2>11. Sum(f, s) = f[y] + (f[x] + z) /\ Sum(f, s \ {x}) = f[y] + z
    BY <2>4, <2>7, <2>8, <2>9, Zenon
  <2> HIDE DEF z
  <2> QED
    BY <2>2, <2>10, <2>11
<1>3. ASSUME NEW x \in X
      PROVE  Sum(f, X) = f[x] + Sum(f, X \ {x})
  BY <1>2, Zenon
<1>4. \A x \in X : Sum(f, X \ {x}) \in Int
  BY <1>1
<1> QED
  BY <1>3, <1>4

LEMMA SumSame ==
    ASSUME NEW X, IsFiniteSet(X), NEW f, NEW g, \A x \in X : f[x] = g[x]
    PROVE  Sum(f, X) = Sum(g, X)
<1> DEFINE Bad == {s \in SUBSET X : Sum(f, s) # Sum(g, s)}
<1> SUFFICES ASSUME Bad # {}
             PROVE  FALSE
  OBVIOUS
<1>1. PICK s \in Bad : \A x \in s : s \ {x} \notin Bad
  BY MinimalSubset, Zenon
<1>2. IsFiniteSet(s) /\ s # {}
  BY <1>1, FS_Subset, SumEmpty, Zenon
<1>3. One(s) \in s
  BY <1>2, OneIn
<1>4. Sum(f, s \ {One(s)}) = Sum(g, s \ {One(s)})
  BY <1>1, <1>3
<1>5. f[One(s)] = g[One(s)]
  BY <1>1, <1>3
<1>6. Sum(f, s) = f[One(s)] + Sum(f, s \ {One(s)}) /\ Sum(g, s) = g[One(s)] + Sum(g, s \ {One(s)})
  BY <1>2, SumStep
<1> QED
  BY <1>1, <1>4, <1>5, <1>6

LEMMA SumAdd ==
    ASSUME NEW X, IsFiniteSet(X), NEW f, NEW x, x \notin X, \A y \in X \cup {x} : f[y] \in Int
    PROVE  Sum(f, X \cup {x}) = f[x] + Sum(f, X) /\ Sum(f, X) \in Int
<1>1. IsFiniteSet(X \cup {x}) /\ (X \cup {x}) \ {x} = X /\ x \in X \cup {x}
  BY FS_AddElement
<1> QED
  BY <1>1, SumOne

\* What is added to one of the members is added to the sum.
LEMMA SumChanged ==
    ASSUME NEW X, IsFiniteSet(X), NEW f, \A y \in X : f[y] \in Int,
           NEW x \in X, NEW g, g[x] \in Int, \A y \in X \ {x} : g[y] = f[y]
    PROVE  Sum(g, X) = Sum(f, X) - f[x] + g[x] /\ Sum(f, X) \in Int
<1>1. Sum(f, X) = f[x] + Sum(f, X \ {x}) /\ Sum(f, X \ {x}) \in Int /\ f[x] \in Int
  BY SumOne
<1>2. \A y \in X : g[y] \in Int
  OBVIOUS
<1>3. Sum(g, X) = g[x] + Sum(g, X \ {x})
  BY <1>2, SumOne
<1>4. Sum(g, X \ {x}) = Sum(f, X \ {x})
  BY FS_Subset, SumSame
<1> QED
  BY <1>1, <1>3, <1>4

\* More members, a larger sum.
LEMMA SumGrows ==
    ASSUME NEW X, IsFiniteSet(X), NEW f, \A x \in X : f[x] \in Nat
    PROVE  Sum(f, X) \in Nat /\ \A Y \in SUBSET X : Sum(f, Y) \in Nat /\ Sum(f, Y) <= Sum(f, X)
<1>1. ASSUME NEW Y \in SUBSET X
      PROVE  Sum(f, Y) \in Nat
  <2> DEFINE Bad == {s \in SUBSET Y : Sum(f, s) \notin Nat}
  <2> SUFFICES ASSUME Bad # {}
               PROVE  FALSE
    OBVIOUS
  <2>0. IsFiniteSet(Y)
    BY FS_Subset
  <2>1. PICK s \in Bad : \A x \in s : s \ {x} \notin Bad
    BY <2>0, MinimalSubset, Zenon
  <2>2. IsFiniteSet(s) /\ s # {}
    <3>1. IsFiniteSet(s)
      BY <2>0, <2>1, FS_Subset
    <3>2. Sum(f, {}) \in Nat
      BY SumEmpty
    <3> QED
      BY <2>1, <3>1, <3>2
  <2>3. One(s) \in s /\ Sum(f, s \ {One(s)}) \in Nat
    BY <2>1, <2>2, OneIn
  <2>4. f[One(s)] \in Nat
    BY <2>1, <2>3
  <2>5. Sum(f, s) = f[One(s)] + Sum(f, s \ {One(s)})
    BY <2>2, SumStep
  <2> QED
    BY <2>1, <2>3, <2>4, <2>5
<1> DEFINE Bad == {s \in SUBSET X : \E Y \in SUBSET s : ~(Sum(f, Y) <= Sum(f, s))}
<1>2. Bad = {}
  <2> SUFFICES ASSUME Bad # {}
               PROVE  FALSE
    OBVIOUS
  <2>1. PICK s \in Bad : \A x \in s : s \ {x} \notin Bad
    <3>1. Bad \in SUBSET (SUBSET X)
      OBVIOUS
    <3> HIDE DEF Bad
    <3> QED
      BY <3>1, MinimalSubset, Zenon
  <2>2. PICK Y \in SUBSET s : ~(Sum(f, Y) <= Sum(f, s))
    BY <2>1
  <2>3. s \in SUBSET X /\ Sum(f, s) \in Nat /\ IsFiniteSet(s)
    BY <1>1, <2>1, FS_Subset
  <2>4. PICK x \in s : x \notin Y
    BY <2>2, <2>3
  <2>5. Sum(f, Y) <= Sum(f, s \ {x})
    BY <2>1, <2>4
  <2>6. Sum(f, s) = f[x] + Sum(f, s \ {x})
    BY <2>3, SumOne
  <2>7. f[x] \in Nat /\ Sum(f, s \ {x}) \in Nat /\ Sum(f, Y) \in Nat
    BY <1>1, <2>3
  <2> QED
    BY <2>2, <2>5, <2>6, <2>7
<1> QED
  BY <1>1, <1>2

\* A sum of sums.
LEMMA SumLinear ==
    ASSUME NEW X, IsFiniteSet(X), NEW a \in Int, NEW f, NEW g, NEW h,
           \A x \in X : f[x] \in Int /\ g[x] \in Int /\ h[x] = a * f[x] + g[x]
    PROVE  Sum(h, X) = a * Sum(f, X) + Sum(g, X)
<1> DEFINE Bad == {s \in SUBSET X : Sum(h, s) # a * Sum(f, s) + Sum(g, s)}
<1> SUFFICES ASSUME Bad # {}
             PROVE  FALSE
  OBVIOUS
<1>1. PICK s \in Bad : \A x \in s : s \ {x} \notin Bad
  BY MinimalSubset, Zenon
<1>2. IsFiniteSet(s) /\ s # {}
  <2>1. IsFiniteSet(s)
    BY <1>1, FS_Subset
  <2>2. Sum(h, {}) = 0 /\ a * Sum(f, {}) + Sum(g, {}) = 0
    BY SumEmpty
  <2> QED
    BY <1>1, <2>1, <2>2
<1>3. PICK x : x = One(s)
  OBVIOUS
<1>4. x \in s /\ x \in X
  BY <1>1, <1>2, <1>3, OneIn
<1>5. Sum(h, s \ {x}) = a * Sum(f, s \ {x}) + Sum(g, s \ {x})
  BY <1>1, <1>4
<1>6. /\ Sum(f, s) = f[x] + Sum(f, s \ {x}) /\ Sum(g, s) = g[x] + Sum(g, s \ {x})
      /\ Sum(h, s) = h[x] + Sum(h, s \ {x})
  BY <1>2, <1>3, SumStep
<1>7. IsFiniteSet(s \ {x}) /\ \A y \in s \ {x} : f[y] \in Int /\ g[y] \in Int
  BY <1>1, <1>2, FS_RemoveElement
<1>8. PICK p, q \in Int : p = Sum(f, s \ {x}) /\ q = Sum(g, s \ {x})
  BY <1>7, SumIsInt
<1>9. PICK u, v \in Int : u = f[x] /\ v = g[x] /\ h[x] = a * u + v
  BY <1>4
<1>10. Sum(h, s) = (a * u + v) + (a * p + q) /\ Sum(f, s) = u + p /\ Sum(g, s) = v + q
  BY <1>5, <1>6, <1>8, <1>9
<1>11. (a * u + v) + (a * p + q) = a * (u + p) + (v + q)
  OBVIOUS
<1> QED
  BY <1>1, <1>10, <1>11

\* Ones and zeros count.
LEMMA SumCounts ==
    ASSUME NEW X, IsFiniteSet(X), NEW Y \in SUBSET X, NEW f,
           \A x \in X : f[x] = IF x \in Y THEN 1 ELSE 0
    PROVE  Sum(f, X) = Cardinality(Y)
<1> DEFINE Bad == {s \in SUBSET X : Sum(f, s) # Cardinality(s \cap Y)}
<1> SUFFICES Bad = {}
  <2>1. X \cap Y = Y
    OBVIOUS
  <2> QED
    BY <2>1
<1> SUFFICES ASSUME Bad # {}
             PROVE  FALSE
  OBVIOUS
<1>1. PICK s \in Bad : \A x \in s : s \ {x} \notin Bad
  BY MinimalSubset, Zenon
<1>2. IsFiniteSet(s) /\ s # {}
  <2>1. {} \cap Y = {}
    OBVIOUS
  <2> QED
    BY <1>1, <2>1, FS_Subset, FS_EmptySet, SumEmpty, Zenon
<1>3. PICK x \in s : x = One(s)
  BY <1>2, OneIn
<1>4. Sum(f, s \ {x}) = Cardinality((s \ {x}) \cap Y)
  BY <1>1
<1>5. Sum(f, s) = f[x] + Sum(f, s \ {x})
  BY <1>2, <1>3, SumStep
<1>6. IsFiniteSet((s \ {x}) \cap Y) /\ Cardinality((s \ {x}) \cap Y) \in Nat
  BY <1>2, FS_Subset, FS_CardinalityType
<1>7. CASE x \in Y
  <2>1. s \cap Y = ((s \ {x}) \cap Y) \cup {x} /\ x \notin (s \ {x}) \cap Y
    BY <1>7
  <2>2. Cardinality(s \cap Y) = Cardinality((s \ {x}) \cap Y) + 1
    BY <1>6, <2>1, FS_AddElement, Zenon
  <2> QED
    BY <1>1, <1>4, <1>5, <1>6, <1>7, <2>2
<1>8. CASE x \notin Y
  <2>1. s \cap Y = (s \ {x}) \cap Y
    BY <1>8
  <2> QED
    BY <1>1, <1>4, <1>5, <1>6, <1>8, <2>1
<1> QED
  BY <1>7, <1>8

-----------------------------------------------------------------------------
(* What a line is worth *)

OrderLines == LinesOf(Order)

LEMMA LinesKnown ==
    /\ OrderLines \subseteq Nat /\ IsFiniteSet(OrderLines)
    /\ \A l \in OrderLines : /\ Order.total[l] \in Nat
                             /\ Order.units[l] \in Nat /\ Order.units[l] > 0
    /\ Order.discount \in Nat /\ Order.shipping \in Nat
BY RefundsAssumption DEF OrderLines, LinesOf

\* In an order of a finite set, as many members have fewer than n before them as n says.
LEMMA RankedBelow ==
    ASSUME NEW X, IsFiniteSet(X), NEW Before,
           \A x \in X : Before[x] \in SUBSET X /\ x \notin Before[x],
           \A x, y \in X : x = y \/ x \in Before[y] \/ y \in Before[x],
           \A x, y \in X : x \in Before[y] => Before[x] \subseteq Before[y],
           NEW n \in 0..Cardinality(X),
           NEW Y, Y = {x \in X : Cardinality(Before[x]) < n}
    PROVE  Cardinality(Y) = n
<1> DEFINE rank == [x \in X |-> Cardinality(Before[x])]
           m == Cardinality(X)
<1>1. m \in Nat /\ n \in Nat /\ n <= m
  BY FS_CardinalityType
<1>2. \A x \in X : IsFiniteSet(Before[x]) /\ rank[x] \in Nat
  <2>1. \A x \in X : Before[x] \in SUBSET X
    OBVIOUS
  <2> QED
    BY <2>1, FS_Subset, FS_CardinalityType
<1>3. ASSUME NEW x \in X, NEW y \in X, y \in Before[x]
      PROVE  rank[y] < rank[x]
  <2>1. Before[y] \cup {y} \in SUBSET Before[x] /\ y \notin Before[y]
    BY <1>3
  <2>2. Cardinality(Before[y] \cup {y}) = rank[y] + 1
    BY <1>2, <2>1, FS_AddElement, Zenon
  <2>3. Cardinality(Before[y] \cup {y}) <= rank[x]
    BY <1>2, <2>1, FS_Subset
  <2>4. rank[x] \in Nat /\ rank[y] \in Nat
    BY <1>2
  <2> HIDE DEF rank
  <2> QED
    BY <2>2, <2>3, <2>4
<1>4. ASSUME NEW x \in X
      PROVE  rank[x] < m
  <2>1. Before[x] \cup {x} \in SUBSET X /\ x \notin Before[x]
    OBVIOUS
  <2>2. Cardinality(Before[x] \cup {x}) = rank[x] + 1
    BY <1>2, <2>1, FS_AddElement, Zenon
  <2>3. Cardinality(Before[x] \cup {x}) <= m
    BY <2>1, FS_Subset
  <2> QED
    BY <1>1, <1>2, <2>2, <2>3
<1>5. rank \in Injection(X, 0..(m - 1))
  <2>1. \A x \in X : rank[x] \in 0..(m - 1)
    BY <1>1, <1>2, <1>4
  <2>2. \A x, y \in X : rank[x] = rank[y] => x = y
    <3>1. \A x \in X : rank[x] \in Nat
      BY <1>2
    <3>2. ASSUME NEW x \in X, NEW y \in X, rank[x] = rank[y], x # y
          PROVE  FALSE
      <4>1. rank[x] < rank[y] \/ rank[y] < rank[x]
        BY <1>3, <3>2
      <4>2. rank[x] \in Nat /\ rank[y] \in Nat
        BY <3>1
      <4> HIDE DEF rank
      <4> QED
        BY <3>2, <4>1, <4>2
    <3> QED
      BY <3>2
  <2>3. rank \in [X -> 0..(m - 1)]
    BY <2>1
  <2> HIDE DEF rank
  <2> QED
    BY <2>2, <2>3 DEF Injection, IsInjective
<1>6. IsFiniteSet(0..(m - 1)) /\ Cardinality(0..(m - 1)) = m
  <2>1. 0 \in Int /\ m - 1 \in Int
    BY <1>1
  <2> HIDE DEF m
  <2>2. IsFiniteSet(0..(m - 1)) /\ Cardinality(0..(m - 1)) = IF 0 > m - 1 THEN 0 ELSE (m - 1) - 0 + 1
    BY <2>1, FS_Interval, Zenon
  <2> QED
    BY <1>1, <2>2
<1>7. rank \in Surjection(X, 0..(m - 1))
  BY <1>5, <1>6, FS_Injection
<1>14. \A x \in X : rank[x] \in Nat
  BY <1>2
<1>16. Y = {x \in X : rank[x] < n}
  OBVIOUS
<1> HIDE DEF rank
<1>8. \A k \in 0..(m - 1) : \E x \in X : rank[x] = k
  BY <1>7 DEF Surjection
<1>9. \A x, y \in X : rank[x] = rank[y] => x = y
  BY <1>5 DEF Injection, IsInjective
<1> DEFINE f == [x \in Y |-> rank[x]]
<1>10. f \in Bijection(Y, 0..(n - 1))
  <2>1. f \in [Y -> 0..(n - 1)]
    BY <1>1, <1>14, <1>16
  <2>2. \A x, y \in Y : f[x] = f[y] => x = y
    BY <1>9, <1>16
  <2>3. \A k \in 0..(n - 1) : \E x \in Y : f[x] = k
    BY <1>1, <1>8, <1>16
  <2> HIDE DEF f
  <2> QED
    BY <2>1, <2>2, <2>3 DEF Bijection, Injection, Surjection, IsInjective
<1>11. IsFiniteSet(Y)
  BY <1>16, FS_Subset
<1>12. Cardinality(0..(n - 1)) = n
  BY <1>1, FS_Interval
<1>13. Cardinality(Y) = n
  BY <1>10, <1>11, <1>12, FS_Bijection DEF ExistsBijection
<1> QED
  BY <1>13

LEMMA Divided ==
    ASSUME NEW e \in Nat, NEW t \in Nat, t > 0
    PROVE  e \div t \in Nat /\ e % t \in Nat /\ e % t < t /\ e = t * (e \div t) + (e % t)
<1>1. e \div t \in Int /\ e % t \in 0..(t - 1) /\ e = t * (e \div t) + (e % t)
  OBVIOUS
<1>2. e \div t >= 0
  OBVIOUS
<1> QED
  BY <1>1, <1>2

\* `full_line_cents` gives every cent of the pot to a line, and none twice.
LEMMA SharesAre ==
    ASSUME Pot(Order) # 0
    PROVE  /\ Pot(Order) \in Nat /\ Subtotal(Order) \in Nat /\ Subtotal(Order) > 0
           /\ \A l \in OrderLines :
                 /\ Share(Order)[l] \in Nat /\ Remainder(Order)[l] \in Nat
                 /\ Remainder(Order)[l] < Subtotal(Order)
                 /\ Pot(Order) * Order.total[l] = Subtotal(Order) * Share(Order)[l] + Remainder(Order)[l]
<1>1. Subtotal(Order) \in Nat
  BY LinesKnown, SumGrows DEF Subtotal, OrderLines
<1>2. Pot(Order) \in Nat /\ Subtotal(Order) > 0
  BY <1>1, LinesKnown DEF Pot, AtLeastZero
<1>3. PICK p \in Nat, t \in Nat : p = Pot(Order) /\ t = Subtotal(Order) /\ t > 0
  BY <1>1, <1>2
<1>4. ASSUME NEW l \in OrderLines
      PROVE  /\ Share(Order)[l] \in Nat /\ Remainder(Order)[l] \in Nat /\ Remainder(Order)[l] < t
             /\ p * Order.total[l] = t * Share(Order)[l] + Remainder(Order)[l]
  <2>1. PICK e \in Nat : e = p * Order.total[l]
    BY LinesKnown
  <2>2. Share(Order)[l] = e \div t /\ Remainder(Order)[l] = e % t
    BY <1>3, <2>1 DEF Share, Remainder, OrderLines
  <2>3. e \div t \in Nat /\ e % t \in Nat /\ e % t < t /\ e = t * (e \div t) + (e % t)
    BY <1>3, Divided
  <2> QED
    BY <1>3, <2>1, <2>2, <2>3
<1> QED
  BY <1>1, <1>2, <1>3, <1>4

Zeros == [l \in OrderLines |-> 0]
Ones == [l \in OrderLines |-> 1]

LEMMA ZerosAndOnes ==
    /\ Sum(Zeros, OrderLines) = 0 /\ Sum(Ones, OrderLines) = Cardinality(OrderLines)
    /\ Cardinality(OrderLines) \in Nat
<1>1. Sum(Zeros, OrderLines) = Cardinality({})
  BY LinesKnown, SumCounts DEF Zeros
<1>2. Sum(Ones, OrderLines) = Cardinality(OrderLines)
  BY LinesKnown, SumCounts, Zenon DEF Ones
<1> QED
  BY <1>1, <1>2, LinesKnown, FS_EmptySet, FS_CardinalityType

LEMMA LeftIs ==
    ASSUME Pot(Order) # 0
    PROVE  /\ Left(Order) \in 0..Cardinality(OrderLines)
           /\ Sum(Share(Order), OrderLines) \in Nat
           /\ Pot(Order) = Sum(Share(Order), OrderLines) + Left(Order)
<1> DEFINE share == Share(Order)
           rest == Remainder(Order)
           worth == [l \in OrderLines |-> Pot(Order) * Order.total[l]]
           whole == [l \in OrderLines |-> Subtotal(Order)]
           short == [l \in OrderLines |-> Subtotal(Order) - rest[l]]
<1>1. PICK p, t \in Nat : p = Pot(Order) /\ t = Subtotal(Order) /\ t > 0
  BY SharesAre
<1>2. \A l \in OrderLines : /\ share[l] \in Nat /\ rest[l] \in Nat /\ rest[l] < t
                             /\ worth[l] = t * share[l] + rest[l]
  BY <1>1, SharesAre
<1>3. PICK s, r \in Nat : s = Sum(share, OrderLines) /\ r = Sum(rest, OrderLines)
  BY <1>2, LinesKnown, SumGrows, Zenon
<1> DEFINE lines == OrderLines
<1>11. IsFiniteSet(lines)
  BY LinesKnown
<1>12. \A l \in lines : share[l] \in Int /\ rest[l] \in Int /\ worth[l] = t * share[l] + rest[l]
  BY <1>2
<1>13. \A l \in lines : Order.total[l] \in Int /\ Zeros[l] \in Int /\ worth[l] = p * Order.total[l] + Zeros[l]
  BY <1>1, LinesKnown DEF Zeros
<1>14. \A l \in lines : /\ short[l] \in Nat /\ short[l] \in Int /\ rest[l] \in Int
                        /\ whole[l] = 1 * short[l] + rest[l]
  BY <1>1, <1>2
<1>15. \A l \in lines : Ones[l] \in Int /\ Zeros[l] \in Int /\ whole[l] = t * Ones[l] + Zeros[l]
  BY <1>1 DEF Ones, Zeros
<1>16. s = Sum(share, lines) /\ r = Sum(rest, lines) /\ t = Sum(Order.total, lines)
  BY <1>1, <1>3 DEF Subtotal, OrderLines
<1>6. PICK n \in Nat : n = Sum(Ones, lines) /\ n = Cardinality(OrderLines) /\ Sum(Zeros, lines) = 0
  BY ZerosAndOnes
<1>17. t \in Int /\ p \in Int /\ 1 \in Int
  OBVIOUS
<1> DEFINE total == Order.total
           zeros == Zeros
           ones == Ones
<1>4. Sum(worth, OrderLines) = t * s + r
  <2> HIDE DEF share, rest, worth, lines
  <2>1. Sum(worth, lines) = t * Sum(share, lines) + Sum(rest, lines)
    BY ONLY <1>11, <1>12, <1>17, SumLinear
  <2> QED
    BY <1>16, <2>1 DEF lines
<1>5. Sum(worth, OrderLines) = p * t + 0
  <2>2. \A l \in lines : total[l] \in Int /\ zeros[l] \in Int /\ worth[l] = p * total[l] + zeros[l]
    BY <1>13
  <2>3. t = Sum(total, lines) /\ Sum(zeros, lines) = 0
    BY <1>6, <1>16
  <2> HIDE DEF worth, lines, total, zeros
  <2>1. Sum(worth, lines) = p * Sum(total, lines) + Sum(zeros, lines)
    BY ONLY <1>11, <1>17, <2>2, SumLinear
  <2> QED
    BY <2>1, <2>3 DEF lines
<1>7. r <= t * n
  <2>8. \A l \in lines : ones[l] \in Int /\ zeros[l] \in Int /\ whole[l] = t * ones[l] + zeros[l]
    BY <1>15
  <2>9. n = Sum(ones, lines) /\ Sum(zeros, lines) = 0
    BY <1>6
  <2> HIDE DEF short, whole, rest, lines, ones, zeros
  <2>1. \A l \in lines : short[l] \in Int /\ rest[l] \in Int /\ whole[l] = 1 * short[l] + rest[l]
    BY <1>14
  <2>3. PICK u \in Nat : u = Sum(short, lines)
    BY <1>11, <1>14, SumGrows
  <2>10. PICK one \in Int : one = 1
    OBVIOUS
  <2>11. \A l \in lines : short[l] \in Int /\ rest[l] \in Int /\ whole[l] = one * short[l] + rest[l]
    BY <2>1, <2>10
  <2>4. Sum(whole, lines) = one * Sum(short, lines) + Sum(rest, lines)
    BY ONLY <1>11, one \in Int, <2>11, SumLinear
  <2>5. Sum(whole, lines) = t * Sum(ones, lines) + Sum(zeros, lines)
    BY ONLY <1>11, <1>17, <2>8, SumLinear
  <2>6. u + r = t * n
    BY <1>16, <2>3, <2>10, <2>4, <2>5, <2>9
  <2> QED
    BY <2>3, <2>6
<1>8. t * (p - s) = r
  <2>1. p * t + 0 = t * s + r
    BY <1>4, <1>5
  <2>2. t * (p - s) = p * t - t * s /\ p * t \in Nat /\ t * s \in Nat
    OBVIOUS
  <2> QED
    BY <2>1, <2>2
<1>9. p - s >= 0 /\ p - s <= n
  <2>1. p - s < 0 => t * (p - s) < 0
    BY <1>1
  <2>2. p - s > n => t * (p - s) > t * n
    BY <1>1
  <2>3. t * n \in Nat /\ t * (p - s) \in Int
    OBVIOUS
  <2> QED
    BY <1>7, <1>8, <2>1, <2>2, <2>3
<1>10. Left(Order) = p - s
  BY <1>1, <1>3 DEF Left, OrderLines
<1> HIDE DEF share
<1> QED
  BY <1>1, <1>3, <1>6, <1>9, <1>10 DEF share

LEMMA SumPlus ==
    ASSUME NEW X, IsFiniteSet(X), NEW f, NEW g, NEW h,
           \A x \in X : f[x] \in Int /\ g[x] \in Int /\ h[x] = f[x] + g[x]
    PROVE  /\ Sum(h, X) = Sum(f, X) + Sum(g, X)
           /\ Sum(f, X) \in Int /\ Sum(g, X) \in Int
<1>1. PICK one \in Int : one = 1
  OBVIOUS
<1>2. \A x \in X : f[x] \in Int /\ g[x] \in Int /\ h[x] = one * f[x] + g[x]
  BY <1>1
<1>3. Sum(h, X) = one * Sum(f, X) + Sum(g, X)
  BY ONLY IsFiniteSet(X), one \in Int, <1>2, SumLinear
<1>4. Sum(f, X) \in Int /\ Sum(g, X) \in Int
  BY SumIsInt
<1> QED
  BY <1>1, <1>3, <1>4

\* `full_line_cents` gives every cent of the pot to a line, and none twice: the cents that did not
\* divide go, one each, to as many lines as there are such cents.
THEOREM FullLineSums ==
    /\ \A l \in OrderLines : FullLineCents[l] \in Nat
    /\ Sum(FullLineCents, OrderLines) = Pot(Order)
<1>1. CASE Pot(Order) = 0
  <2>1. \A l \in OrderLines : FullLineCents[l] = 0 /\ Zeros[l] = 0
    BY <1>1 DEF FullLineCents, FullLine, OrderLines, Zeros
  <2>2. Sum(FullLineCents, OrderLines) = Sum(Zeros, OrderLines)
    BY <2>1, LinesKnown, SumSame, Zenon
  <2> QED
    BY <1>1, <2>1, <2>2, ZerosAndOnes
<1>2. CASE Pot(Order) # 0
  <2> DEFINE lines == OrderLines
             before == [l \in lines |-> Sooner(Order, l)]
             Early == {l \in lines : Cardinality(before[l]) < Left(Order)}
             extra == [l \in lines |-> IF l \in Early THEN 1 ELSE 0]
             share == Share(Order)
             rest == Remainder(Order)
  <2>1. PICK n \in Nat : n = Left(Order) /\ n \in 0..Cardinality(lines)
    BY <1>2, LeftIs, ZerosAndOnes
  <2>2. \A l \in lines : l \in Nat /\ rest[l] \in Nat
    BY <1>2, SharesAre, LinesKnown
  <2>3. \A l \in lines : /\ before[l] \in SUBSET lines
                         /\ \A k \in lines : k \in before[l] <=> \/ rest[k] > rest[l]
                                                                 \/ rest[k] = rest[l] /\ k < l
    BY DEF Sooner, OrderLines
  <2>4. \A l \in lines : before[l] = Sooner(Order, l)
    OBVIOUS
  <2>5. IsFiniteSet(lines)
    BY LinesKnown
  <2>9. Early = {l \in lines : Cardinality(before[l]) < n}
    BY <2>1
  <2> HIDE DEF before, lines, rest
  <2>6. \A l \in lines : before[l] \in SUBSET lines /\ l \notin before[l]
    BY <2>2, <2>3
  <2>7. \A k, l \in lines : k = l \/ k \in before[l] \/ l \in before[k]
    <3> SUFFICES ASSUME NEW k \in lines, NEW l \in lines, k # l
                 PROVE  k \in before[l] \/ l \in before[k]
      OBVIOUS
    <3>1. k < l \/ l < k
      BY <2>2
    <3> QED
      BY <2>2, <2>3, <3>1
  <2>8. ASSUME NEW k \in lines, NEW l \in lines, k \in before[l]
        PROVE  before[k] \subseteq before[l]
    <3> SUFFICES ASSUME NEW j \in lines, j \in before[k]
                 PROVE  j \in before[l]
      BY <2>3
    <3> QED
      BY <2>2, <2>3, <2>8
  <2> HIDE DEF Early
  <2>11. Cardinality(Early) = n
    BY ONLY <2>1, <2>5, <2>6, <2>7, <2>8, <2>9, RankedBelow
  <2>12. Early \in SUBSET lines /\ \A l \in lines : extra[l] = IF l \in Early THEN 1 ELSE 0
    BY <2>9
  <2>13. \A l \in lines : /\ share[l] \in Nat /\ extra[l] \in Nat
                          /\ FullLineCents[l] = share[l] + extra[l]
    BY <1>2, <2>4, SharesAre DEF FullLineCents, FullLine, lines, OrderLines, Early
  <2> HIDE DEF extra, share
  <2>14. Sum(extra, lines) = n
    BY <2>5, <2>11, <2>12, SumCounts
  <2>15. \A l \in lines : share[l] \in Int /\ extra[l] \in Int /\ FullLineCents[l] = share[l] + extra[l]
    BY <2>13
  <2>16. Sum(FullLineCents, lines) = Sum(share, lines) + Sum(extra, lines)
    BY ONLY <2>5, <2>15, SumPlus
  <2>17. Pot(Order) = Sum(share, lines) + Left(Order)
    BY <1>2, LeftIs DEF share, lines
  <2>18. \A l \in lines : FullLineCents[l] \in Nat
    BY <2>13
  <2> QED
    BY <2>1, <2>14, <2>16, <2>17, <2>18 DEF lines
<1> QED
  BY <1>1, <1>2

(* Refunds: what the rows add up to *)

RefundStatus == {"none"} \cup COUNTED \cup {"rejected", "failed"}
RowType == [status : RefundStatus, kind : RefundKind, amount : Nat, shipping : Nat,
            plan : [OrderLines -> [units : Nat, cents : Nat]],
            attempts : Nat, next : {"now", "later", "never"}]

AmountsOf(rf) == [r \in Refunds |-> rf[r].amount]
ShippingsOf(rf) == [r \in Refunds |-> rf[r].shipping]
UnitsOf(rf, l) == [r \in Refunds |-> rf[r].plan[l].units]
CentsOf(rf, l) == [r \in Refunds |-> rf[r].plan[l].cents]
CountedOf(rf) == {r \in Refunds : rf[r].status \in COUNTED}
RefusedOf(rf) == {r \in Refunds : rf[r].status \in {"rejected", "failed"}}

\* What came back of a line and the cents given for it: never more than its part, so that the last
\* units still have something to take, and all of it when they came.
Fits(l, units, cents) ==
    /\ cents * Order.units[l] <= FullLineCents[l] * units
    /\ units = Order.units[l] => cents = FullLineCents[l]

WithinOrder(rf) ==
    /\ Sum(AmountsOf(rf), CountedOf(rf)) <= Paid
    /\ Sum(ShippingsOf(rf), CountedOf(rf)) <= Order.shipping
    /\ \A l \in OrderLines : Sum(UnitsOf(rf, l), CountedOf(rf)) <= Order.units[l]
    /\ RefusedOf(rf) = {} =>
         \A l \in OrderLines :
            Fits(l, Sum(UnitsOf(rf, l), CountedOf(rf)), Sum(CentsOf(rf, l), CountedOf(rf)))

RowsInv(rf) == rf \in [Refunds -> RowType] /\ WithinOrder(rf)

LEMMA RefundsKnown ==
    /\ MaxRefunds \in Nat /\ Refunds \subseteq Nat /\ IsFiniteSet(Refunds) /\ 0 \notin Refunds
    /\ \A X \in SUBSET Refunds : IsFiniteSet(X)
    /\ Pot(Order) \in Nat /\ Paid \in Nat /\ Order.shipping \in Nat
<1>1. MaxRefunds \in Nat
  BY RefundsAssumption
<1>2. IsFiniteSet(1..MaxRefunds)
  BY <1>1, FS_Interval
<1>3. Pot(Order) \in Nat
  BY LinesKnown, SumGrows DEF Pot, AtLeastZero, Subtotal, OrderLines
<1>4. Refunds \subseteq Nat /\ IsFiniteSet(Refunds) /\ 0 \notin Refunds
  BY <1>1, <1>2 DEF Refunds
<1>5. \A X \in SUBSET Refunds : IsFiniteSet(X)
  BY <1>4, FS_Subset, Zenon
<1>6. Order.shipping \in Nat /\ Paid \in Nat
  BY <1>3, LinesKnown DEF Paid
<1> QED
  BY <1>1, <1>3, <1>4, <1>5, <1>6

LEMMA RowsAre ==
    ASSUME NEW rf \in [Refunds -> RowType]
    PROVE  /\ \A r \in Refunds : AmountsOf(rf)[r] \in Nat /\ ShippingsOf(rf)[r] \in Nat
           /\ \A l \in OrderLines, r \in Refunds : UnitsOf(rf, l)[r] \in Nat /\ CentsOf(rf, l)[r] \in Nat
           /\ CountedOf(rf) \in SUBSET Refunds
BY DEF RowType, AmountsOf, ShippingsOf, UnitsOf, CentsOf, CountedOf

LEMMA RowSumsAre ==
    ASSUME NEW rf \in [Refunds -> RowType], NEW X \in SUBSET Refunds
    PROVE  /\ Sum(AmountsOf(rf), X) \in Nat /\ Sum(ShippingsOf(rf), X) \in Nat
           /\ \A l \in OrderLines : Sum(UnitsOf(rf, l), X) \in Nat /\ Sum(CentsOf(rf, l), X) \in Nat
           /\ \A Y \in SUBSET X :
                 /\ Sum(AmountsOf(rf), Y) <= Sum(AmountsOf(rf), X)
                 /\ Sum(ShippingsOf(rf), Y) <= Sum(ShippingsOf(rf), X)
                 /\ \A l \in OrderLines : Sum(UnitsOf(rf, l), Y) <= Sum(UnitsOf(rf, l), X)
<1>1. IsFiniteSet(X)
  BY RefundsKnown
<1>2. Sum(AmountsOf(rf), X) \in Nat /\ \A Y \in SUBSET X : Sum(AmountsOf(rf), Y) <= Sum(AmountsOf(rf), X)
  <2>1. \A r \in X : AmountsOf(rf)[r] \in Nat
    BY RowsAre
  <2> QED
    BY <1>1, <2>1, SumGrows
<1>3. Sum(ShippingsOf(rf), X) \in Nat /\ \A Y \in SUBSET X : Sum(ShippingsOf(rf), Y) <= Sum(ShippingsOf(rf), X)
  <2>1. \A r \in X : ShippingsOf(rf)[r] \in Nat
    BY RowsAre
  <2> QED
    BY <1>1, <2>1, SumGrows
<1>4. ASSUME NEW l \in OrderLines
      PROVE  /\ Sum(UnitsOf(rf, l), X) \in Nat /\ Sum(CentsOf(rf, l), X) \in Nat
             /\ \A Y \in SUBSET X : Sum(UnitsOf(rf, l), Y) <= Sum(UnitsOf(rf, l), X)
  <2>1. \A r \in X : UnitsOf(rf, l)[r] \in Nat
    BY RowsAre
  <2>2. \A r \in X : CentsOf(rf, l)[r] \in Nat
    BY RowsAre
  <2>3. Sum(CentsOf(rf, l), X) \in Nat
    BY <1>1, <2>2, SumGrows
  <2> QED
    BY <1>1, <2>1, <2>3, SumGrows
<1> QED
  BY <1>2, <1>3, <1>4

SameWorth(rf, rg) ==
    /\ rg \in [Refunds -> RowType]
    /\ \A r \in Refunds : /\ rg[r].amount = rf[r].amount /\ rg[r].shipping = rf[r].shipping
                          /\ rg[r].plan = rf[r].plan /\ rg[r].kind = rf[r].kind

LEMMA SameSums ==
    ASSUME NEW rf, NEW rg, SameWorth(rf, rg)
    PROVE  /\ AmountsOf(rg) = AmountsOf(rf) /\ ShippingsOf(rg) = ShippingsOf(rf)
           /\ \A l \in OrderLines : UnitsOf(rg, l) = UnitsOf(rf, l) /\ CentsOf(rg, l) = CentsOf(rf, l)
BY DEF SameWorth, AmountsOf, ShippingsOf, UnitsOf, CentsOf

\* A row that stops counting leaves room, and one that was refused is never counted again.
LEMMA RowMoves ==
    ASSUME NEW rf, NEW rg, RowsInv(rf), SameWorth(rf, rg),
           CountedOf(rg) \subseteq CountedOf(rf), RefusedOf(rf) \subseteq RefusedOf(rg),
           CountedOf(rg) = CountedOf(rf) \/ RefusedOf(rg) # {}
    PROVE  RowsInv(rg)
<1>1. rf \in [Refunds -> RowType] /\ rg \in [Refunds -> RowType]
  BY DEF RowsInv, SameWorth
<1> DEFINE X == CountedOf(rf)
           Y == CountedOf(rg)
<1>2. X \in SUBSET Refunds /\ Y \in SUBSET X
  BY DEF CountedOf
<1>3. PICK a, b \in Nat : /\ a = Sum(AmountsOf(rf), X) /\ b = Sum(AmountsOf(rf), Y)
                          /\ b <= a /\ a <= Paid
  BY <1>1, <1>2, RowSumsAre DEF RowsInv, WithinOrder
<1>4. PICK c, d \in Nat : /\ c = Sum(ShippingsOf(rf), X) /\ d = Sum(ShippingsOf(rf), Y)
                          /\ d <= c /\ c <= Order.shipping
  BY <1>1, <1>2, RowSumsAre DEF RowsInv, WithinOrder
<1>5. ASSUME NEW l \in OrderLines
      PROVE  Sum(UnitsOf(rf, l), Y) <= Order.units[l]
  <2>1. PICK u, v \in Nat : /\ u = Sum(UnitsOf(rf, l), X) /\ v = Sum(UnitsOf(rf, l), Y)
                            /\ v <= u /\ u <= Order.units[l]
    BY <1>1, <1>2, RowSumsAre DEF RowsInv, WithinOrder
  <2>2. Order.units[l] \in Nat
    BY LinesKnown
  <2> QED
    BY <2>1, <2>2
<1>6. b <= Paid /\ d <= Order.shipping
  BY <1>3, <1>4, RefundsKnown
<1>7. RefusedOf(rg) = {} => Y = X /\ RefusedOf(rf) = {}
  OBVIOUS
<1> QED
  BY <1>1, <1>3, <1>4, <1>5, <1>6, <1>7, SameSums DEF RowsInv, WithinOrder

\* The cents of a piece: all that is left for the last units, the line's part of the pot pro rata,
\* rounded down, for others.
LEMMA ProRata ==
    ASSUME NEW F \in Nat, NEW n \in Nat, n > 0, NEW u \in Nat, u <= n, NEW c \in Nat, c * n <= F * u
    PROVE  /\ c <= F
           /\ \A given \in Nat : (c + ((F * given) \div n)) * n <= F * (u + given)
<1>1. c <= F
  <2>1. F * u <= F * n
    OBVIOUS
  <2>2. c > F => c * n > F * n
    OBVIOUS
  <2>3. F * u \in Nat /\ F * n \in Nat /\ c * n \in Nat
    OBVIOUS
  <2> QED
    BY <2>1, <2>2, <2>3
<1>2. ASSUME NEW given \in Nat
      PROVE  (c + ((F * given) \div n)) * n <= F * (u + given)
  <2>1. PICK e \in Nat : e = F * given
    OBVIOUS
  <2>2. PICK q \in Nat, m \in Nat : q = e \div n /\ e = n * q + m
    BY Divided
  <2>3. (c + q) * n = c * n + n * q /\ F * (u + given) = F * u + e
    BY <2>1
  <2>4. n * q \in Nat /\ c * n \in Nat /\ F * u \in Nat
    OBVIOUS
  <2> QED
    BY <2>1, <2>2, <2>3, <2>4
<1> QED
  BY <1>1, <1>2

LEMMA PiecesFit ==
    ASSUME NEW l \in OrderLines, NEW done, NEW wanted \in Nat,
           done[l].units \in Nat, done[l].cents \in Nat, done[l].units <= Order.units[l]
    PROVE  \E u, c \in Nat :
              /\ Piece(Order, done, l, wanted) = [units |-> u, cents |-> c]
              /\ done[l].units + u <= Order.units[l]
              /\ Fits(l, done[l].units, done[l].cents)
                 => Fits(l, done[l].units + u, done[l].cents + c)
<1>1. PICK F, n \in Nat : F = FullLineCents[l] /\ n = Order.units[l] /\ n > 0
  BY LinesKnown, FullLineSums
<1>2. PICK d, e \in Nat : d = done[l].units /\ e = done[l].cents /\ d <= n
  BY <1>1
<1> DEFINE given == IF wanted < n - d THEN wanted ELSE n - d
           cents == IF given = n - d THEN AtLeastZero(F - e) ELSE (F * given) \div n
<1>3. given \in Nat /\ given <= n - d
  BY <1>2
<1>4. cents \in Nat
  <2>1. F * given \in Nat
    BY <1>3
  <2>2. (F * given) \div n \in Nat
    BY <1>1, <2>1, Divided
  <2> QED
    BY <2>2 DEF AtLeastZero
<1>5. Piece(Order, done, l, wanted) =
         IF wanted > 0 /\ n - d > 0 /\ cents > 0 THEN [units |-> given, cents |-> cents]
                                                 ELSE [units |-> 0, cents |-> 0]
  BY <1>1, <1>2 DEF Piece, FullLineCents
<1>6. \A v, k \in Nat : Fits(l, v, k) <=> (k * n <= F * v /\ (v = n => k = F))
  BY <1>1 DEF Fits
<1>7. CASE ~(wanted > 0 /\ n - d > 0 /\ cents > 0)
  <2>1. Piece(Order, done, l, wanted) = [units |-> 0, cents |-> 0]
    BY <1>5, <1>7
  <2>2. d + 0 = d /\ e + 0 = e /\ d + 0 <= n
    BY <1>2
  <2>3. /\ d + 0 <= n
        /\ Fits(l, d, e) => Fits(l, d + 0, e + 0)
    BY <2>2
  <2> HIDE DEF given, cents
  <2>4. \E u, c \in Nat : /\ Piece(Order, done, l, wanted) = [units |-> u, cents |-> c]
                          /\ d + u <= n
                          /\ Fits(l, d, e) => Fits(l, d + u, e + c)
    BY <2>1, <2>3
  <2> QED
    BY <1>1, <1>2, <2>4
<1>8. CASE wanted > 0 /\ n - d > 0 /\ cents > 0
  <2>1. Piece(Order, done, l, wanted) = [units |-> given, cents |-> cents]
    BY <1>5, <1>8
  <2>2. d + given <= n
    BY <1>2, <1>3
  <2>3. ASSUME Fits(l, d, e)
        PROVE  Fits(l, d + given, e + cents)
    <3>1. e * n <= F * d
      BY <1>6, <2>3
    <3>2. e <= F /\ \A v \in Nat : (e + ((F * v) \div n)) * n <= F * (d + v)
      BY <1>1, <1>2, <3>1, ProRata, Zenon
    <3>3. CASE given = n - d
      <4>1. cents = F - e
        BY <3>2, <3>3 DEF AtLeastZero
      <4>2. d + given = n /\ e + cents = F
        BY <3>3, <4>1
      <4> HIDE DEF given, cents
      <4>3. Fits(l, n, F)
        BY <1>6
      <4> QED
        BY <4>2, <4>3
    <3>4. CASE given # n - d
      <4>1. cents = (F * given) \div n
        BY <3>4
      <4>2. (e + cents) * n <= F * (d + given)
        BY <1>3, <3>2, <4>1
      <4>3. d + given # n /\ d + given \in Nat /\ e + cents \in Nat
        BY <1>3, <1>4, <3>4
      <4> HIDE DEF given, cents
      <4> QED
        BY <1>6, <4>2, <4>3
    <3> QED
      BY <3>3, <3>4
  <2> HIDE DEF given, cents
  <2> QED
    BY <1>1, <1>2, <1>3, <1>4, <2>1, <2>2, <2>3
<1> QED
  BY <1>7, <1>8

AddsRow(f, g, X, r) == Sum(g, X \cup {r}) = Sum(f, X) + g[r]

LEMMA SumWithRow ==
    ASSUME NEW X \in SUBSET Refunds, NEW r \in Refunds, r \notin X, NEW f, NEW g,
           \A x \in X : g[x] \in Nat /\ g[x] = f[x], g[r] \in Nat
    PROVE  AddsRow(f, g, X, r) /\ Sum(f, X) \in Nat
<1>1. IsFiniteSet(X)
  BY RefundsKnown
<1>2. \A x \in X : f[x] \in Nat
  OBVIOUS
<1>3. \A y \in X \cup {r} : g[y] \in Int
  OBVIOUS
<1>4. Sum(g, X \cup {r}) = g[r] + Sum(g, X)
  BY ONLY <1>1, <1>3, r \notin X, SumAdd, Zenon
<1>5. Sum(g, X) = Sum(f, X)
  BY <1>1, SumSame
<1>6. Sum(f, X) \in Nat
  BY <1>1, <1>2, SumGrows
<1> QED
  BY <1>4, <1>5, <1>6 DEF AddsRow

\* A new row: what it adds still fits.
LEMMA RowAdded ==
    ASSUME NEW rf, RowsInv(rf), NEW r \in Refunds, rf[r].status = "none",
           NEW row \in RowType, row.status \in COUNTED, NEW rg, rg = [rf EXCEPT ![r] = row],
           Sum(AmountsOf(rf), CountedOf(rf)) + row.amount <= Paid,
           Sum(ShippingsOf(rf), CountedOf(rf)) + row.shipping <= Order.shipping,
           \A l \in OrderLines :
              LET u == Sum(UnitsOf(rf, l), CountedOf(rf))
                  c == Sum(CentsOf(rf, l), CountedOf(rf))
              IN  /\ u + row.plan[l].units <= Order.units[l]
                  /\ Fits(l, u, c) => Fits(l, u + row.plan[l].units, c + row.plan[l].cents)
    PROVE  RowsInv(rg)
<1> DEFINE X == CountedOf(rf)
<1>1. rf \in [Refunds -> RowType] /\ rg \in [Refunds -> RowType]
  BY DEF RowsInv
<1>2. /\ \A x \in Refunds : rg[x] = IF x = r THEN row ELSE rf[x]
      /\ CountedOf(rg) = X \cup {r} /\ RefusedOf(rg) = RefusedOf(rf)
      /\ X \in SUBSET Refunds /\ r \notin X
  BY <1>1 DEF CountedOf, RefusedOf, COUNTED
<1>9. X \in SUBSET Refunds /\ r \in Refunds /\ r \notin X
  BY <1>2
<1> HIDE DEF X
<1>3. Sum(AmountsOf(rg), X \cup {r}) = Sum(AmountsOf(rf), X) + row.amount
  <2>1. \A x \in X : AmountsOf(rg)[x] \in Nat /\ AmountsOf(rg)[x] = AmountsOf(rf)[x]
    BY <1>1, <1>2, RowsAre DEF AmountsOf
  <2>2. AmountsOf(rg)[r] = row.amount /\ AmountsOf(rg)[r] \in Nat
    BY <1>1, <1>2, RowsAre, Zenon DEF AmountsOf
  <2>3. Sum(AmountsOf(rg), X \cup {r}) = Sum(AmountsOf(rf), X) + AmountsOf(rg)[r]
    <3>1. PICK f, g : f = AmountsOf(rf) /\ g = AmountsOf(rg)
      OBVIOUS
    <3>2. (\A x \in X : g[x] \in Nat /\ g[x] = f[x]) /\ g[r] \in Nat
      BY <2>1, <2>2, <3>1, Zenon
    <3>3. AddsRow(f, g, X, r)
      BY ONLY <1>9, <3>2, SumWithRow
    <3> QED
      BY <3>1, <3>3 DEF AddsRow
  <2> QED
    BY <2>2, <2>3
<1>4. Sum(ShippingsOf(rg), X \cup {r}) = Sum(ShippingsOf(rf), X) + row.shipping
  <2>1. \A x \in X : ShippingsOf(rg)[x] \in Nat /\ ShippingsOf(rg)[x] = ShippingsOf(rf)[x]
    BY <1>1, <1>2, RowsAre DEF ShippingsOf
  <2>2. ShippingsOf(rg)[r] = row.shipping /\ ShippingsOf(rg)[r] \in Nat
    BY <1>1, <1>2, RowsAre, Zenon DEF ShippingsOf
  <2>3. Sum(ShippingsOf(rg), X \cup {r}) = Sum(ShippingsOf(rf), X) + ShippingsOf(rg)[r]
    <3>1. PICK f, g : f = ShippingsOf(rf) /\ g = ShippingsOf(rg)
      OBVIOUS
    <3>2. (\A x \in X : g[x] \in Nat /\ g[x] = f[x]) /\ g[r] \in Nat
      BY <2>1, <2>2, <3>1, Zenon
    <3>3. AddsRow(f, g, X, r)
      BY ONLY <1>9, <3>2, SumWithRow
    <3> QED
      BY <3>1, <3>3 DEF AddsRow
  <2> QED
    BY <2>2, <2>3
<1>5. ASSUME NEW l \in OrderLines
      PROVE  /\ Sum(UnitsOf(rg, l), X \cup {r}) = Sum(UnitsOf(rf, l), X) + row.plan[l].units
             /\ Sum(CentsOf(rg, l), X \cup {r}) = Sum(CentsOf(rf, l), X) + row.plan[l].cents
  <2>1. \A x \in X : UnitsOf(rg, l)[x] \in Nat /\ UnitsOf(rg, l)[x] = UnitsOf(rf, l)[x]
    BY <1>1, <1>2, RowsAre DEF UnitsOf
  <2>2. UnitsOf(rg, l)[r] = row.plan[l].units /\ UnitsOf(rg, l)[r] \in Nat
    BY <1>1, <1>2, RowsAre, Zenon DEF UnitsOf
  <2>3. \A x \in X : CentsOf(rg, l)[x] \in Nat /\ CentsOf(rg, l)[x] = CentsOf(rf, l)[x]
    BY <1>1, <1>2, RowsAre DEF CentsOf
  <2>4. CentsOf(rg, l)[r] = row.plan[l].cents /\ CentsOf(rg, l)[r] \in Nat
    BY <1>1, <1>2, RowsAre, Zenon DEF CentsOf
  <2>5. Sum(UnitsOf(rg, l), X \cup {r}) = Sum(UnitsOf(rf, l), X) + UnitsOf(rg, l)[r]
    <3>1. PICK f, g : f = UnitsOf(rf, l) /\ g = UnitsOf(rg, l)
      OBVIOUS
    <3>2. (\A x \in X : g[x] \in Nat /\ g[x] = f[x]) /\ g[r] \in Nat
      BY <2>1, <2>2, <3>1, Zenon
    <3>3. AddsRow(f, g, X, r)
      BY ONLY <1>9, <3>2, SumWithRow
    <3> QED
      BY <3>1, <3>3 DEF AddsRow
  <2>6. Sum(CentsOf(rg, l), X \cup {r}) = Sum(CentsOf(rf, l), X) + CentsOf(rg, l)[r]
    <3>1. PICK f, g : f = CentsOf(rf, l) /\ g = CentsOf(rg, l)
      OBVIOUS
    <3>2. (\A x \in X : g[x] \in Nat /\ g[x] = f[x]) /\ g[r] \in Nat
      BY <2>3, <2>4, <3>1, Zenon
    <3>3. AddsRow(f, g, X, r)
      BY ONLY <1>9, <3>2, SumWithRow
    <3> QED
      BY <3>1, <3>3 DEF AddsRow
  <2> QED
    BY <2>2, <2>4, <2>5, <2>6
<1>6. /\ Sum(AmountsOf(rg), CountedOf(rg)) <= Paid
      /\ Sum(ShippingsOf(rg), CountedOf(rg)) <= Order.shipping
  BY <1>2, <1>3, <1>4, Zenon DEF X
<1>7. \A l \in OrderLines : Sum(UnitsOf(rg, l), CountedOf(rg)) <= Order.units[l]
  BY <1>2, <1>5, Zenon DEF X
<1>8. ASSUME RefusedOf(rg) = {}, NEW l \in OrderLines
      PROVE  Fits(l, Sum(UnitsOf(rg, l), CountedOf(rg)), Sum(CentsOf(rg, l), CountedOf(rg)))
  <2>1. Fits(l, Sum(UnitsOf(rf, l), X), Sum(CentsOf(rf, l), X))
    BY <1>2, <1>8 DEF RowsInv, WithinOrder, X
  <2> QED
    BY <1>2, <1>5, <2>1, Zenon DEF X
<1> QED
  BY <1>1, <1>6, <1>7, <1>8, Zenon DEF RowsInv, WithinOrder

(* Refunds: what the payment, the order and the provider gave back *)

PaymentStatus == {"approved", "partially_refunded", "refunded", "chargeback"}
PaymentType == [status : PaymentStatus, method : Methods, refunded : Nat]
SentStatus == {"no", "pending", "done", "refused"}

CompletedOf(rf) == {r \in Refunds : rf[r].status = "completed"}
ValueOf(rf) == {r \in CompletedOf(rf) : rf[r].kind \in ORDER_VALUE_KINDS}
DoneOf(snt) == {r \in Refunds : snt[r] = "done"}
TakenOf(snt) == {r \in Refunds : snt[r] \in {"pending", "done"}}

BooksInv(p, ret, rf, snt) ==
    /\ p \in PaymentType /\ snt \in [Refunds -> SentStatus]
    /\ p.refunded = Sum(AmountsOf(rf), CompletedOf(rf))
    /\ ret = Sum(AmountsOf(rf), ValueOf(rf))
    /\ p.method = "provider" => \A r \in CompletedOf(rf) : snt[r] = "done"
    /\ p.status = "refunded" => Paid \in {Sum(AmountsOf(rf), DoneOf(snt)), p.refunded}
    /\ Sum(AmountsOf(rf), TakenOf(snt)) <= Paid
    /\ \A r \in Refunds : snt[r] # "no" => rf[r].status # "none"

With(rf, r, row) == [rf EXCEPT ![r] = row]
BackWith(rf, r, ret) == IF rf[r].kind \in ORDER_VALUE_KINDS THEN ret + rf[r].amount ELSE ret

LEMMA OneRowMore ==
    ASSUME NEW X \in SUBSET Refunds, NEW r \in Refunds, r \notin X, NEW f,
           \A x \in Refunds : f[x] \in Nat
    PROVE  Sum(f, X \cup {r}) = Sum(f, X) + f[r]
<1>1. (\A x \in X : f[x] \in Nat /\ f[x] = f[x]) /\ f[r] \in Nat
  OBVIOUS
<1>2. AddsRow(f, f, X, r)
  BY <1>1, SumWithRow
<1> QED
  BY <1>2 DEF AddsRow

\* Nothing is completed and the provider is not asked.
LEMMA BooksKept ==
    ASSUME NEW p, NEW ret, NEW rf, NEW snt, BooksInv(p, ret, rf, snt),
           NEW rg, SameWorth(rf, rg), CompletedOf(rg) = CompletedOf(rf),
           \A r \in Refunds : rf[r].status # "none" => rg[r].status # "none",
           NEW q \in PaymentType, q.refunded = p.refunded, q.method = p.method,
           q.status = "refunded" => p.status = "refunded" \/ Paid = Sum(AmountsOf(rf), DoneOf(snt))
    PROVE  BooksInv(q, ret, rg, snt)
<1>1. AmountsOf(rg) = AmountsOf(rf)
  BY SameSums
<1>2. ValueOf(rg) = ValueOf(rf)
  BY DEF ValueOf, CompletedOf, SameWorth
<1> QED
  BY <1>1, <1>2 DEF BooksInv

LEMMA BooksAdded ==
    ASSUME NEW p, NEW ret, NEW rf \in [Refunds -> RowType], NEW snt, BooksInv(p, ret, rf, snt),
           NEW r \in Refunds, rf[r].status = "none", NEW row \in RowType,
           row.status \in {"requested", "approved"}, NEW rg, rg = [rf EXCEPT ![r] = row]
    PROVE  BooksInv(p, ret, rg, snt)
<1>1. \A x \in Refunds : rg[x] = IF x = r THEN row ELSE rf[x]
  OBVIOUS
<1>2. /\ CompletedOf(rg) = CompletedOf(rf) /\ r \notin CompletedOf(rf)
      /\ ValueOf(rg) = ValueOf(rf) /\ r \notin ValueOf(rf)
  BY <1>1 DEF CompletedOf, ValueOf
<1>3. r \notin DoneOf(snt) /\ r \notin TakenOf(snt)
  BY DEF BooksInv, DoneOf, TakenOf
<1>4. ASSUME NEW X \in SUBSET Refunds, r \notin X
      PROVE  Sum(AmountsOf(rg), X) = Sum(AmountsOf(rf), X)
  <2>1. IsFiniteSet(X)
    BY RefundsKnown
  <2>2. \A x \in X : AmountsOf(rg)[x] = AmountsOf(rf)[x]
    BY <1>1, <1>4 DEF AmountsOf
  <2> QED
    BY <2>1, <2>2, SumSame, Zenon
<1>5. /\ Sum(AmountsOf(rg), CompletedOf(rf)) = Sum(AmountsOf(rf), CompletedOf(rf))
      /\ Sum(AmountsOf(rg), ValueOf(rf)) = Sum(AmountsOf(rf), ValueOf(rf))
      /\ Sum(AmountsOf(rg), DoneOf(snt)) = Sum(AmountsOf(rf), DoneOf(snt))
      /\ Sum(AmountsOf(rg), TakenOf(snt)) = Sum(AmountsOf(rf), TakenOf(snt))
  <2>1. /\ CompletedOf(rf) \in SUBSET Refunds /\ ValueOf(rf) \in SUBSET Refunds
        /\ DoneOf(snt) \in SUBSET Refunds /\ TakenOf(snt) \in SUBSET Refunds
    BY DEF CompletedOf, ValueOf, DoneOf, TakenOf
  <2> QED
    BY <1>2, <1>3, <1>4, <2>1, Zenon
<1>6. \A x \in Refunds : snt[x] # "no" => rg[x].status # "none"
  BY <1>1 DEF BooksInv
<1> QED
  BY <1>2, <1>5, <1>6, Zenon DEF BooksInv

\* One more is completed: it is counted where it belongs, and what was refunded in all is within
\* what was paid.
LEMMA BooksCompleted ==
    ASSUME NEW p, NEW ret, NEW rf, RowsInv(rf), NEW snt, BooksInv(p, ret, rf, snt),
           NEW r \in Refunds, rf[r].status \in {"approved", "processing"},
           p.method = "provider" => snt[r] = "done",
           NEW rg, SameWorth(rf, rg), CountedOf(rg) = CountedOf(rf),
           CompletedOf(rg) = CompletedOf(rf) \cup {r},
           \A x \in Refunds : rf[x].status # "none" => rg[x].status # "none",
           NEW q \in PaymentType, q.refunded = p.refunded + rf[r].amount, q.method = p.method,
           q.status = "refunded" => p.status = "refunded" \/ q.refunded >= Paid
    PROVE  BooksInv(q, BackWith(rf, r, ret), rg, snt)
<1>11. PICK back : /\ back = BackWith(rf, r, ret)
                   /\ back = IF rf[r].kind \in ORDER_VALUE_KINDS THEN ret + rf[r].amount ELSE ret
  BY DEF BackWith
<1>1. rf \in [Refunds -> RowType] /\ rg \in [Refunds -> RowType]
  BY DEF RowsInv, SameWorth
<1>2. AmountsOf(rg) = AmountsOf(rf)
  BY SameSums
<1> DEFINE f == AmountsOf(rf)
<1>3. /\ \A x \in Refunds : f[x] \in Nat
      /\ f[r] = rf[r].amount
      /\ CompletedOf(rf) \in SUBSET Refunds /\ r \notin CompletedOf(rf)
      /\ ValueOf(rf) \in SUBSET Refunds /\ r \notin ValueOf(rf)
      /\ CompletedOf(rg) \in SUBSET CountedOf(rg) /\ CountedOf(rf) \in SUBSET Refunds
  BY <1>1, RowsAre DEF AmountsOf, CompletedOf, ValueOf, CountedOf, COUNTED
<1>4. ValueOf(rg) = IF rf[r].kind \in ORDER_VALUE_KINDS THEN ValueOf(rf) \cup {r} ELSE ValueOf(rf)
  BY DEF ValueOf, SameWorth, CompletedOf
<1> HIDE DEF f
<1>5. \A X \in SUBSET Refunds : r \notin X => Sum(f, X \cup {r}) = Sum(f, X) + f[r]
  <2> SUFFICES ASSUME NEW X \in SUBSET Refunds, r \notin X
               PROVE  Sum(f, X \cup {r}) = Sum(f, X) + f[r]
    OBVIOUS
  <2>1. \A x \in Refunds : f[x] \in Nat
    BY <1>3
  <2> QED
    BY ONLY X \in SUBSET Refunds, r \in Refunds, r \notin X, <2>1, OneRowMore
<1>6. q.refunded = Sum(f, CompletedOf(rg))
  BY <1>3, <1>5 DEF BooksInv, f
<1>7. back = Sum(f, ValueOf(rg))
  BY <1>3, <1>4, <1>5, <1>11 DEF BooksInv, f
<1>8. q.refunded <= Paid /\ p.refunded <= q.refunded
  <2>1. Sum(f, CompletedOf(rg)) <= Sum(f, CountedOf(rf))
    BY <1>1, <1>3, RowSumsAre DEF f
  <2>2. Sum(f, CountedOf(rf)) <= Paid
    BY DEF RowsInv, WithinOrder, f
  <2>3. /\ Sum(f, CountedOf(rf)) \in Nat /\ Paid \in Nat /\ q.refunded \in Nat /\ p.refunded \in Nat
        /\ rf[r].amount \in Nat
    BY <1>1, <1>3, RowSumsAre, RefundsKnown DEF f, PaymentType, BooksInv
  <2> QED
    BY <1>6, <2>1, <2>2, <2>3
<1>9. q.status = "refunded" => Paid \in {Sum(f, DoneOf(snt)), q.refunded}
  <2>1. Paid \in Nat /\ q.refunded \in Nat /\ p.refunded \in Nat
    BY RefundsKnown DEF PaymentType, BooksInv
  <2>2. p.status = "refunded" => Paid = Sum(f, DoneOf(snt)) \/ Paid = p.refunded
    BY DEF BooksInv, f
  <2> QED
    BY <1>8, <2>1, <2>2
<1>10. q.method = "provider" => \A x \in CompletedOf(rg) : snt[x] = "done"
  BY DEF BooksInv
<1> QED
  BY <1>2, <1>6, <1>7, <1>9, <1>10, <1>11 DEF BooksInv, f

\* The provider takes a refund, or decides one it took: never more in all than was paid.
LEMMA BooksSent ==
    ASSUME NEW p, NEW ret, NEW rf \in [Refunds -> RowType], NEW snt, BooksInv(p, ret, rf, snt),
           NEW r \in Refunds, rf[r].status # "none", NEW s \in SentStatus,
           snt[r] \in {"no", s} \/ (snt[r] = "pending" /\ s \in {"done", "refused"}),
           snt[r] = "no" /\ s \in {"pending", "done"}
              => Sum(AmountsOf(rf), TakenOf(snt)) + rf[r].amount <= Paid
    PROVE  /\ BooksInv(p, ret, rf, With(snt, r, s))
           /\ \A x \in Refunds : snt[x] = "done" => With(snt, r, s)[x] = "done"
<1>11. PICK tnt : tnt = With(snt, r, s) /\ tnt = [snt EXCEPT ![r] = s]
  BY Zenon DEF With
<1> DEFINE f == AmountsOf(rf)
<1>1. snt \in [Refunds -> SentStatus] /\ tnt \in [Refunds -> SentStatus]
  BY <1>11 DEF BooksInv
<1>2. \A x \in Refunds : tnt[x] = IF x = r THEN s ELSE snt[x]
  BY <1>1, <1>11
<1>3. \A x \in Refunds : snt[x] = "done" => tnt[x] = "done"
  BY <1>1, <1>2
<1>4. /\ DoneOf(snt) \in SUBSET DoneOf(tnt) /\ DoneOf(tnt) \in SUBSET TakenOf(tnt)
      /\ TakenOf(tnt) \in SUBSET Refunds /\ TakenOf(snt) \in SUBSET Refunds
  BY <1>2, <1>3 DEF DoneOf, TakenOf
<1>5. \A x \in Refunds : f[x] \in Nat /\ f[x] = rf[x].amount
  BY RowsAre DEF AmountsOf
<1>6. Sum(f, TakenOf(snt)) <= Paid /\ Sum(f, TakenOf(snt)) \in Nat /\ Paid \in Nat
  BY <1>4, RowSumsAre, RefundsKnown DEF BooksInv
<1>7. Sum(f, TakenOf(tnt)) <= Paid
  <2>1. CASE snt[r] = "no" /\ s \in {"pending", "done"}
    <3>1. TakenOf(tnt) = TakenOf(snt) \cup {r} /\ r \notin TakenOf(snt)
      BY <1>2, <2>1 DEF TakenOf
    <3>2. \A x \in Refunds : f[x] \in Nat
      BY <1>5
    <3> HIDE DEF f
    <3>3. Sum(f, TakenOf(snt) \cup {r}) = Sum(f, TakenOf(snt)) + f[r]
      BY ONLY <1>4, <3>1, <3>2, r \in Refunds, OneRowMore, Zenon
    <3> QED
      BY <1>5, <2>1, <3>1, <3>3 DEF f
  <2>2. CASE ~(snt[r] = "no" /\ s \in {"pending", "done"})
    <3>1. TakenOf(tnt) \in SUBSET TakenOf(snt)
      BY <1>2, <2>2 DEF TakenOf
    <3>2. Sum(f, TakenOf(tnt)) <= Sum(f, TakenOf(snt)) /\ Sum(f, TakenOf(tnt)) \in Nat
      BY <1>4, <3>1, RowSumsAre
    <3> HIDE DEF f
    <3> QED
      BY <1>6, <3>2
  <2> QED
    BY <2>1, <2>2
<1>8. p.status = "refunded" => Paid \in {Sum(f, DoneOf(tnt)), p.refunded}
  <2>1. p.status = "refunded" => Paid = Sum(f, DoneOf(snt)) \/ Paid = p.refunded
    BY DEF BooksInv
  <2>2. /\ Sum(f, DoneOf(snt)) <= Sum(f, DoneOf(tnt)) /\ Sum(f, DoneOf(tnt)) <= Sum(f, TakenOf(tnt))
        /\ Sum(f, DoneOf(snt)) \in Nat /\ Sum(f, DoneOf(tnt)) \in Nat /\ Sum(f, TakenOf(tnt)) \in Nat
    <3>1. DoneOf(tnt) \in SUBSET Refunds /\ DoneOf(snt) \in SUBSET Refunds
      BY DEF DoneOf
    <3> QED
      BY <1>4, <3>1, RowSumsAre
  <2> HIDE DEF f
  <2> QED
    BY <1>6, <1>7, <2>1, <2>2
<1>9. \A x \in Refunds : tnt[x] # "no" => rf[x].status # "none"
  BY <1>2 DEF BooksInv
<1>10. p.method = "provider" => \A x \in CompletedOf(rf) : tnt[x] = "done"
  BY <1>3 DEF BooksInv, CompletedOf
<1> QED
  BY <1>1, <1>3, <1>7, <1>8, <1>9, <1>10, <1>11 DEF BooksInv

(* Refunds: the workers, and the steps *)

AnswerType == {"none", "waits", "error", "failed", "pending", "completed", "lost"}

\* Who waits for an answer holds a refund somebody asked for; "completed" is said of money given back.
WorkersInv(wk, rf, snt) ==
    /\ wk \in [Workers -> [refund : Refunds \cup {NoRefund}, claim : Nat, answer : AnswerType]]
    /\ \A w \in Workers :
          /\ wk[w].refund # NoRefund => rf[wk[w].refund].status # "none"
          /\ wk[w].answer # "none" => wk[w].refund # NoRefund
          /\ wk[w].answer = "completed" => snt[wk[w].refund] = "done"

RefundsInv ==
    RowsInv(refund) /\ BooksInv(payment, returned, refund, sent) /\ WorkersInv(worker, refund, sent)

\* What makes a row go on: it stays asked for, and what is said of it stays true.
LEMMA WorkersKept ==
    ASSUME NEW wk, NEW rf, NEW snt, WorkersInv(wk, rf, snt), NEW rg, NEW tnt,
           \A x \in Refunds : rf[x].status # "none" => rg[x].status # "none",
           \A x \in Refunds : snt[x] = "done" => tnt[x] = "done"
    PROVE  WorkersInv(wk, rg, tnt)
<1>1. \A w \in Workers : wk[w].refund \in Refunds \cup {NoRefund}
  BY DEF WorkersInv
<1>2. \A w \in Workers : wk[w].refund # NoRefund => wk[w].refund \in Refunds
  BY <1>1
<1>3. \A w \in Workers : wk[w].answer = "completed" => wk[w].refund \in Refunds
  BY <1>2 DEF WorkersInv
<1> QED
  BY <1>2, <1>3 DEF WorkersInv

LEMMA WorkerChanges ==
    ASSUME NEW wk, NEW rf, NEW snt, WorkersInv(wk, rf, snt), NEW w \in Workers,
           NEW x \in [refund : Refunds \cup {NoRefund}, claim : Nat, answer : AnswerType],
           x.refund # NoRefund => rf[x.refund].status # "none",
           x.answer # "none" => x.refund # NoRefund,
           x.answer = "completed" => snt[x.refund] = "done",
           NEW vk, vk = [wk EXCEPT ![w] = x]
    PROVE  WorkersInv(vk, rf, snt)
BY DEF WorkersInv

Turned(row, s, n) == [row EXCEPT !.status = s, !.next = n]

\* A row that was asked for and not decided goes to another status.
LEMMA RowTurns ==
    ASSUME NEW rf, RowsInv(rf), NEW r \in Refunds,
           rf[r].status \in {"requested", "approved", "processing"},
           NEW row \in RowType, row.status \in COUNTED \cup {"rejected", "failed"},
           row.amount = rf[r].amount, row.shipping = rf[r].shipping, row.plan = rf[r].plan,
           row.kind = rf[r].kind
    PROVE  /\ RowsInv(With(rf, r, row)) /\ SameWorth(rf, With(rf, r, row))
           /\ \A x \in Refunds : rf[x].status # "none" => With(rf, r, row)[x].status # "none"
           /\ row.status # "completed" => CompletedOf(With(rf, r, row)) = CompletedOf(rf)
           /\ row.status = "completed" => /\ CompletedOf(With(rf, r, row)) = CompletedOf(rf) \cup {r}
                                          /\ CountedOf(With(rf, r, row)) = CountedOf(rf)
<1>10. PICK rg : rg = With(rf, r, row)
  OBVIOUS
<1>1. rf \in [Refunds -> RowType] /\ rg \in [Refunds -> RowType]
  BY <1>10 DEF RowsInv, With
<1>2. \A x \in Refunds : rg[x] = IF x = r THEN row ELSE rf[x]
  BY <1>1, <1>10 DEF With
<1>3. SameWorth(rf, rg)
  BY <1>1, <1>2 DEF SameWorth
<1>4. row.status \in COUNTED => CountedOf(rg) = CountedOf(rf)
  BY <1>2 DEF CountedOf, COUNTED
<1>5. row.status \notin COUNTED => CountedOf(rg) \subseteq CountedOf(rf) /\ r \in RefusedOf(rg)
  BY <1>2 DEF CountedOf, RefusedOf
<1>6. RefusedOf(rf) \subseteq RefusedOf(rg)
  BY <1>2 DEF RefusedOf
<1>7. RowsInv(rg)
  BY <1>3, <1>4, <1>5, <1>6, RowMoves
<1>8. \A x \in Refunds : rf[x].status # "none" => rg[x].status # "none"
  BY <1>2 DEF COUNTED
<1>9. /\ row.status # "completed" => CompletedOf(rg) = CompletedOf(rf)
      /\ row.status = "completed" => CompletedOf(rg) = CompletedOf(rf) \cup {r}
  BY <1>2 DEF CompletedOf
<1> QED
  BY <1>3, <1>4, <1>7, <1>8, <1>9, <1>10 DEF COUNTED

LEMMA RefundsHave ==
    ASSUME RefundsInv
    PROVE  /\ refund \in [Refunds -> RowType] /\ payment \in PaymentType
           /\ sent \in [Refunds -> SentStatus]
           /\ \A r \in Refunds : refund[r] \in RowType
           /\ \A w \in Workers : /\ worker[w].refund \in Refunds \cup {NoRefund}
                                 /\ worker[w].answer # "none" => worker[w].refund \in Refunds
           /\ In(COUNTED) = CountedOf(refund) /\ In({"completed"}) = CompletedOf(refund)
           /\ In({"rejected", "failed"}) = RefusedOf(refund)
           /\ \A X : Cents(X) = Sum(AmountsOf(refund), X)
           /\ ShippingRefunded = Sum(ShippingsOf(refund), CountedOf(refund))
           /\ \A l \in OrderLines : \A X :
                 LinesRefunded(X)[l] = [units |-> Sum(UnitsOf(refund, l), X),
                                        cents |-> Sum(CentsOf(refund, l), X)]
<1>1. refund \in [Refunds -> RowType] /\ payment \in PaymentType /\ sent \in [Refunds -> SentStatus]
  BY DEF RefundsInv, RowsInv, BooksInv
<1>2. \A w \in Workers : /\ worker[w].refund \in Refunds \cup {NoRefund}
                         /\ worker[w].answer # "none" => worker[w].refund \in Refunds
  <2>1. \A w \in Workers : /\ worker[w].refund \in Refunds \cup {NoRefund}
                           /\ worker[w].answer # "none" => worker[w].refund # NoRefund
    BY DEF RefundsInv, WorkersInv
  <2> QED
    BY <2>1
<1>3. /\ In(COUNTED) = CountedOf(refund) /\ In({"completed"}) = CompletedOf(refund)
      /\ In({"rejected", "failed"}) = RefusedOf(refund)
  BY DEF In, CountedOf, CompletedOf, RefusedOf
<1>4. \A X : Cents(X) = Sum(AmountsOf(refund), X)
  BY DEF Cents, AmountsOf
<1>5. ShippingRefunded = Sum(ShippingsOf(refund), CountedOf(refund))
  BY <1>3 DEF ShippingRefunded, ShippingsOf
<1>6. \A l \in OrderLines : \A X :
         LinesRefunded(X)[l] = [units |-> Sum(UnitsOf(refund, l), X), cents |-> Sum(CentsOf(refund, l), X)]
  BY DEF LinesRefunded, UnitsOf, CentsOf, OrderLines
<1> QED
  BY <1>1, <1>2, <1>3, <1>4, <1>5, <1>6

LEMMA RefundTyped ==
    ASSUME NEW row \in RowType, NEW s \in RefundStatus, NEW n \in {"now", "later", "never"}
    PROVE  /\ Turned(row, s, n) \in RowType /\ Turned(row, s, n).status = s
           /\ Turned(row, s, n).amount = row.amount /\ Turned(row, s, n).shipping = row.shipping
           /\ Turned(row, s, n).plan = row.plan /\ Turned(row, s, n).kind = row.kind
BY Zenon DEF RowType, Turned

\* A decision, or an answer that completes nothing: the row alone changes.
LEMMA RowDecided ==
    ASSUME RefundsInv, NEW r \in Refunds, refund[r].status \in {"requested", "approved", "processing"},
           NEW row \in RowType, row.amount = refund[r].amount, row.shipping = refund[r].shipping,
           row.plan = refund[r].plan, row.kind = refund[r].kind,
           row.status \notin {"none", "completed"}, NEW rg, rg = With(refund, r, row)
    PROVE  RowsInv(rg) /\ BooksInv(payment, returned, rg, sent) /\ WorkersInv(worker, rg, sent)
<1>1. RowsInv(refund) /\ BooksInv(payment, returned, refund, sent) /\ WorkersInv(worker, refund, sent)
  BY DEF RefundsInv
<1>2. row.status \in COUNTED \cup {"rejected", "failed"} /\ row.status # "completed"
  BY DEF RowType, RefundStatus
<1>3. /\ RowsInv(rg) /\ SameWorth(refund, rg) /\ CompletedOf(rg) = CompletedOf(refund)
      /\ \A x \in Refunds : refund[x].status # "none" => rg[x].status # "none"
  BY <1>1, <1>2, RowTurns
<1>4. BooksInv(payment, returned, rg, sent)
  BY <1>1, <1>3, RefundsHave, BooksKept
<1>5. WorkersInv(worker, rg, sent)
  BY <1>1, <1>3, WorkersKept
<1> QED
  BY <1>3, <1>4, <1>5

LEMMA RefundsInvNext ==
    ASSUME NEW rg, NEW p, NEW ret, NEW snt, NEW wk,
           refund' = rg, payment' = p, returned' = ret, sent' = snt, worker' = wk,
           RowsInv(rg), BooksInv(p, ret, rg, snt), WorkersInv(wk, rg, snt)
    PROVE  RefundsInv'
BY DEF RefundsInv

LEMMA RefundsStart ==
    ASSUME RefundsInit
    PROVE  RefundsInv
<1> DEFINE rf == refund
<1>1. /\ refund \in [Refunds -> RowType]
      /\ \A r \in Refunds : /\ refund[r].status = "none" /\ refund[r].amount = 0
                            /\ refund[r].shipping = 0 /\ refund[r].plan = NoLines(Order)
  BY DEF RefundsInit, RowType, RefundStatus, RefundKind, NoLines, OrderLines
<1>2. CountedOf(refund) = {} /\ CompletedOf(refund) = {} /\ ValueOf(refund) = {}
  BY <1>1 DEF CountedOf, CompletedOf, ValueOf, COUNTED
<1>3. DoneOf(sent) = {} /\ TakenOf(sent) = {}
  BY DEF RefundsInit, DoneOf, TakenOf
<1>4. \A f : Sum(f, {}) = 0
  BY SumEmpty
<1>5. \A l \in OrderLines : 0 <= Order.units[l] /\ Fits(l, 0, 0)
  <2> SUFFICES ASSUME NEW l \in OrderLines
               PROVE  0 <= Order.units[l] /\ Fits(l, 0, 0)
    OBVIOUS
  <2>1. PICK n, F \in Nat : n = Order.units[l] /\ F = FullLineCents[l] /\ n > 0
    BY LinesKnown, FullLineSums
  <2> QED
    BY <2>1 DEF Fits
<1>6. RowsInv(refund)
  BY <1>1, <1>2, <1>4, <1>5, RefundsKnown DEF RowsInv, WithinOrder
<1>7. BooksInv(payment, returned, refund, sent)
  <2>1. /\ payment \in PaymentType /\ payment.refunded = 0 /\ payment.status = "approved"
        /\ returned = 0 /\ sent \in [Refunds -> SentStatus] /\ \A r \in Refunds : sent[r] = "no"
    BY DEF RefundsInit, PaymentType, PaymentStatus, SentStatus
  <2>2. Sum(AmountsOf(refund), {}) = 0
    BY <1>4
  <2> QED
    BY <1>2, <1>3, <2>1, <2>2, RefundsKnown DEF BooksInv
<1>8. WorkersInv(worker, refund, sent)
  BY DEF RefundsInit, WorkersInv, AnswerType
<1> QED
  BY <1>6, <1>7, <1>8 DEF RefundsInv

LEMMA RefundsStutter ==
    ASSUME RefundsInv, UNCHANGED refundVars
    PROVE  RefundsInv'
BY DEF RefundsInv, refundVars

\* `request`: what is asked for is at most what remains, and its pieces fit.
LEMMA RefundAsked ==
    ASSUME RefundsInv, NEW r \in Refunds, NEW kind \in RefundKind, NEW amount \in Int,
           NEW shipping \in Nat, NEW plan \in [OrderLines -> [units : Nat, cents : Nat]],
           NewRefund(r, kind, amount, shipping, plan),
           Sum(ShippingsOf(refund), CountedOf(refund)) + shipping <= Order.shipping,
           \A l \in OrderLines :
              LET u == Sum(UnitsOf(refund, l), CountedOf(refund))
                  c == Sum(CentsOf(refund, l), CountedOf(refund))
              IN  /\ u + plan[l].units <= Order.units[l]
                  /\ Fits(l, u, c) => Fits(l, u + plan[l].units, c + plan[l].cents)
    PROVE  RefundsInv'
<1>1. PICK s \in {"requested", "approved"}, n \in {"now", "never"} :
         refund' = [refund EXCEPT ![r] = [status |-> s, kind |-> kind, amount |-> amount,
                       shipping |-> shipping, plan |-> plan, attempts |-> 0, next |-> n]]
  BY Zenon DEF NewRefund
<1>2. /\ refund[r].status = "none" /\ amount > 0 /\ amount <= Remaining
      /\ UNCHANGED <<payment, returned, sent, worker>>
  BY DEF NewRefund
<1>3. PICK row : row = [status |-> s, kind |-> kind, amount |-> amount, shipping |-> shipping,
                        plan |-> plan, attempts |-> 0, next |-> n]
  BY Zenon
<1>4. /\ row \in RowType /\ row.status = s /\ row.amount = amount /\ row.shipping = shipping
      /\ row.plan = plan
  <2>1. s \in RefundStatus /\ amount \in Nat
    BY <1>2 DEF RefundStatus, COUNTED
  <2> QED
    BY <1>3, <2>1 DEF RowType
<1>5. PICK rg : rg = [refund EXCEPT ![r] = row] /\ refund' = rg
  BY <1>1, <1>3
<1>6. RowsInv(refund) /\ BooksInv(payment, returned, refund, sent) /\ WorkersInv(worker, refund, sent)
  BY DEF RefundsInv
<1>7. Sum(AmountsOf(refund), CountedOf(refund)) + row.amount <= Paid
  <2>1. /\ Cents(In(COUNTED)) = Sum(AmountsOf(refund), CountedOf(refund))
        /\ Sum(AmountsOf(refund), CountedOf(refund)) \in Nat /\ Paid \in Nat
    <3>1. CountedOf(refund) \in SUBSET Refunds
      BY DEF CountedOf
    <3> QED
      BY <3>1, RefundsHave, RowSumsAre, RefundsKnown
  <2> QED
    BY <1>2, <1>4, <2>1 DEF Remaining
<1>8. RowsInv(rg)
  <2>1. row.status \in COUNTED /\ row \in RowType
    BY <1>4 DEF COUNTED
  <2>2. Sum(ShippingsOf(refund), CountedOf(refund)) + row.shipping <= Order.shipping
    BY <1>4
  <2>3. \A l \in OrderLines :
           LET u == Sum(UnitsOf(refund, l), CountedOf(refund))
               c == Sum(CentsOf(refund, l), CountedOf(refund))
           IN  /\ u + row.plan[l].units <= Order.units[l]
               /\ Fits(l, u, c) => Fits(l, u + row.plan[l].units, c + row.plan[l].cents)
    BY <1>4
  <2>4. RowsInv(refund) /\ refund[r].status = "none"
    BY <1>2, <1>6
  <2> QED
    BY ONLY <1>5, <1>7, <2>1, <2>2, <2>3, <2>4, r \in Refunds, RowAdded, Zenon
<1>9. BooksInv(payment, returned, rg, sent)
  <2>1. refund \in [Refunds -> RowType]
    BY RefundsHave
  <2> QED
    BY <1>2, <1>4, <1>5, <1>6, <2>1, BooksAdded, Zenon
<1>10. WorkersInv(worker, rg, sent)
  <2>1. \A x \in Refunds : refund[x].status # "none" => rg[x].status # "none"
    BY <1>4, <1>5, RefundsHave
  <2> QED
    BY <1>6, <2>1, WorkersKept
<1> QED
  BY <1>2, <1>5, <1>8, <1>9, <1>10, RefundsInvNext, Zenon

LEMMA NoLinesFit ==
    ASSUME RefundsInv
    PROVE  /\ NoLines(Order) \in [OrderLines -> [units : Nat, cents : Nat]]
           /\ Sum(ShippingsOf(refund), CountedOf(refund)) + 0 <= Order.shipping
           /\ \A l \in OrderLines :
                 LET u == Sum(UnitsOf(refund, l), CountedOf(refund))
                     c == Sum(CentsOf(refund, l), CountedOf(refund))
                 IN  /\ u + NoLines(Order)[l].units <= Order.units[l]
                     /\ Fits(l, u, c)
                        => Fits(l, u + NoLines(Order)[l].units, c + NoLines(Order)[l].cents)
<1>1. NoLines(Order) = [l \in OrderLines |-> [units |-> 0, cents |-> 0]]
  BY DEF NoLines, OrderLines
<1>2. RowsInv(refund) /\ refund \in [Refunds -> RowType] /\ CountedOf(refund) \in SUBSET Refunds
  BY DEF RefundsInv, RowsInv, CountedOf
<1>3. Sum(ShippingsOf(refund), CountedOf(refund)) \in Nat
  BY <1>2, RowSumsAre
<1>4. \A l \in OrderLines : /\ Sum(UnitsOf(refund, l), CountedOf(refund)) \in Nat
                            /\ Sum(CentsOf(refund, l), CountedOf(refund)) \in Nat
  BY <1>2, RowSumsAre
<1>5. /\ Sum(ShippingsOf(refund), CountedOf(refund)) <= Order.shipping
      /\ \A l \in OrderLines : Sum(UnitsOf(refund, l), CountedOf(refund)) <= Order.units[l]
  BY <1>2 DEF RowsInv, WithinOrder
<1> QED
  BY <1>1, <1>3, <1>4, <1>5

LEMMA RefundsRequestAmount ==
    ASSUME RefundsInv, NEW r \in Refunds, NEW amount \in Amounts, RequestAmount(r, amount)
    PROVE  RefundsInv'
<1>1. amount \in Int /\ "operator" \in RefundKind /\ 0 \in Nat
  BY RefundsAssumption DEF RefundKind
<1>2. NewRefund(r, "operator", amount, 0, NoLines(Order))
  BY DEF RequestAmount
<1> QED
  BY <1>1, <1>2, NoLinesFit, RefundAsked

LEMMA RefundsRequestRest ==
    ASSUME RefundsInv, NEW r \in Refunds, NEW kind \in RefundKind, RequestRest(r, kind)
    PROVE  RefundsInv'
<1>1. Remaining \in Int
  <2>1. CountedOf(refund) \in SUBSET Refunds
    BY DEF CountedOf
  <2> QED
    BY <2>1, RefundsHave, RowSumsAre, RefundsKnown DEF Remaining
<1>2. NewRefund(r, kind, Remaining, 0, NoLines(Order)) /\ 0 \in Nat
  BY DEF RequestRest
<1> QED
  BY <1>1, <1>2, NoLinesFit, RefundAsked, Zenon

LEMMA RefundsRequestItems ==
    ASSUME RefundsInv, NEW r \in Refunds, NEW selection \in Selections, NEW withShipping \in BOOLEAN,
           RequestItems(r, selection, withShipping)
    PROVE  RefundsInv'
<1> DEFINE done == LinesRefunded(In(COUNTED))
           came == [l \in OrderLines |-> Sum(UnitsOf(refund, l), CountedOf(refund))]
           cost == [l \in OrderLines |-> Sum(CentsOf(refund, l), CountedOf(refund))]
           freight == Sum(ShippingsOf(refund), CountedOf(refund))
<1>1. PICK plan, shipping :
         /\ plan = RefundPlan(Order, selection, done)
         /\ shipping = IF withShipping THEN Order.shipping - ShippingRefunded ELSE 0
         /\ withShipping => shipping > 0
         /\ NewRefund(r, "operator", PlanCents(plan) + shipping, shipping, plan)
  BY DEF RequestItems
<1>2. RowsInv(refund) /\ refund \in [Refunds -> RowType] /\ CountedOf(refund) \in SUBSET Refunds
  BY DEF RefundsInv, RowsInv, CountedOf
<1>3. /\ freight \in Nat /\ freight <= Order.shipping /\ Order.shipping \in Nat
      /\ \A l \in OrderLines : came[l] \in Nat /\ cost[l] \in Nat /\ came[l] <= Order.units[l]
  BY <1>2, RowSumsAre, RefundsKnown DEF RowsInv, WithinOrder
<1>4. ShippingRefunded = freight /\ \A l \in OrderLines : done[l].units = came[l] /\ done[l].cents = cost[l]
  <2>1. ShippingRefunded = freight /\ In(COUNTED) = CountedOf(refund)
    BY RefundsHave
  <2>2. \A l \in OrderLines : done[l] = [units |-> came[l], cents |-> cost[l]]
    BY <2>1 DEF LinesRefunded, UnitsOf, CentsOf, OrderLines
  <2>3. ASSUME NEW l \in OrderLines
        PROVE  done[l].units = came[l] /\ done[l].cents = cost[l]
    <3>1. PICK u, c : u = came[l] /\ c = cost[l]
      OBVIOUS
    <3>2. done[l] = [units |-> u, cents |-> c]
      BY <2>2, <3>1
    <3> HIDE DEF done, came, cost
    <3> QED
      BY <3>1, <3>2
  <2> HIDE DEF done, came, cost, freight
  <2> QED
    BY <2>1, <2>3
<1>5. shipping \in Nat /\ freight + shipping <= Order.shipping
  BY <1>1, <1>3, <1>4
<1>6. \A l \in OrderLines : selection[l] \in Nat /\ plan[l] = Piece(Order, done, l, selection[l])
  BY <1>1, RefundsAssumption DEF RefundPlan, OrderLines
<1> HIDE DEF done, came, cost, freight
<1>7. ASSUME NEW l \in OrderLines
      PROVE  /\ plan[l] \in [units : Nat, cents : Nat]
             /\ came[l] + plan[l].units <= Order.units[l]
             /\ Fits(l, came[l], cost[l]) => Fits(l, came[l] + plan[l].units, cost[l] + plan[l].cents)
  <2>1. done[l].units \in Nat /\ done[l].cents \in Nat /\ done[l].units <= Order.units[l]
    BY <1>3, <1>4
  <2>2. PICK u, c \in Nat :
           /\ plan[l] = [units |-> u, cents |-> c]
           /\ done[l].units + u <= Order.units[l]
           /\ Fits(l, done[l].units, done[l].cents) => Fits(l, done[l].units + u, done[l].cents + c)
    BY <1>6, <2>1, PiecesFit
  <2> QED
    BY <1>4, <2>2
<1>8. plan \in [OrderLines -> [units : Nat, cents : Nat]]
  <2>1. plan = [l \in OrderLines |-> Piece(Order, done, l, selection[l])]
    BY <1>1 DEF RefundPlan, OrderLines
  <2> QED
    BY <1>6, <1>7, <2>1
<1>9. PlanCents(plan) \in Nat
  <2>1. PICK f : f = [l \in OrderLines |-> plan[l].cents]
    BY Zenon
  <2>2. \A l \in OrderLines : f[l] \in Nat
    BY <1>7, <2>1
  <2>3. Sum(f, OrderLines) \in Nat
    BY <2>2, LinesKnown, SumGrows, Zenon
  <2>4. DOMAIN plan = OrderLines
    BY <1>8
  <2> QED
    BY <2>1, <2>3, <2>4 DEF PlanCents
<1>10. /\ NewRefund(r, "operator", PlanCents(plan) + shipping, shipping, plan)
       /\ "operator" \in RefundKind /\ PlanCents(plan) + shipping \in Int
  BY <1>1, <1>5, <1>9 DEF RefundKind
<1>11. Sum(ShippingsOf(refund), CountedOf(refund)) + shipping <= Order.shipping
  BY <1>5 DEF freight
<1>12. \A l \in OrderLines :
          LET u == Sum(UnitsOf(refund, l), CountedOf(refund))
              c == Sum(CentsOf(refund, l), CountedOf(refund))
          IN  /\ u + plan[l].units <= Order.units[l]
              /\ Fits(l, u, c) => Fits(l, u + plan[l].units, c + plan[l].cents)
  BY <1>7 DEF came, cost
<1> QED
  BY <1>5, <1>8, <1>10, <1>11, <1>12, RefundAsked

LEMMA RefundsParts ==
    ASSUME RefundsInv
    PROVE  /\ RowsInv(refund) /\ BooksInv(payment, returned, refund, sent)
           /\ WorkersInv(worker, refund, sent)
BY DEF RefundsInv

LEMMA RefundsDecide ==
    ASSUME RefundsInv, NEW r \in Refunds, Approve(r) \/ Reject(r)
    PROVE  RefundsInv'
<1>1. PICK s \in {"approved", "rejected"}, n \in {"now", "later", "never"} :
         refund' = With(refund, r, Turned(refund[r], s, n))
  BY Zenon DEF Approve, Reject, With, Turned
<1>2. refund[r].status = "requested" /\ UNCHANGED <<payment, returned, sent, worker>>
  BY DEF Approve, Reject
<1>3. refund[r] \in RowType /\ s \in RefundStatus
  BY RefundsHave DEF RefundStatus, COUNTED
<1>4. PICK row : row = Turned(refund[r], s, n)
  OBVIOUS
<1>5. /\ row \in RowType /\ row.status = s /\ row.amount = refund[r].amount
      /\ row.shipping = refund[r].shipping /\ row.plan = refund[r].plan /\ row.kind = refund[r].kind
  BY <1>3, <1>4, RefundTyped, Zenon
<1>6. PICK rg : rg = With(refund, r, row) /\ refund' = rg
  BY <1>1, <1>4
<1>7. RowsInv(rg) /\ BooksInv(payment, returned, rg, sent) /\ WorkersInv(worker, rg, sent)
  BY <1>2, <1>5, <1>6, RowDecided
<1> QED
  BY <1>2, <1>6, <1>7, RefundsInvNext

LEMMA RefundsTimeComes ==
    ASSUME RefundsInv, NEW r \in Refunds, TimeComes(r)
    PROVE  RefundsInv'
<1>1. /\ refund' = [refund EXCEPT ![r].next = "now"] /\ refund \in [Refunds -> RowType]
      /\ UNCHANGED <<payment, returned, sent, worker>>
  BY RefundsHave DEF TimeComes
<1>2. PICK rg : rg = [refund EXCEPT ![r].next = "now"] /\ refund' = rg
  BY <1>1
<1>3. rg \in [Refunds -> RowType] /\ \A x \in Refunds : rg[x].status = refund[x].status
  BY <1>1, <1>2 DEF RowType
<1>4. SameWorth(refund, rg)
  BY <1>1, <1>2, <1>3 DEF SameWorth, RowType
<1>5. /\ CountedOf(rg) = CountedOf(refund) /\ RefusedOf(rg) = RefusedOf(refund)
      /\ CompletedOf(rg) = CompletedOf(refund)
  BY <1>3 DEF CountedOf, RefusedOf, CompletedOf
<1>6. RowsInv(rg)
  BY <1>4, <1>5, RefundsParts, RowMoves
<1>7. BooksInv(payment, returned, rg, sent)
  BY <1>3, <1>4, <1>5, RefundsParts, RefundsHave, BooksKept
<1>8. WorkersInv(worker, rg, sent)
  BY <1>3, RefundsParts, WorkersKept
<1> QED
  BY <1>1, <1>2, <1>6, <1>7, <1>8, RefundsInvNext, Zenon

LEMMA RefundsNotice ==
    ASSUME RefundsInv, Notice
    PROVE  RefundsInv'
<1>1. PICK s \in {"partially_refunded", "refunded", "chargeback"} :
         /\ s = "refunded" => DoneCents = Paid
         /\ payment' = [payment EXCEPT !.status = s]
  BY DEF Notice
<1>2. UNCHANGED <<returned, refund, sent, worker>>
  BY DEF Notice
<1>3. PICK q : q = [payment EXCEPT !.status = s] /\ payment' = q
  BY <1>1
<1>4. q \in PaymentType /\ q.refunded = payment.refunded /\ q.method = payment.method /\ q.status = s
  BY <1>3, RefundsHave DEF PaymentType, PaymentStatus
<1>5. DoneCents = Sum(AmountsOf(refund), DoneOf(sent))
  BY RefundsHave DEF DoneCents, DoneOf
<1>6. refund \in [Refunds -> RowType] /\ SameWorth(refund, refund)
  BY RefundsHave DEF SameWorth
<1>7. BooksInv(q, returned, refund, sent)
  BY <1>1, <1>4, <1>5, <1>6, RefundsParts, BooksKept
<1> QED
  BY <1>2, <1>3, <1>7, RefundsParts, RefundsInvNext

LEMMA RefundsDies ==
    ASSUME RefundsInv, NEW w \in Workers, Dies(w)
    PROVE  RefundsInv'
<1>1. PICK x : x = [refund |-> NoRefund, claim |-> 0, answer |-> "none"]
  BY Zenon
<1>2. x \in [refund : Refunds \cup {NoRefund}, claim : Nat, answer : AnswerType]
  BY <1>1 DEF AnswerType
<1>3. PICK vk : vk = [worker EXCEPT ![w] = x] /\ worker' = vk
  BY <1>1 DEF Dies, Rest
<1>4. WorkersInv(vk, refund, sent)
  BY <1>1, <1>2, <1>3, RefundsParts, WorkerChanges, Zenon
<1>5. UNCHANGED <<payment, returned, refund, sent>>
  BY DEF Dies
<1> QED
  BY <1>3, <1>4, <1>5, RefundsParts, RefundsInvNext, Zenon

LEMMA RefundsClaim ==
    ASSUME RefundsInv, NEW w \in Workers, NEW r \in Refunds, Claim(w, r)
    PROVE  RefundsInv'
<1>1. /\ refund[r].status \in {"approved", "processing"} /\ refund[r] \in RowType
      /\ UNCHANGED <<payment, returned, sent>>
  BY RefundsHave DEF Claim
<1>11. PICK a \in Nat : a = refund[r].attempts + 1
  BY <1>1 DEF RowType
<1>12. PICK old \in RowType : old = refund[r]
  BY <1>1
<1>2. PICK row : row = [old EXCEPT !.status = "processing", !.attempts = a, !.next = "later"]
  OBVIOUS
<1>3. PICK rg : rg = With(refund, r, row) /\ refund' = rg
  BY <1>2, <1>11, <1>12, Zenon DEF Claim, With
<1>4. /\ row \in RowType /\ row.status = "processing" /\ row.amount = refund[r].amount
      /\ row.shipping = refund[r].shipping /\ row.plan = refund[r].plan /\ row.kind = refund[r].kind
  <2>1. "processing" \in RefundStatus
    BY DEF RefundStatus, COUNTED
  <2> QED
    BY <1>2, <1>12, <2>1, Zenon DEF RowType
<1>5. RowsInv(rg) /\ BooksInv(payment, returned, rg, sent) /\ WorkersInv(worker, rg, sent)
  BY <1>1, <1>3, <1>4, RowDecided
<1>6. PICK x : x = [refund |-> r, claim |-> refund[r].attempts + 1, answer |-> "waits"]
  BY Zenon
<1>7. x \in [refund : Refunds \cup {NoRefund}, claim : Nat, answer : AnswerType]
  BY <1>1, <1>6 DEF RowType, AnswerType
<1>8. PICK vk : vk = [worker EXCEPT ![w] = x] /\ worker' = vk
  BY <1>6, Zenon DEF Claim
<1>9. rg[x.refund].status # "none" /\ x.refund # NoRefund /\ x.answer # "completed"
  <2>1. rg[r] = row
    BY <1>3, RefundsHave DEF With
  <2>2. r # NoRefund
    BY RefundsKnown DEF NoRefund
  <2> QED
    BY <1>4, <1>6, <2>1, <2>2
<1>10. WorkersInv(vk, rg, sent)
  BY <1>5, <1>7, <1>8, <1>9, WorkerChanges, Zenon
<1> QED
  BY <1>1, <1>3, <1>5, <1>8, <1>10, RefundsInvNext, Zenon

LEMMA RefundCompleted ==
    ASSUME RefundsInv, NEW r \in Refunds, refund[r].status \in {"approved", "processing"},
           payment.method = "provider" => sent[r] = "done", Completed(r)
    PROVE  \E rg, q, back :
              /\ refund' = rg /\ payment' = q /\ returned' = back
              /\ RowsInv(rg) /\ BooksInv(q, back, rg, sent) /\ WorkersInv(worker, rg, sent)
<1> DEFINE total == payment.refunded + refund[r].amount
           target == IF total >= Paid THEN "refunded" ELSE "partially_refunded"
<1>1. /\ refund' = With(refund, r, Turned(refund[r], "completed", "never"))
      /\ payment' = [payment EXCEPT !.refunded = total, !.status = Moved(payment.status, target)]
      /\ returned' = IF refund[r].kind \in ORDER_VALUE_KINDS THEN returned + refund[r].amount ELSE returned
  BY Zenon DEF Completed, With, Turned
<1>2. refund[r] \in RowType /\ payment \in PaymentType /\ "completed" \in RefundStatus
  BY RefundsHave DEF RefundStatus, COUNTED
<1>3. PICK row : row = Turned(refund[r], "completed", "never")
  OBVIOUS
<1>4. /\ row \in RowType /\ row.status = "completed" /\ row.amount = refund[r].amount
      /\ row.shipping = refund[r].shipping /\ row.plan = refund[r].plan /\ row.kind = refund[r].kind
  BY <1>2, <1>3, RefundTyped, Zenon
<1>5. PICK rg : rg = With(refund, r, row) /\ refund' = rg
  BY <1>1, <1>3
<1>6. /\ RowsInv(rg) /\ SameWorth(refund, rg)
      /\ \A x \in Refunds : refund[x].status # "none" => rg[x].status # "none"
      /\ CompletedOf(rg) = CompletedOf(refund) \cup {r} /\ CountedOf(rg) = CountedOf(refund)
  <2>1. row.status \in COUNTED \cup {"rejected", "failed"}
    BY <1>4 DEF COUNTED
  <2> QED
    BY <1>4, <1>5, <2>1, RefundsParts, RowTurns
<1>7. PICK t \in Nat, s \in PaymentStatus :
         /\ t = payment.refunded + refund[r].amount
         /\ s = Moved(payment.status, target)
         /\ s = "refunded" => payment.status = "refunded" \/ t >= Paid
  <2>1. total \in Nat
    BY <1>2 DEF PaymentType, RowType
  <2>2. Moved(payment.status, target) \in {payment.status, target}
    BY DEF Moved
  <2>3. target \in PaymentStatus /\ payment.status \in PaymentStatus
    BY <1>2 DEF PaymentType, PaymentStatus
  <2>4. target = "refunded" => total >= Paid
    OBVIOUS
  <2> HIDE DEF target
  <2> QED
    BY <2>1, <2>2, <2>3, <2>4
<1> HIDE DEF target
<1>8. PICK q : q = [payment EXCEPT !.refunded = t, !.status = s] /\ payment' = q
  BY <1>1, <1>7
<1>9. q \in PaymentType /\ q.refunded = t /\ q.method = payment.method /\ q.status = s
  BY <1>2, <1>8, Zenon DEF PaymentType
<1>10. PICK back : back = BackWith(refund, r, returned) /\ returned' = back
  BY <1>1 DEF BackWith
<1>11. BooksInv(q, back, rg, sent)
  <2>1. /\ q.refunded = payment.refunded + refund[r].amount
        /\ q.status = "refunded" => payment.status = "refunded" \/ q.refunded >= Paid
    BY <1>7, <1>9
  <2>2. RowsInv(refund) /\ BooksInv(payment, returned, refund, sent)
    BY RefundsParts
  <2> QED
    BY ONLY <1>6, <1>9, <1>10, <2>1, <2>2, r \in Refunds,
            refund[r].status \in {"approved", "processing"},
            payment.method = "provider" => sent[r] = "done", BooksCompleted
<1>12. WorkersInv(worker, rg, sent)
  BY <1>6, RefundsParts, WorkersKept
<1> QED
  BY <1>5, <1>6, <1>8, <1>10, <1>11, <1>12

LEMMA RefundsCompleteExternal ==
    ASSUME RefundsInv, NEW r \in Refunds, CompleteExternal(r)
    PROVE  RefundsInv'
<1>1. /\ refund[r].status \in {"approved", "processing"}
      /\ payment.method = "provider" => sent[r] = "done"
      /\ Completed(r) /\ UNCHANGED <<sent, worker>>
  BY DEF CompleteExternal
<1> QED
  BY <1>1, RefundCompleted, RefundsInvNext

LEMMA WorkerRests ==
    ASSUME NEW w \in Workers, Rest(w)
    PROVE  \E vk : /\ worker' = vk
                   /\ \A rf, snt : WorkersInv(worker, rf, snt) => WorkersInv(vk, rf, snt)
<1>1. PICK x : x = [refund |-> NoRefund, claim |-> 0, answer |-> "none"]
  BY Zenon
<1>2. /\ x \in [refund : Refunds \cup {NoRefund}, claim : Nat, answer : AnswerType]
      /\ x.refund = NoRefund /\ x.answer = "none"
  BY <1>1 DEF AnswerType
<1>3. PICK vk : vk = [worker EXCEPT ![w] = x] /\ worker' = vk
  BY <1>1 DEF Rest
<1>4. \A rf, snt : WorkersInv(worker, rf, snt) => WorkersInv(vk, rf, snt)
  BY <1>2, <1>3, WorkerChanges, Zenon
<1> QED
  BY <1>3, <1>4, Zenon

\* `process` after the answer: the claim is read again, and "completed" was said of what was done.
LEMMA RefundsRecord ==
    ASSUME RefundsInv, NEW w \in Workers, Record(w)
    PROVE  RefundsInv'
<1> DEFINE r == worker[w].refund
<1>1. r \in Refunds /\ Answered(w) /\ Rest(w) /\ UNCHANGED sent
  <2>1. Answered(w) /\ Rest(w) /\ UNCHANGED sent
    BY DEF Record
  <2> QED
    BY <2>1, RefundsHave DEF Answered
<1>2. PICK vk : /\ worker' = vk
                /\ \A rf, snt : WorkersInv(worker, rf, snt) => WorkersInv(vk, rf, snt)
  BY <1>1, WorkerRests
<1>3. \/ UNCHANGED <<refund, payment, returned>>
      \/ refund[r].status = "processing" /\ worker[w].answer = "completed" /\ Completed(r)
      \/ /\ refund[r].status = "processing" /\ UNCHANGED <<payment, returned>>
         /\ \E s \in {"approved", "failed"}, n \in {"later", "never"} :
               refund' = With(refund, r, Turned(refund[r], s, n))
  <2>1. worker[w].answer \in {"error", "failed", "pending", "completed", "lost"}
    <3>1. worker[w].answer \in AnswerType
      BY DEF RefundsInv, WorkersInv
    <3> QED
      BY <1>1, <3>1 DEF AnswerType, Answered
  <2>2. CASE ~StillMine(w)
    BY <2>2, Zenon DEF Record
  <2>3. CASE StillMine(w) /\ worker[w].answer = "completed"
    BY <2>3 DEF Record, StillMine
  <2>4. CASE StillMine(w) /\ worker[w].answer = "pending"
    BY <2>4, Zenon DEF Record, StillMine, With, Turned
  <2>5. CASE StillMine(w) /\ worker[w].answer \in {"failed", "error", "lost"}
    <3>1. \/ /\ refund' = [refund EXCEPT ![r].status = "failed", ![r].next = "never"]
             /\ UNCHANGED <<payment, returned>>
          \/ /\ refund' = [refund EXCEPT ![r].status = "approved", ![r].next = "later"]
             /\ UNCHANGED <<payment, returned>>
      BY <2>5, Zenon DEF Record
    <3>2. refund[r].status = "processing"
      BY <2>5 DEF StillMine
    <3> QED
      BY <3>1, <3>2, Zenon DEF With, Turned
  <2> QED
    BY <2>1, <2>2, <2>3, <2>4, <2>5
<1>4. CASE UNCHANGED <<refund, payment, returned>>
  BY <1>1, <1>2, <1>4, RefundsParts, RefundsInvNext
<1>5. CASE refund[r].status = "processing" /\ worker[w].answer = "completed" /\ Completed(r)
  <2>1. sent[r] = "done"
    BY <1>5 DEF RefundsInv, WorkersInv
  <2>2. PICK rg, q, back : /\ refund' = rg /\ payment' = q /\ returned' = back
                           /\ RowsInv(rg) /\ BooksInv(q, back, rg, sent) /\ WorkersInv(worker, rg, sent)
    BY <1>1, <1>5, <2>1, RefundCompleted
  <2> QED
    BY <1>1, <1>2, <2>2, RefundsInvNext
<1>6. CASE /\ refund[r].status = "processing" /\ UNCHANGED <<payment, returned>>
           /\ \E s \in {"approved", "failed"}, n \in {"later", "never"} :
                 refund' = With(refund, r, Turned(refund[r], s, n))
  <2>1. PICK s \in {"approved", "failed"}, n \in {"now", "later", "never"} :
           refund' = With(refund, r, Turned(refund[r], s, n))
    BY <1>6
  <2>2. refund[r] \in RowType /\ s \in RefundStatus
    BY <1>1, RefundsHave DEF RefundStatus, COUNTED
  <2>3. PICK row : row = Turned(refund[r], s, n)
    OBVIOUS
  <2>4. /\ row \in RowType /\ row.status = s /\ row.amount = refund[r].amount
        /\ row.shipping = refund[r].shipping /\ row.plan = refund[r].plan /\ row.kind = refund[r].kind
    BY <2>2, <2>3, RefundTyped, Zenon
  <2>5. PICK rg : rg = With(refund, r, row) /\ refund' = rg
    BY <2>1, <2>3
  <2>6. RowsInv(rg) /\ BooksInv(payment, returned, rg, sent) /\ WorkersInv(worker, rg, sent)
    BY <1>1, <1>6, <2>4, <2>5, RowDecided
  <2> QED
    BY <1>1, <1>2, <1>6, <2>5, <2>6, RefundsInvNext
<1> QED
  BY <1>3, <1>4, <1>5, <1>6

LEMMA RefundsSettle ==
    ASSUME RefundsInv, NEW r \in Refunds, ProviderSettles(r)
    PROVE  RefundsInv'
<1>1. PICK s \in {"done", "refused"} : sent' = [sent EXCEPT ![r] = s]
  BY Zenon DEF ProviderSettles
<1>2. sent[r] = "pending" /\ UNCHANGED <<payment, returned, refund, worker>>
  BY DEF ProviderSettles
<1>3. PICK tnt : tnt = With(sent, r, s) /\ sent' = tnt
  BY <1>1 DEF With
<1>4. /\ refund[r].status # "none" /\ s \in SentStatus /\ refund \in [Refunds -> RowType]
      /\ BooksInv(payment, returned, refund, sent)
  BY <1>2, RefundsHave, RefundsParts DEF BooksInv, SentStatus
<1>5. BooksInv(payment, returned, refund, tnt) /\ \A x \in Refunds : sent[x] = "done" => tnt[x] = "done"
  BY <1>2, <1>3, <1>4, BooksSent
<1>6. WorkersInv(worker, refund, tnt)
  BY <1>5, RefundsParts, WorkersKept
<1> QED
  BY <1>2, <1>3, <1>5, <1>6, RefundsParts, RefundsInvNext

\* The provider takes a refund once, within what was paid, and says so, unless the answer is lost.
LEMMA RefundsAnswered ==
    ASSUME RefundsInv, NEW w \in Workers, ProviderAnswers(w)
    PROVE  RefundsInv'
<1> DEFINE r == worker[w].refund
<1>1. /\ worker[w].answer = "waits" /\ UNCHANGED <<payment, returned, refund>>
      /\ r \in Refunds /\ refund[r].status # "none"
  <2>1. worker[w].answer = "waits" /\ UNCHANGED <<payment, returned, refund>>
    BY DEF ProviderAnswers
  <2>2. r \in Refunds
    BY <2>1, RefundsHave
  <2>3. r # NoRefund
    BY <2>2, RefundsKnown DEF NoRefund
  <2> QED
    BY <2>1, <2>2, <2>3 DEF RefundsInv, WorkersInv
<1>2. PICK s, a :
         /\ s \in IF sent[r] # "no" THEN {sent[r]}
                  ELSE IF SentCents + refund[r].amount > Paid THEN {"no", "refused"}
                  ELSE {"no", "pending", "done", "refused"}
         /\ a \in Answers[s] \cup {"lost"}
         /\ sent' = [sent EXCEPT ![r] = s]
         /\ worker' = [worker EXCEPT ![w].answer = a]
  BY Zenon DEF ProviderAnswers
<1>3. s \in SentStatus
  BY <1>1, <1>2, RefundsHave DEF SentStatus
<1>4. a \in AnswerType /\ a # "none" /\ (a = "completed" => s = "done")
  BY <1>2, <1>3 DEF Answers, AnswerType, SentStatus
<1>5. SentCents = Sum(AmountsOf(refund), TakenOf(sent))
  BY RefundsHave DEF SentCents, TakenOf
<1>6. PICK tnt : tnt = With(sent, r, s) /\ sent' = tnt
  BY <1>2 DEF With
<1>7. tnt[r] = s
  BY <1>1, <1>6, RefundsHave DEF With
<1>8. /\ sent[r] \in {"no", s}
      /\ sent[r] = "no" /\ s \in {"pending", "done"}
            => Sum(AmountsOf(refund), TakenOf(sent)) + refund[r].amount <= Paid
  <2>1. SentCents + refund[r].amount \in Int /\ Paid \in Int
    <3>1. TakenOf(sent) \in SUBSET Refunds /\ refund \in [Refunds -> RowType]
      BY RefundsHave DEF TakenOf
    <3>2. Sum(AmountsOf(refund), TakenOf(sent)) \in Nat /\ refund[r].amount \in Nat
      BY <1>1, <3>1, RowSumsAre DEF RowType
    <3> QED
      BY <1>5, <3>2, RefundsKnown
  <2> QED
    BY <1>2, <1>5, <2>1
<1>9. refund \in [Refunds -> RowType] /\ BooksInv(payment, returned, refund, sent)
  BY RefundsHave, RefundsParts
<1>10. BooksInv(payment, returned, refund, tnt) /\ \A x \in Refunds : sent[x] = "done" => tnt[x] = "done"
  BY <1>1, <1>3, <1>6, <1>8, <1>9, BooksSent
<1>11. WorkersInv(worker, refund, tnt)
  BY <1>10, RefundsParts, WorkersKept
<1>12. PICK x : /\ x = [worker[w] EXCEPT !.answer = a]
                /\ worker' = [worker EXCEPT ![w] = x]
  BY <1>2, Zenon
<1>13. /\ x \in [refund : Refunds \cup {NoRefund}, claim : Nat, answer : AnswerType]
       /\ x.refund = r /\ x.answer = a
  <2>1. worker[w] \in [refund : Refunds \cup {NoRefund}, claim : Nat, answer : AnswerType]
    BY RefundsParts DEF WorkersInv
  <2> QED
    BY <1>4, <1>12, <2>1
<1>14. PICK vk : vk = [worker EXCEPT ![w] = x] /\ worker' = vk
  BY <1>12
<1>15. r # NoRefund
  BY <1>1, RefundsKnown DEF NoRefund
<1>16. WorkersInv(vk, refund, tnt)
  BY <1>1, <1>4, <1>7, <1>11, <1>13, <1>14, <1>15, WorkerChanges, Zenon
<1> QED
  BY <1>1, <1>6, <1>10, <1>14, <1>16, RefundsParts, RefundsInvNext, Zenon

LEMMA RefundsStep ==
    ASSUME RefundsInv, RefundsNext
    PROVE  RefundsInv'
BY RefundsRequestAmount, RefundsRequestItems, RefundsRequestRest, RefundsDecide,
   RefundsCompleteExternal, RefundsSettle, RefundsTimeComes, RefundsClaim, RefundsAnswered,
   RefundsRecord, RefundsDies, RefundsNotice DEF RefundsNext

\* What the invariant means for the refunds of the order.
LEMMA RefundsAreRight == RefundsInv => RefundsAddUp
<1> SUFFICES ASSUME RefundsInv
             PROVE  RefundsAddUp
  OBVIOUS
<1>1. RowsInv(refund) /\ BooksInv(payment, returned, refund, sent)
  BY RefundsParts
<1>2. CountedWithinPaid
  BY <1>1, RefundsHave DEF CountedWithinPaid, RowsInv, WithinOrder
<1>3. RefundedOnce
  <2>1. DoneCents = Sum(AmountsOf(refund), DoneOf(sent))
    BY RefundsHave DEF DoneCents, DoneOf
  <2>2. {r \in In({"completed"}) : refund[r].kind \in ORDER_VALUE_KINDS} = ValueOf(refund)
    BY RefundsHave DEF ValueOf
  <2> QED
    BY <1>1, <2>1, <2>2, RefundsHave, Zenon DEF RefundedOnce, BooksInv
<1>4. UnitsRefundedOnce
  <2>1. In(COUNTED) = CountedOf(refund) /\ In({"rejected", "failed"}) = RefusedOf(refund)
    BY RefundsHave
  <2>2. ASSUME NEW l \in OrderLines
        PROVE  LET done == LinesRefunded(In(COUNTED))[l]
               IN  /\ done.units <= Order.units[l]
                   /\ RefusedOf(refund) = {} => /\ done.cents <= FullLineCents[l]
                                                /\ done.units = Order.units[l]
                                                   => done.cents = FullLineCents[l]
    <3>1. PICK u, c : /\ LinesRefunded(In(COUNTED))[l] = [units |-> u, cents |-> c]
                      /\ u = Sum(UnitsOf(refund, l), CountedOf(refund))
                      /\ c = Sum(CentsOf(refund, l), CountedOf(refund))
      BY <2>1, RefundsHave
    <3>2. u \in Nat /\ c \in Nat
      <4>1. refund \in [Refunds -> RowType] /\ CountedOf(refund) \in SUBSET Refunds
        BY RefundsHave DEF CountedOf
      <4> QED
        BY <3>1, <4>1, RowSumsAre
    <3>3. u <= Order.units[l] /\ (RefusedOf(refund) = {} => Fits(l, u, c))
      BY <1>1, <3>1 DEF RowsInv, WithinOrder
    <3>4. PICK n, F \in Nat : n = Order.units[l] /\ F = FullLineCents[l] /\ n > 0
      BY LinesKnown, FullLineSums
    <3>5. Fits(l, u, c) => c <= F /\ (u = n => c = F)
      BY <3>2, <3>3, <3>4, ProRata DEF Fits
    <3> QED
      BY <3>1, <3>3, <3>4, <3>5
  <2>3. Sum(FullLineCents, LinesOf(Order)) = Pot(Order)
    BY FullLineSums DEF OrderLines
  <2>4. ShippingRefunded <= Order.shipping
    BY <1>1, RefundsHave DEF RowsInv, WithinOrder
  <2> QED
    BY <2>1, <2>2, <2>3, <2>4 DEF UnitsRefundedOnce, OrderLines
<1> QED
  BY <1>2, <1>3, <1>4 DEF RefundsAddUp

-----------------------------------------------------------------------------
(* A promotion that ends with the stock *)

SkuRows == [own : BOOLEAN, sellable : BOOLEAN, onHand : 0..MaxShelf]
Promos == [on : BOOLEAN, ends : BOOLEAN, dates : {"upcoming", "running", "over"}, stamped : BOOLEAN]

\* Unless something was edited, a promotion that should have ended has the event of a variant that
\* counts still to be handled.
PromoInv ==
    /\ sku \in [Skus -> SkuRows] /\ promo \in Promos /\ announced \subseteq Skus /\ edited \in BOOLEAN
    /\ ~edited /\ promo.ends /\ ~promo.stamped /\ C!Runs /\ C!AllSoldOut =>
           announced \cap C!Counted # {}

LEMMA PromoStart == C!SellOutInit => PromoInv
BY BackOfficeAssumption DEF C!SellOutInit, PromoInv, SkuRows, Promos

\* A variant that is no more at zero is not sold out; one that comes to zero is announced.
LEMMA PromoStock ==
    ASSUME PromoInv, NEW v \in Skus, NEW level \in 0..MaxShelf, C!StockBecomes(v, level)
    PROVE  PromoInv'
<1>1. sku'[v] \in SkuRows /\ sku'[v].onHand = level
      /\ sku'[v].own = sku[v].own /\ sku'[v].sellable = sku[v].sellable
      /\ \A u \in Skus \ {v} : sku'[u] = sku[u]
  BY BackOfficeAssumption DEF PromoInv, SkuRows, C!StockBecomes
<1>2. sku' \in [Skus -> SkuRows]
  BY BackOfficeAssumption DEF PromoInv, SkuRows, C!StockBecomes
<1>3. UNCHANGED promo /\ level # sku[v].onHand
  BY DEF C!StockBecomes
<1>4. C!Counted' = C!Counted
  BY <1>1 DEF C!Counted
<1>5. C!Runs' = C!Runs
  BY <1>3 DEF C!Runs
<1>6. CASE C!CrossedToZero(sku[v].onHand, level)
  <2>1. announced' = announced \cup {v} /\ edited' = (edited /\ v \notin C!Counted)
    BY <1>6 DEF C!StockBecomes
  <2>2. v \notin C!Counted => C!AllSoldOut' = C!AllSoldOut
    BY <1>1, <1>4 DEF C!AllSoldOut, C!Counted
  <2> QED
    BY <1>2, <1>3, <1>4, <1>5, <2>1, <2>2 DEF PromoInv
<1>7. CASE ~C!CrossedToZero(sku[v].onHand, level)
  <2>1. UNCHANGED <<announced, edited>>
    BY <1>7 DEF C!StockBecomes
  <2>2. sku[v].onHand \in 0..MaxShelf /\ level > 0
    BY <1>3, <1>7, BackOfficeAssumption DEF PromoInv, SkuRows, C!CrossedToZero
  <2>3. C!AllSoldOut' => C!AllSoldOut
    BY <1>1, <1>4, <2>2 DEF C!AllSoldOut, C!Counted
  <2> QED
    BY <1>2, <1>3, <1>4, <1>5, <2>1, <2>3 DEF PromoInv
<1> QED
  BY <1>6, <1>7

LEMMA PromoEdits ==
    ASSUME PromoInv, NEW v \in Skus, NEW own \in BOOLEAN, NEW sellable \in BOOLEAN,
           C!EditVariant(v, own, sellable)
    PROVE  PromoInv'
BY Zenon DEF PromoInv, SkuRows, C!EditVariant

LEMMA PromoSet ==
    ASSUME PromoInv, NEW on \in BOOLEAN, NEW ends \in BOOLEAN,
           NEW dates \in {"upcoming", "running", "over"},
           C!SetPromotion(on, ends, dates) \/ C!DatesPass
    PROVE  PromoInv'
<1>1. edited' /\ UNCHANGED <<sku, announced>>
  BY DEF C!SetPromotion, C!DatesPass
<1>2. CASE C!SetPromotion(on, ends, dates)
  <2>1. promo' \in Promos
    BY <1>2 DEF Promos, C!SetPromotion
  <2> QED
    BY <1>1, <2>1 DEF PromoInv
<1>3. CASE C!DatesPass
  <2>1. promo' \in Promos
    BY <1>3 DEF PromoInv, Promos, C!DatesPass
  <2> QED
    BY <1>1, <2>1 DEF PromoInv
<1> QED
  BY <1>2, <1>3

\* The event that is handled is that of a variant that counts, and then the promotion ends if it
\* should, or another's is left.
LEMMA PromoEnds ==
    ASSUME PromoInv, NEW v \in Skus, C!EndsPromotion(v)
    PROVE  PromoInv'
<1>1. announced' = announced \ {v} /\ UNCHANGED <<sku, edited>>
  BY DEF C!EndsPromotion
<1>2. C!Counted' = C!Counted /\ C!AllSoldOut' = C!AllSoldOut
  BY <1>1 DEF C!Counted, C!AllSoldOut
<1>3. CASE ~sku[v].own /\ promo.ends /\ ~promo.stamped /\ C!Runs /\ C!AllSoldOut
  BY <1>1, <1>3, Zenon DEF PromoInv, Promos, C!EndsPromotion
<1>4. CASE ~(~sku[v].own /\ promo.ends /\ ~promo.stamped /\ C!Runs /\ C!AllSoldOut)
  <2>1. UNCHANGED promo /\ C!Runs' = C!Runs
    BY <1>4 DEF C!EndsPromotion, C!Runs
  <2>2. v \in C!Counted => ~sku[v].own
    BY DEF C!Counted
  <2> QED
    BY <1>1, <1>2, <1>4, <2>1, <2>2 DEF PromoInv
<1> QED
  BY <1>3, <1>4

LEMMA PromoStutter == PromoInv /\ UNCHANGED promoOnly => PromoInv'
BY DEF PromoInv, promoOnly, C!Runs, C!AllSoldOut, C!Counted

LEMMA PromoStep == PromoInv /\ C!SellOutNext => PromoInv'
BY PromoStock, PromoEdits, PromoSet, PromoEnds, Zenon DEF C!SellOutNext

LEMMA PromotionEnds == PromoInv => C!SellOutEndsPromotion
BY DEF PromoInv, Promos, C!SellOutEndsPromotion

-----------------------------------------------------------------------------
(* Modules of the store *)

Askings == [on : SUBSET S!SELF_SERVICE, off : SUBSET S!SELF_SERVICE]

\* What is on fits; and unless another request wrote since, what a request was accepted for still is.
ModulesInv ==
    /\ enabled \subseteq S!MODULES /\ request \in [Workers -> Askings] /\ crossed \in BOOLEAN
    /\ ~crossed =>
          /\ \A m \in enabled : S!Requires[m] \subseteq enabled
          /\ \A r \in Workers : request[r] # S!NoRequest => S!Accepted(request[r].on, request[r].off)

\* What is paid for needs nothing of the owner's, and nothing of his needs it.
LEMMA PaidApart ==
    /\ \A m \in S!MODULES : S!Requires[m] \subseteq S!SELF_SERVICE
    /\ \A m \in S!MODULES \ S!SELF_SERVICE : S!Requires[m] = {}
<1>1. \A m \in S!MODULES : S!Requires[m] = IF m = "checkout" THEN {"catalog", "customer_login"}
                                         ELSE IF m = "coupons" THEN {"checkout"} ELSE {}
  BY DEF S!Requires, S!MODULES
<1> QED
  BY <1>1 DEF S!MODULES, S!SELF_SERVICE

LEMMA ModulesStart ==
    ASSUME S!ModulesInit
    PROVE  ModulesInv
<1>1. \A m \in S!DEFAULTS : S!Requires[m] \subseteq S!DEFAULTS
  BY DEF S!Requires, S!DEFAULTS, S!MODULES
<1>2. S!DEFAULTS \subseteq S!MODULES
  BY DEF S!DEFAULTS, S!MODULES
<1>3. S!NoRequest \in Askings
  BY DEF S!NoRequest, Askings
<1>4. request \in [Workers -> Askings] /\ \A r \in Workers : request[r] = S!NoRequest
  BY <1>3 DEF S!ModulesInit
<1> QED
  BY <1>1, <1>2, <1>4, Zenon DEF S!ModulesInit, ModulesInv

LEMMA ModulesAsk ==
    ASSUME ModulesInv, NEW r \in Workers, NEW on \in SUBSET S!SELF_SERVICE,
           NEW off \in SUBSET S!SELF_SERVICE, S!Asks(r, on, off)
    PROVE  ModulesInv'
<1>1. request'[r] = [on |-> on, off |-> off] /\ \A q \in Workers \ {r} : request'[q] = request[q]
  BY DEF ModulesInv, S!Asks
<1>2. request' \in [Workers -> Askings]
  BY DEF ModulesInv, S!Asks, Askings
<1>3. UNCHANGED <<enabled, crossed>> /\ S!Accepted(on, off)
  BY DEF S!Asks
<1>4. \A x, y : S!Accepted(x, y)' = S!Accepted(x, y)
  BY <1>3 DEF S!Accepted, S!Effective
<1> QED
  BY <1>1, <1>2, <1>3 DEF ModulesInv, S!Accepted, S!Effective

\* What it was accepted for is what there is then.
LEMMA ModulesSet ==
    ASSUME ModulesInv, NEW r \in Workers, S!SetFeatures(r)
    PROVE  ModulesInv'
<1> DEFINE on == request[r].on
           off == request[r].off
<1>1. on \subseteq S!SELF_SERVICE /\ off \subseteq S!SELF_SERVICE
  BY DEF ModulesInv, Askings
<1>2. enabled' = S!Effective(on, off)
  BY DEF S!SetFeatures, S!Effective
<1>3. enabled' \subseteq S!MODULES
  BY <1>1, <1>2 DEF ModulesInv, S!Effective, S!SELF_SERVICE
<1>4. request' \in [Workers -> Askings] /\ crossed' \in BOOLEAN
  BY DEF ModulesInv, S!SetFeatures, S!NoRequest, Askings
<1>5. ASSUME ~crossed'
      PROVE  /\ \A m \in enabled' : S!Requires[m] \subseteq enabled'
             /\ \A q \in Workers : request'[q] = S!NoRequest
  <2>1. ~crossed /\ \A q \in Workers : request'[q] = S!NoRequest
    BY <1>5, Zenon DEF ModulesInv, S!SetFeatures
  <2>2. S!Accepted(on, off) /\ \A m \in enabled : S!Requires[m] \subseteq enabled
    BY <2>1 DEF ModulesInv, S!SetFeatures
  <2>3. ASSUME NEW m \in enabled', NEW n \in S!Requires[m]
        PROVE  n \in enabled'
    <3>1. CASE m \in on
      BY <1>2, <2>2, <2>3, <3>1 DEF S!Accepted
    <3>2. CASE m \notin on
      <4>1. n \in enabled
        BY <1>2, <2>2, <2>3, <3>2 DEF S!Effective
      <4>2. n \notin off
        BY <1>2, <1>3, <2>2, <2>3 DEF S!Accepted, S!Dependents
      <4> QED
        BY <1>2, <4>1, <4>2 DEF S!Effective
    <3> QED
      BY <3>1, <3>2
  <2> QED
    BY <2>1, <2>3
<1> QED
  BY <1>3, <1>4, <1>5 DEF ModulesInv

LEMMA ModulesPaid ==
    ASSUME ModulesInv, NEW on \in SUBSET (S!MODULES \ S!SELF_SERVICE), S!SetPaid(on)
    PROVE  ModulesInv'
<1>1. enabled' = (enabled \cap S!SELF_SERVICE) \cup on /\ UNCHANGED <<request, crossed>>
  BY DEF S!SetPaid
<1>2. enabled' \subseteq S!MODULES
  BY <1>1 DEF S!SELF_SERVICE
<1>3. ASSUME ~crossed
      PROVE  \A m \in enabled' : S!Requires[m] \subseteq enabled'
  BY <1>1, <1>3, PaidApart DEF ModulesInv
<1>4. ASSUME NEW x \in SUBSET S!SELF_SERVICE, NEW y \in SUBSET S!SELF_SERVICE, S!Accepted(x, y)
      PROVE  S!Accepted(x, y)'
  <2>1. \A m \in S!SELF_SERVICE : m \in S!Effective(x, y)' <=> m \in S!Effective(x, y)
    BY <1>1 DEF S!Effective
  <2>2. \A m \in S!Effective(x, y)' : m \in S!Effective(x, y) \/ m \in S!MODULES \ S!SELF_SERVICE
    BY <1>1 DEF S!Effective
  <2>3. \A m \in x : S!Requires[m] \subseteq S!Effective(x, y)'
    BY <1>4, <2>1, PaidApart DEF S!Accepted, S!SELF_SERVICE
  <2>4. \A m \in y : S!Dependents(m) \cap S!Effective(x, y)' = {}
    BY <1>4, <2>2, PaidApart DEF S!Accepted, S!Dependents
  <2> QED
    BY <1>4, <2>3, <2>4 DEF S!Accepted
<1> QED
  BY <1>1, <1>2, <1>3, <1>4 DEF ModulesInv, Askings

LEMMA ModulesStutter == ModulesInv /\ UNCHANGED modulesOnly => ModulesInv'
BY DEF ModulesInv, modulesOnly, S!Accepted, S!Effective

LEMMA ModulesStep == ModulesInv /\ S!ModulesNext => ModulesInv'
BY ModulesAsk, ModulesSet, ModulesPaid, Zenon DEF S!ModulesNext

LEMMA ModulesAreFit == ModulesInv => S!ModulesFit
BY DEF ModulesInv, S!ModulesFit

-----------------------------------------------------------------------------
(* Payment providers *)

ConfigRows == [enabled : BOOLEAN, default : BOOLEAN, public : BOOLEAN]
Savings == [at : {"read", "wrote"}, provider : Providers, read : ConfigRows, row : ConfigRows,
            new : SUBSET Providers, others : SUBSET Providers]

\* What is written lacks nothing it needs, and nobody who has the mark is forgotten.
IsSound(k) ==
    /\ k.row.enabled => ~S!Missing(k.provider, k.row, secret \cup k.new)
    /\ k.row.default => \A q \in Providers \ {k.provider} : config[q].default => q \in k.others

OneIsMarked == \A p, q \in Providers : config[p].default /\ config[q].default => p = q
NothingIsMissing == \A p \in Providers : config[p].enabled => ~S!Missing(p, config[p], secret)

\* As long as no request was overtaken: the two of the property, and what a request has read is what
\* is stored.
SetupInv ==
    /\ config \in [Providers -> ConfigRows] /\ owner \in [Workers -> Savings \cup {S!Idle}]
    /\ overtaken \in BOOLEAN
    /\ ~overtaken =>
          /\ OneIsMarked /\ NothingIsMissing
          /\ \A o \in Workers : /\ owner[o] # S!Idle => owner[o].read = config[owner[o].provider]
                                /\ owner[o].at = "wrote" => IsSound(owner[o])

LEMMA IdleIsNoSaving == S!Idle \notin Savings /\ S!Idle.at = "idle"
BY DEF S!Idle, Savings

LEMMA SetupStart ==
    ASSUME S!SetupInit
    PROVE  SetupInv
<1>1. S!NoRow \in ConfigRows /\ ~S!NoRow.default /\ ~S!NoRow.enabled
  BY DEF S!NoRow, ConfigRows
<1>2. config \in [Providers -> ConfigRows] /\ \A p \in Providers : config[p] = S!NoRow
  BY <1>1 DEF S!SetupInit
<1>3. owner \in [Workers -> Savings \cup {S!Idle}] /\ \A o \in Workers : owner[o] = S!Idle
  BY DEF S!SetupInit
<1> QED
  BY <1>1, <1>2, <1>3, IdleIsNoSaving, Zenon DEF S!SetupInit, SetupInv, OneIsMarked, NothingIsMissing

\* A request goes on: the others keep what they know.
LEMMA OwnerKept ==
    ASSUME SetupInv, UNCHANGED <<config, secret, overtaken>>, NEW o \in Workers,
           NEW k \in Savings \cup {S!Idle}, owner' = [owner EXCEPT ![o] = k],
           ~overtaken => /\ k # S!Idle => k.read = config[k.provider]
                         /\ k.at = "wrote" => IsSound(k)
    PROVE  SetupInv'
<1>1. owner' \in [Workers -> Savings \cup {S!Idle}] /\ owner'[o] = k
      /\ \A u \in Workers \ {o} : owner'[u] = owner[u]
  BY DEF SetupInv
<1>2. ASSUME ~overtaken, NEW u \in Workers
      PROVE  /\ owner'[u] # S!Idle => owner'[u].read = config[owner'[u].provider]
             /\ owner'[u].at = "wrote" => IsSound(owner'[u])
  <2>1. CASE u = o
    <3>1. k # S!Idle => k.read = config[k.provider]
      BY <1>2
    <3>2. k.at = "wrote" => IsSound(k)
      BY <1>2, IdleIsNoSaving
    <3> QED
      BY <1>1, <2>1, <3>1, <3>2
  <2>2. CASE u # o
    BY <1>1, <1>2, <2>2 DEF SetupInv
  <2> QED
    BY <2>1, <2>2
<1>3. OneIsMarked' = OneIsMarked /\ NothingIsMissing' = NothingIsMissing
  BY DEF OneIsMarked, NothingIsMissing
<1> QED
  BY <1>1, <1>2, <1>3, Zenon DEF SetupInv, IsSound

LEMMA SetupReads ==
    ASSUME SetupInv, NEW o \in Workers, NEW p \in Providers, NEW row \in ConfigRows,
           NEW renewed \in BOOLEAN, S!Reads(o, p, row, renewed)
    PROVE  SetupInv'
<1> DEFINE k == [at |-> "read", provider |-> p, read |-> config[p], row |-> row,
                 new |-> IF renewed THEN {p} ELSE {}, others |-> {}]
<1>1. k \in Savings /\ k.at = "read" /\ k.read = config[k.provider]
  BY DEF SetupInv, Savings
<1>2. owner' = [owner EXCEPT ![o] = k] /\ UNCHANGED <<config, secret, overtaken>>
  BY DEF S!Reads
<1> HIDE DEF k
<1> QED
  BY <1>1, <1>2, OwnerKept, Zenon

LEMMA SetupWrites ==
    ASSUME SetupInv, NEW o \in Workers, S!Writes(o) \/ S!Undone(o)
    PROVE  SetupInv'
<1>1. UNCHANGED <<config, secret, overtaken>>
  BY DEF S!Writes, S!Undone
<1>2. CASE owner' = [owner EXCEPT ![o] = S!Idle]
  BY <1>1, <1>2, OwnerKept, IdleIsNoSaving, Zenon
<1>3. CASE owner' # [owner EXCEPT ![o] = S!Idle]
  <2> DEFINE k == owner[o]
             p == k.provider
             others == IF k.row.default THEN {q \in Providers \ {p} : config[q].default} ELSE {}
             w == [k EXCEPT !.at = "wrote", !.others = others]
  <2>1. k.at = "read" /\ ~(k.row.enabled /\ S!Missing(p, k.row, secret \cup k.new))
        /\ owner' = [owner EXCEPT ![o] = w]
    BY <1>3 DEF S!Writes, S!Undone
  <2>2. k \in Savings
    BY <2>1, IdleIsNoSaving DEF SetupInv
  <2>3. w \in Savings /\ w.provider = p /\ w.read = k.read /\ w.row = k.row /\ w.new = k.new
        /\ w.others = others
    BY <2>2 DEF Savings
  <2>4. IsSound(w)
    BY <2>1, <2>3 DEF IsSound
  <2>5. ~overtaken => w.read = config[w.provider]
    BY <2>2, <2>3, IdleIsNoSaving DEF SetupInv
  <2> HIDE DEF w
  <2> QED
    BY <1>1, <2>1, <2>3, <2>4, <2>5, OwnerKept, Zenon
<1> QED
  BY <1>2, <1>3

\* What is saved of what was read is what the owner wanted.
LEMMA NothingElseChanged ==
    ASSUME NEW read \in ConfigRows, NEW row \in ConfigRows
    PROVE  S!NetChange(read, read, row) = row
<1>1. DOMAIN row = {"enabled", "default", "public"} /\ row = [f \in DOMAIN row |-> row[f]]
  BY DEF ConfigRows
<1>2. \A f \in DOMAIN row : (IF row[f] # read[f] THEN row[f] ELSE read[f]) = row[f]
  OBVIOUS
<1> QED
  BY <1>1, <1>2 DEF S!NetChange

LEMMA SetupCommits ==
    ASSUME SetupInv, NEW o \in Workers, S!Commits(o)
    PROVE  SetupInv'
<1> DEFINE k == owner[o]
           p == k.provider
<1>1. k.at = "wrote" /\ owner' = [owner EXCEPT ![o] = S!Idle] /\ secret' = secret \cup k.new
      /\ overtaken' = (overtaken \/ \E u \in Workers \ {o} : owner[u] # S!Idle)
  BY DEF S!Commits
<1>2. k \in Savings /\ p \in Providers
  BY <1>1, IdleIsNoSaving DEF SetupInv, Savings
<1>3. owner' \in [Workers -> Savings \cup {S!Idle}] /\ overtaken' \in BOOLEAN /\ owner'[o] = S!Idle
      /\ \A u \in Workers \ {o} : owner'[u] = owner[u]
  BY <1>1 DEF SetupInv
<1>4. PICK row : row = S!NetChange(config[p], k.read, k.row)
  OBVIOUS
<1>5. row \in ConfigRows
  <2>1. DOMAIN k.row = {"enabled", "default", "public"}
    BY <1>2 DEF Savings, ConfigRows
  <2> QED
    BY <1>2, <1>4, <2>1 DEF SetupInv, Savings, ConfigRows, S!NetChange
<1>6. config' = [q \in Providers |-> IF q = p THEN row
                                     ELSE IF q \in k.others THEN [config[q] EXCEPT !.default = FALSE]
                                     ELSE config[q]]
  BY <1>4 DEF S!Commits
<1>7. config'[p] = row
      /\ \A q \in Providers \ {p} : /\ config'[q].enabled = config[q].enabled
                                    /\ config'[q].public = config[q].public
                                    /\ config'[q].default = (config[q].default /\ q \notin k.others)
  BY <1>2, <1>6 DEF SetupInv, ConfigRows
<1>8. config' \in [Providers -> ConfigRows]
  BY <1>5, <1>6, Zenon DEF SetupInv, ConfigRows
<1>9. ASSUME ~overtaken'
      PROVE  /\ OneIsMarked' /\ NothingIsMissing'
             /\ \A u \in Workers : owner'[u] = S!Idle
  <2>1. ~overtaken /\ \A u \in Workers : owner'[u] = S!Idle
    BY <1>1, <1>3, <1>9, Zenon
  <2>2. k.read = config[p] /\ IsSound(k) /\ OneIsMarked /\ NothingIsMissing
    BY <1>1, <1>2, <2>1, IdleIsNoSaving DEF SetupInv
  <2>3. row = k.row
    BY <1>2, <1>4, <2>2, NothingElseChanged DEF Savings, SetupInv
  <2>4. OneIsMarked'
    BY <1>2, <1>7, <2>2, <2>3, Zenon DEF OneIsMarked, IsSound
  <2>5. NothingIsMissing'
    BY <1>1, <1>2, <1>7, <2>2, <2>3 DEF NothingIsMissing, IsSound, S!Missing
  <2> QED
    BY <2>1, <2>4, <2>5
<1> QED
  BY <1>3, <1>8, <1>9, IdleIsNoSaving DEF SetupInv

LEMMA SetupStutter == SetupInv /\ UNCHANGED <<config, secret, owner, overtaken>> => SetupInv'
BY DEF SetupInv, OneIsMarked, NothingIsMissing, IsSound

LEMMA SetupStep ==
    ASSUME SetupInv, S!SetupNext
    PROVE  SetupInv'
<1>1. CASE \E p \in Providers : S!Switches(p)
  BY <1>1, SetupStutter DEF S!Switches
<1>2. CASE ~\E p \in Providers : S!Switches(p)
  BY <1>2, SetupReads, SetupWrites, SetupCommits DEF S!SetupNext, ConfigRows
<1> QED
  BY <1>1, <1>2

LEMMA SettingsCount == \A X : S!Cardinality(X) = Cardinality(X)
BY DEF S!Cardinality, Cardinality

LEMMA OfferIsComplete ==
    ASSUME SetupInv
    PROVE  S!OfferedIsComplete
<1>1. \A p \in S!OptionsFor : ~S!Missing(p, config[p], secret)
  BY DEF S!OptionsFor
<1>2. ASSUME ~overtaken
      PROVE  Cardinality({p \in Providers : config[p].default}) <= 1
  <2>1. PICK X : X = {p \in Providers : config[p].default}
    BY Zenon
  <2>2. \A p, q \in X : p = q
    BY <1>2, <2>1 DEF SetupInv, OneIsMarked
  <2>3. CASE X = {}
    BY <2>1, <2>3, FS_EmptySet
  <2>4. CASE X # {}
    <3>1. PICK p : X = {p}
      BY <2>2, <2>4
    <3> QED
      BY <2>1, <3>1, FS_Singleton
  <2> QED
    BY <2>3, <2>4
<1> QED
  BY <1>1, <1>2, SettingsCount DEF S!OfferedIsComplete, SetupInv, NothingIsMissing

-----------------------------------------------------------------------------
(* Packages *)

BoxRows == [there : BOOLEAN, active : BOOLEAN, auto : BOOLEAN, default : BOOLEAN]
Wishes == [what : {"archive", "reactivate", "auto", "default", "delete"}, of : Boxes, row : BoxRows]

\* As long as nobody wrote what another had read: the default is active, and what a request has
\* read is what is stored.
BoxInv ==
    /\ box \in [Boxes -> BoxRows] /\ chooser \in [Workers -> Wishes \cup {B!Idle}]
    /\ muddled \in BOOLEAN
    /\ ~muddled =>
          /\ B!Defaults \subseteq B!Active
          /\ \A r \in Workers : chooser[r] # B!Idle =>
                chooser[r].row.there /\ chooser[r].row = box[chooser[r].of]

LEMMA IdleIsNoChoice == B!Idle \notin Wishes /\ B!Idle.what = "none"
BY DEF B!Idle, Wishes

\* The default mark is on what is active.
LEMMA DefaultsAre ==
    B!Defaults \subseteq B!Active <=> \A p \in Boxes : box[p].there /\ box[p].default => box[p].active
BY DEF B!Defaults, B!Active, B!Kept

LEMMA BoxStart ==
    ASSUME B!PackagesInit
    PROVE  BoxInv
<1>1. chooser \in [Workers -> Wishes \cup {B!Idle}] /\ muddled = FALSE
      /\ \A r \in Workers : chooser[r] = B!Idle
  BY DEF B!PackagesInit
<1>2. box \in [Boxes -> BoxRows] /\ \A p \in Boxes : box[p].there /\ box[p].default => box[p].active
  <2>1. B!Absent \in BoxRows /\ ~B!Absent.there
    BY DEF B!Absent, BoxRows
  <2>2. CASE box = [p \in Boxes |-> B!Absent]
    BY <2>1, <2>2
  <2>3. CASE box # [p \in Boxes |-> B!Absent]
    <3>1. PICK a \in Boxes, b \in Boxes :
             box = [p \in Boxes |->
                      IF p = a THEN [there |-> TRUE, active |-> TRUE, auto |-> TRUE, default |-> TRUE]
                      ELSE IF p = b
                      THEN [there |-> TRUE, active |-> TRUE, auto |-> FALSE, default |-> FALSE]
                      ELSE B!Absent]
      BY <2>3 DEF B!PackagesInit
    <3>2. \A p \in Boxes : box[p] \in BoxRows
      BY <2>1, <3>1 DEF BoxRows
    <3>3. \A p \in Boxes : box[p].there => box[p].active
      BY <2>1, <3>1
    <3> QED
      BY <3>1, <3>2, <3>3
  <2> QED
    BY <2>2, <2>3
<1> QED
  BY <1>1, <1>2, DefaultsAre, Zenon DEF BoxInv

\* A request takes up a package as it is.
LEMMA BoxReads ==
    ASSUME BoxInv, NEW r \in Workers, NEW p \in Boxes,
           NEW what \in {"archive", "reactivate", "auto", "default", "delete"}, B!Reads(r, p, what)
    PROVE  BoxInv'
<1> DEFINE k == [what |-> what, of |-> p, row |-> box[p]]
<1>1. k \in Wishes /\ k.of = p /\ k.row = box[p] /\ k.row.there
  BY DEF BoxInv, Wishes, B!Reads
<1>2. chooser' = [chooser EXCEPT ![r] = k] /\ UNCHANGED <<box, muddled>>
  BY DEF B!Reads
<1> HIDE DEF k
<1>3. chooser' \in [Workers -> Wishes \cup {B!Idle}] /\ chooser'[r] = k
      /\ \A q \in Workers \ {r} : chooser'[q] = chooser[q]
  BY <1>1, <1>2 DEF BoxInv
<1> QED
  BY <1>1, <1>2, <1>3 DEF BoxInv, B!Defaults, B!Active, B!Kept

LEMMA BoxRefused ==
    ASSUME BoxInv, NEW r \in Workers, B!Refused(r)
    PROVE  BoxInv'
<1>1. UNCHANGED <<box, muddled>> /\ chooser' \in [Workers -> Wishes \cup {B!Idle}]
      /\ \A q \in Workers : chooser'[q] = B!Idle \/ chooser'[q] = chooser[q]
  BY DEF BoxInv, B!Refused, B!Ends
<1> QED
  BY <1>1 DEF BoxInv, B!Defaults, B!Active, B!Kept

\* A request writes: what others have read stays as it was, or they were overtaken.
LEMMA BoxWrites ==
    ASSUME BoxInv, NEW r \in Workers, B!Ends(r), box' \in [Boxes -> BoxRows],
           muddled' = (muddled \/ B!Stale(r)),
           ~muddled => \A p \in Boxes : box'[p].there /\ box'[p].default => box'[p].active
    PROVE  BoxInv'
<1>1. chooser' \in [Workers -> Wishes \cup {B!Idle}] /\ muddled' \in BOOLEAN /\ chooser'[r] = B!Idle
      /\ \A q \in Workers \ {r} : chooser'[q] = chooser[q]
  BY DEF BoxInv, B!Ends, B!Stale
<1>2. ASSUME ~muddled'
      PROVE  /\ B!Defaults' \subseteq B!Active'
             /\ \A q \in Workers : chooser'[q] # B!Idle =>
                   chooser'[q].row.there /\ chooser'[q].row = box'[chooser'[q].of]
  <2>1. B!Defaults' \subseteq B!Active'
    BY <1>2, Zenon DEF B!Defaults, B!Active, B!Kept
  <2>2. \A q \in Workers \ {r} : chooser[q] # B!Idle => box'[chooser[q].of] = box[chooser[q].of]
    BY <1>2, Zenon DEF B!Stale
  <2> QED
    BY <1>1, <1>2, <2>1, <2>2 DEF BoxInv
<1> QED
  BY <1>1, <1>2 DEF BoxInv

\* What is written of what was read is what was wanted.
LEMMA NothingElseWritten ==
    ASSUME NEW row \in BoxRows, NEW after \in BoxRows
    PROVE  B!Merged(row, row, after) = after
<1>1. DOMAIN row = DOMAIN after /\ after = [c \in DOMAIN after |-> after[c]]
  BY DEF BoxRows
<1>2. \A c \in DOMAIN after : (IF after[c] # row[c] THEN after[c] ELSE row[c]) = after[c]
  OBVIOUS
<1> QED
  BY <1>1, <1>2 DEF B!Merged

LEMMA BoxWritten ==
    ASSUME BoxInv, NEW r \in Workers, chooser[r] # B!Idle, NEW after \in BoxRows, B!Written(r, after),
           ~muddled => (after.there /\ after.default => after.active)
    PROVE  BoxInv'
<1> DEFINE p == chooser[r].of
<1>1. CASE ~box[p].there
  BY <1>1, BoxRefused DEF B!Written
<1>2. CASE box[p].there
  <2>1. PICK row : row = B!Merged(box[p], chooser[r].row, after)
    OBVIOUS
  <2>2. box' = [box EXCEPT ![p] = row] /\ muddled' = (muddled \/ B!Stale(r)) /\ B!Ends(r)
    BY <1>2, <2>1 DEF B!Written
  <2>3. p \in Boxes /\ chooser[r] \in Wishes
    BY DEF BoxInv, Wishes
  <2>4. row \in BoxRows
    <3>1. box[p] \in BoxRows /\ chooser[r].row \in BoxRows
      BY <2>3 DEF BoxInv, Wishes
    <3> QED
      BY <2>1, <3>1 DEF BoxRows, B!Merged
  <2>5. box' \in [Boxes -> BoxRows] /\ box'[p] = row /\ \A q \in Boxes \ {p} : box'[q] = box[q]
    BY <2>2, <2>3, <2>4 DEF BoxInv
  <2>6. ASSUME ~muddled
        PROVE  \A q \in Boxes : box'[q].there /\ box'[q].default => box'[q].active
    <3>1. chooser[r].row = box[p] /\ B!Defaults \subseteq B!Active
      BY <2>6 DEF BoxInv
    <3>2. row = after
      BY <2>1, <2>3, <3>1, NothingElseWritten DEF Wishes
    <3> QED
      BY <2>5, <2>6, <3>1, <3>2, DefaultsAre
  <2> QED
    BY <2>2, <2>5, <2>6, BoxWrites
<1> QED
  BY <1>1, <1>2

LEMMA BoxCreates ==
    ASSUME BoxInv, NEW p \in Boxes, NEW active \in BOOLEAN, NEW auto \in BOOLEAN,
           B!Create(p, active, auto)
    PROVE  BoxInv'
<1> DEFINE row == [there |-> TRUE, active |-> active \/ B!Defaults = {}, auto |-> auto,
                   default |-> B!Defaults = {}]
<1>1. row \in BoxRows /\ (row.default => row.active)
  BY DEF BoxRows
<1>2. box' = [box EXCEPT ![p] = row] /\ ~box[p].there /\ UNCHANGED <<chooser, muddled>>
  BY DEF B!Create
<1> HIDE DEF row
<1>3. box' \in [Boxes -> BoxRows] /\ box'[p] = row /\ \A q \in Boxes \ {p} : box'[q] = box[q]
  BY <1>1, <1>2 DEF BoxInv
<1>4. ASSUME ~muddled
      PROVE  /\ B!Defaults' \subseteq B!Active'
             /\ \A r \in Workers : chooser[r] # B!Idle =>
                   chooser[r].row.there /\ chooser[r].row = box'[chooser[r].of]
  <2>1. \A q \in Boxes : box[q].there /\ box[q].default => box[q].active
    BY <1>4, DefaultsAre DEF BoxInv
  <2>2. B!Defaults' \subseteq B!Active'
    BY <1>1, <1>3, <2>1 DEF B!Defaults, B!Active, B!Kept
  <2>3. \A r \in Workers : chooser[r] # B!Idle => chooser[r].of \in Boxes /\ chooser[r].of # p
    BY <1>2, <1>4 DEF BoxInv, Wishes
  <2> QED
    BY <1>3, <1>4, <2>2, <2>3 DEF BoxInv
<1> QED
  BY <1>2, <1>3, <1>4 DEF BoxInv

LEMMA BoxUpdates ==
    ASSUME BoxInv, NEW r \in Workers, B!Archive(r) \/ B!Reactivate(r) \/ B!SetAuto(r)
    PROVE  BoxInv'
<1> DEFINE row == chooser[r].row
<1>1. chooser[r] # B!Idle
  BY IdleIsNoChoice DEF B!Archive, B!Reactivate, B!SetAuto
<1>2. row \in BoxRows
  BY <1>1 DEF BoxInv, Wishes
<1>3. CASE B!Refused(r)
  BY <1>3, BoxRefused
<1>4. CASE B!Written(r, B!Archived(row))
  <2>1. B!Archived(row) \in BoxRows /\ ~B!Archived(row).default
    BY <1>2, Zenon DEF B!Archived, BoxRows
  <2> QED
    BY <1>1, <1>4, <2>1, BoxWritten
<1>5. CASE B!Written(r, [row EXCEPT !.active = TRUE])
  <2>1. [row EXCEPT !.active = TRUE] \in BoxRows /\ [row EXCEPT !.active = TRUE].active
    BY <1>2, Zenon DEF BoxRows
  <2> QED
    BY <1>1, <1>5, <2>1, BoxWritten, Zenon
<1>6. CASE B!Written(r, [row EXCEPT !.auto = ~@])
  <2>1. PICK after : after = [row EXCEPT !.auto = ~@]
    BY Zenon
  <2>2. after \in BoxRows /\ after.there = row.there /\ after.default = row.default
        /\ after.active = row.active
    BY <1>2, <2>1, Zenon DEF BoxRows
  <2>3. ~muddled => row = box[chooser[r].of] /\ B!Defaults \subseteq B!Active
    BY <1>1 DEF BoxInv
  <2>4. chooser[r].of \in Boxes
    BY <1>1 DEF BoxInv, Wishes
  <2> QED
    BY <1>1, <1>6, <2>1, <2>2, <2>3, <2>4, BoxWritten, DefaultsAre, Zenon
<1> QED
  BY <1>3, <1>4, <1>5, <1>6 DEF B!Archive, B!Reactivate, B!SetAuto

LEMMA BoxMarks ==
    ASSUME BoxInv, NEW r \in Workers, B!MakeDefault(r)
    PROVE  BoxInv'
<1> DEFINE p == chooser[r].of
           row == chooser[r].row
<1>1. chooser[r] # B!Idle
  BY IdleIsNoChoice DEF B!MakeDefault
<1>2. p \in Boxes /\ row \in BoxRows
  BY <1>1 DEF BoxInv, Wishes
<1>3. CASE row.default \/ ~row.active \/ ~box[p].there
  BY <1>3, BoxRefused DEF B!MakeDefault
<1>4. CASE ~(row.default \/ ~row.active \/ ~box[p].there)
  <2>1. box' = [q \in Boxes |-> [box[q] EXCEPT !.default = (q = p)]]
        /\ muddled' = (muddled \/ B!Stale(r)) /\ B!Ends(r)
    BY <1>4 DEF B!MakeDefault
  <2>2. box' \in [Boxes -> BoxRows]
        /\ \A q \in Boxes : box'[q].active = box[q].active /\ box'[q].default = (q = p)
    <3>1. ASSUME NEW q \in Boxes
          PROVE  /\ [box[q] EXCEPT !.default = (q = p)] \in BoxRows
                 /\ [box[q] EXCEPT !.default = (q = p)].active = box[q].active
                 /\ [box[q] EXCEPT !.default = (q = p)].default = (q = p)
      <4>1. box[q] \in BoxRows
        BY DEF BoxInv
      <4> QED
        BY <4>1, Zenon DEF BoxRows
    <3> QED
      BY <2>1, <3>1, Zenon
  <2>3. ~muddled => box[p].active
    BY <1>1, <1>4 DEF BoxInv
  <2> QED
    BY <2>1, <2>2, <2>3, BoxWrites, Zenon
<1> QED
  BY <1>3, <1>4

LEMMA BoxDeletes ==
    ASSUME BoxInv, NEW r \in Workers, B!Delete(r)
    PROVE  BoxInv'
<1> DEFINE p == chooser[r].of
<1>1. chooser[r] # B!Idle
  BY IdleIsNoChoice DEF B!Delete
<1>2. p \in Boxes
  BY <1>1 DEF BoxInv, Wishes
<1>3. CASE (chooser[r].row.default /\ B!Other(p) # {}) \/ B!Users(p) # {}
  BY <1>3, BoxRefused DEF B!Delete
<1>4. CASE ~((chooser[r].row.default /\ B!Other(p) # {}) \/ B!Users(p) # {})
  <2>1. box' = [box EXCEPT ![p] = B!Absent] /\ muddled' = (muddled \/ B!Stale(r)) /\ B!Ends(r)
    BY <1>4 DEF B!Delete
  <2>2. B!Absent \in BoxRows /\ ~B!Absent.default
    BY DEF B!Absent, BoxRows
  <2>3. box' \in [Boxes -> BoxRows] /\ box'[p] = B!Absent /\ \A q \in Boxes \ {p} : box'[q] = box[q]
    BY <1>2, <2>1, <2>2 DEF BoxInv
  <2>4. ~muddled => \A q \in Boxes : box'[q].there /\ box'[q].default => box'[q].active
    BY <2>2, <2>3, DefaultsAre DEF BoxInv
  <2> QED
    BY <2>1, <2>3, <2>4, BoxWrites
<1> QED
  BY <1>3, <1>4

LEMMA BoxStutter ==
    ASSUME BoxInv, UNCHANGED <<box, chooser, muddled>>
    PROVE  BoxInv'
BY DEF BoxInv, B!Defaults, B!Active, B!Kept

LEMMA BoxStep ==
    ASSUME BoxInv, B!PackagesNext
    PROVE  BoxInv'
<1>1. ASSUME NEW x \in Products, NEW mode \in {"auto", "restricted"}, NEW rules \in SUBSET Boxes,
             B!Packed(x, mode, rules)
      PROVE  BoxInv'
  BY <1>1, BoxStutter DEF B!Packed
<1> QED
  BY <1>1, BoxCreates, BoxReads, BoxUpdates, BoxMarks, BoxDeletes DEF B!PackagesNext

LEMMA DefaultIsUsed == BoxInv => B!DefaultIsActive
BY DEF BoxInv, B!DefaultIsActive

-----------------------------------------------------------------------------
(* What the assistant is allowed *)

CodeRows == [kind : A!Kinds, used : BOOLEAN, live : BOOLEAN]
LinkRows == [kind : A!Kinds, code : Nat, revoked : BOOLEAN]

\* Unless one was redeemed twice at once: a credential spent its code, and no other did.
LinksInv ==
    /\ codes \in Seq(CodeRows) /\ links \in Seq(LinkRows)
    /\ redeemer \in [Workers -> Nat] /\ twice \in BOOLEAN
    /\ \A c \in Workers : redeemer[c] # 0 => redeemer[c] \in 1..Len(codes)
    /\ \A i \in 1..Len(links) : links[i].code # 0 =>
          links[i].code \in 1..Len(codes) /\ codes[links[i].code].used
    /\ A!CodeOpensOnce

LEMMA LinkFacts ==
    ASSUME LinksInv
    PROVE  /\ Len(codes) \in Nat /\ DOMAIN codes = 1..Len(codes)
           /\ \A i \in 1..Len(codes) : codes[i] \in CodeRows
           /\ Len(links) \in Nat /\ DOMAIN links = 1..Len(links)
           /\ \A i \in 1..Len(links) : links[i] \in LinkRows
BY ElementsOf DEF LinksInv

LEMMA LinksStart ==
    ASSUME A!LinksInit
    PROVE  LinksInv
<1>1. codes \in Seq(CodeRows) /\ links \in Seq(LinkRows) /\ Len(links) = 0 /\ DOMAIN links = {}
  BY EmptySeq DEF A!LinksInit
<1>2. A!CodeOpensOnce /\ 1..Len(links) = {}
  BY <1>1 DEF A!CodeOpensOnce
<1>3. redeemer \in [Workers -> Nat] /\ \A c \in Workers : redeemer[c] = 0
  BY DEF A!LinksInit
<1> QED
  BY <1>1, <1>2, <1>3, Zenon DEF A!LinksInit, LinksInv

\* Codes may be given out and spent, and no credential is.
LEMMA CodesGrow ==
    ASSUME LinksInv, UNCHANGED <<links, twice>>, codes' \in Seq(CodeRows), Len(codes') >= Len(codes),
           \A i \in 1..Len(codes) : codes[i].used => codes'[i].used,
           redeemer' \in [Workers -> Nat],
           \A c \in Workers : redeemer'[c] # 0 => redeemer'[c] \in 1..Len(codes')
    PROVE  LinksInv'
<1>1. Len(codes') \in Nat
  BY ElementsOf
<1>2. A!CodeOpensOnce'
  BY DEF LinksInv, A!CodeOpensOnce
<1>3. \A i \in 1..Len(links) : links[i].code # 0 =>
          links[i].code \in 1..Len(codes') /\ codes'[links[i].code].used
  <2>1. \A n \in 1..Len(codes) : n \in 1..Len(codes')
    BY <1>1, LinkFacts
  <2> QED
    BY <2>1, Zenon DEF LinksInv
<1> QED
  BY <1>2, <1>3 DEF LinksInv

\* A credential of an own store, or of none it had before.
LEMMA OneMoreLink ==
    ASSUME LinksInv, NEW k \in LinkRows, links' = Append(links, k),
           codes' \in Seq(CodeRows), Len(codes') = Len(codes),
           \A i \in 1..Len(codes) : codes[i].used => codes'[i].used,
           k.code # 0 => k.code \in 1..Len(codes') /\ codes'[k.code].used,
           redeemer' \in [Workers -> Nat],
           \A c \in Workers : redeemer'[c] # 0 => redeemer'[c] \in 1..Len(codes'),
           twice' \in BOOLEAN, twice => twice',
           k.code # 0 => twice' \/ ~codes[k.code].used
    PROVE  LinksInv'
<1>1. links' \in Seq(LinkRows) /\ Len(links') = Len(links) + 1 /\ links'[Len(links) + 1] = k
      /\ \A i \in 1..Len(links) : links'[i] = links[i]
  BY OneMore DEF LinksInv
<1>2. DOMAIN links' = 1..Len(links')
  BY <1>1, ElementsOf
<1>3. \A i \in 1..Len(links) : links[i].code # 0 =>
          links[i].code \in 1..Len(codes) /\ codes[links[i].code].used
  BY DEF LinksInv
<1>4. \A i \in 1..Len(links') : links'[i].code # 0 =>
          links'[i].code \in 1..Len(codes') /\ codes'[links'[i].code].used
  BY <1>1, <1>3, LinkFacts
<1>5. A!CodeOpensOnce'
  <2> SUFFICES ASSUME ~twice', NEW i \in 1..Len(links'), NEW j \in 1..Len(links'),
                      links'[i].code # 0, links'[i].code = links'[j].code
               PROVE  i = j
    BY <1>2 DEF A!CodeOpensOnce
  <2>1. \A x, y \in 1..Len(links) : links[x].code # 0 /\ links[x].code = links[y].code => x = y
    BY LinkFacts DEF LinksInv, A!CodeOpensOnce
  <2>2. \A x \in 1..Len(links) : links[x].code # 0 => links[x].code # k.code
    BY <1>3, Zenon
  <2> QED
    BY <1>1, <2>1, <2>2, LinkFacts
<1> QED
  BY <1>1, <1>4, <1>5 DEF LinksInv

LEMMA CodeIssued ==
    ASSUME LinksInv, NEW kind \in A!Kinds, A!IssueCode(kind)
    PROVE  LinksInv'
<1> DEFINE k == [kind |-> kind, used |-> FALSE, live |-> TRUE]
<1>1. k \in CodeRows /\ codes' = Append(codes, k) /\ UNCHANGED <<links, redeemer, twice>>
  BY DEF A!IssueCode, CodeRows
<1> HIDE DEF k
<1>2. codes' \in Seq(CodeRows) /\ Len(codes') = Len(codes) + 1
      /\ \A i \in 1..Len(codes) : codes'[i] = codes[i]
  BY <1>1, OneMore DEF LinksInv
<1> QED
  BY <1>1, <1>2, LinkFacts, CodesGrow DEF LinksInv

LEMMA CodeChanged ==
    ASSUME LinksInv, NEW i \in 1..Len(codes), NEW k \in CodeRows
    PROVE  LET now == [codes EXCEPT ![i] = k]
           IN  now \in Seq(CodeRows) /\ Len(now) = Len(codes)
               /\ \A j \in 1..Len(codes) : now[j] = IF j = i THEN k ELSE codes[j]
BY OneChanged DEF LinksInv

LEMMA CodePasses ==
    ASSUME LinksInv, NEW i \in DOMAIN codes, A!CodeExpires(i)
    PROVE  LinksInv'
<1>1. i \in 1..Len(codes) /\ codes[i] \in CodeRows
  BY LinkFacts
<1>2. PICK k : k = [codes[i] EXCEPT !.live = FALSE]
  BY Zenon
<1>3. k \in CodeRows /\ k.used = codes[i].used
  BY <1>1, <1>2, Zenon DEF CodeRows
<1>4. codes' = [codes EXCEPT ![i] = k] /\ UNCHANGED <<links, redeemer, twice>>
  BY <1>2 DEF A!CodeExpires
<1> QED
  BY <1>1, <1>3, <1>4, CodeChanged, CodesGrow, LinkFacts DEF LinksInv

LEMMA CodeLookedUp ==
    ASSUME LinksInv, NEW c \in Workers, NEW i \in DOMAIN codes, A!Redeems(c, i)
    PROVE  LinksInv'
BY LinkFacts, CodesGrow DEF LinksInv, A!Redeems

LEMMA CodeSpent ==
    ASSUME LinksInv, NEW c \in Workers, A!Redeemed(c)
    PROVE  LinksInv'
<1> DEFINE i == redeemer[c]
           k == [kind |-> codes[i].kind, code |-> i, revoked |-> FALSE]
<1>1. i \in 1..Len(codes) /\ codes[i] \in CodeRows /\ i # 0
  BY LinkFacts DEF LinksInv, A!Redeemed
<1>2. PICK row : row = [codes[i] EXCEPT !.used = TRUE]
  BY Zenon
<1>3. row \in CodeRows /\ row.used
  BY <1>1, <1>2, Zenon DEF CodeRows
<1>4. links' = Append(links, k) /\ codes' = [codes EXCEPT ![i] = row]
      /\ twice' = (twice \/ codes[i].used) /\ redeemer' = [redeemer EXCEPT ![c] = 0]
  BY <1>2 DEF A!Redeemed, A!Spent
<1>5. k \in LinkRows /\ k.code = i
  BY <1>1, LinkFacts DEF LinkRows, CodeRows
<1>6. codes' \in Seq(CodeRows) /\ Len(codes') = Len(codes)
      /\ \A j \in 1..Len(codes) : codes'[j] = IF j = i THEN row ELSE codes[j]
  BY <1>1, <1>3, <1>4, CodeChanged
<1>7. codes[i].used \in BOOLEAN
  BY <1>1 DEF CodeRows
<1>8. /\ \A j \in 1..Len(codes) : codes[j].used => codes'[j].used
      /\ i \in 1..Len(codes') /\ codes'[i].used
      /\ redeemer' \in [Workers -> Nat]
      /\ \A d \in Workers : redeemer'[d] # 0 => redeemer'[d] \in 1..Len(codes')
      /\ twice' \in BOOLEAN /\ (twice => twice') /\ (twice' \/ ~codes[i].used)
  BY <1>1, <1>3, <1>4, <1>6, <1>7 DEF LinksInv
<1> HIDE DEF k
<1> QED
  BY <1>4, <1>5, <1>6, <1>8, OneMoreLink

LEMMA LinkedItself ==
    ASSUME LinksInv, NEW kind \in A!Kinds, A!LinkOwn(kind)
    PROVE  LinksInv'
<1> DEFINE k == [kind |-> kind, code |-> 0, revoked |-> FALSE]
<1>1. k \in LinkRows /\ k.code = 0 /\ links' = Append(links, k) /\ UNCHANGED <<codes, redeemer, twice>>
  BY DEF A!LinkOwn, LinkRows
<1> HIDE DEF k
<1> QED
  BY <1>1, OneMoreLink DEF LinksInv

LEMMA LinkRevoked ==
    ASSUME LinksInv, NEW l \in DOMAIN links, A!Revoke(l)
    PROVE  LinksInv'
<1>1. l \in 1..Len(links) /\ links[l] \in LinkRows
  BY LinkFacts
<1>2. PICK k : k = [links[l] EXCEPT !.revoked = TRUE]
  BY Zenon
<1>3. k \in LinkRows /\ k.code = links[l].code
  BY <1>1, <1>2, Zenon DEF LinkRows
<1>4. links' = [links EXCEPT ![l] = k] /\ UNCHANGED <<codes, redeemer, twice>>
  BY <1>2 DEF A!Revoke
<1>5. links' \in Seq(LinkRows) /\ Len(links') = Len(links)
      /\ \A j \in 1..Len(links) : links'[j] = IF j = l THEN k ELSE links[j]
  BY <1>1, <1>3, <1>4, OneChanged DEF LinksInv
<1>6. DOMAIN links' = DOMAIN links /\ \A j \in 1..Len(links) : links'[j].code = links[j].code
  BY <1>3, <1>5, ElementsOf, LinkFacts
<1> QED
  BY <1>4, <1>5, <1>6, LinkFacts DEF LinksInv, A!CodeOpensOnce

LEMMA LinksStutter == LinksInv /\ UNCHANGED linksOnly => LinksInv'
BY DEF LinksInv, linksOnly, A!CodeOpensOnce

LEMMA LinksStep ==
    ASSUME LinksInv, A!LinksNext
    PROVE  LinksInv'
BY CodeIssued, CodePasses, CodeLookedUp, CodeSpent, LinkedItself, LinkRevoked DEF A!LinksNext

LEMMA OneCredential == LinksInv => A!CodeOpensOnce
BY DEF LinksInv

-----------------------------------------------------------------------------
(* What the assistant does *)

IsSeq(s) == \E X : s \in Seq(X)

\* What was done is what had been read; each plan of an order was made for a version that is over;
\* and a plan that is being confirmed is still of what is there, unless the balance changed.
AssistInv ==
    /\ about \in {"order", "stock", "product"} /\ moved \in BOOLEAN /\ DOMAIN promise = Workers
    /\ IsSeq(applied)
    /\ A!DoneAsRead
    /\ about = "order" =>
          /\ version \in Nat /\ \A c \in Workers : promise[c] = A!NoPlan
          /\ \A i \in DOMAIN applied : applied[i].plan.version \in 0..(version - 1)
          /\ A!OrderMovedOnce
    /\ about = "stock" /\ ~moved =>
          \A c \in Workers : promise[c] # A!NoPlan => promise[c][1].from = thing
    /\ about = "product" =>
          /\ thing \in BOOLEAN
          /\ \A plan \in plans : plan.from \in BOOLEAN /\ plan.to = ~plan.from
          /\ \A c \in Workers : promise[c] # A!NoPlan =>
                promise[c][1].from \in BOOLEAN /\ promise[c][1].to = ~promise[c][1].from

LEMMA SeqMore ==
    ASSUME NEW s, IsSeq(s), NEW x
    PROVE  /\ IsSeq(Append(s, x)) /\ Len(s) \in Nat /\ DOMAIN s = 1..Len(s)
           /\ DOMAIN Append(s, x) = 1..(Len(s) + 1) /\ Append(s, x)[Len(s) + 1] = x
           /\ \A i \in DOMAIN s : Append(s, x)[i] = s[i]
<1>1. PICK X : s \in Seq(X)
  BY DEF IsSeq
<1>2. s \in Seq(X \cup {x})
  BY <1>1, ElementsOf, SequenceOf, SeqDef
<1>3. Append(s, x) \in Seq(X \cup {x}) /\ Len(Append(s, x)) = Len(s) + 1
      /\ \A i \in 1..Len(s) : Append(s, x)[i] = s[i]
      /\ Append(s, x)[Len(s) + 1] = x
  BY <1>2, OneMore
<1>4. Len(s) \in Nat /\ DOMAIN s = 1..Len(s) /\ DOMAIN Append(s, x) = 1..Len(Append(s, x))
  BY <1>1, <1>3, ElementsOf
<1> QED
  BY <1>3, <1>4 DEF IsSeq

LEMMA AssistStart ==
    ASSUME A!AssistantInit
    PROVE  AssistInv
<1>1. IsSeq(applied) /\ DOMAIN applied = {}
  BY EmptySeq DEF A!AssistantInit, IsSeq
<1>2. DOMAIN promise = Workers /\ \A c \in Workers : promise[c] = A!NoPlan
  BY DEF A!AssistantInit
<1> QED
  BY <1>1, <1>2, Zenon DEF A!AssistantInit, AssistInv, A!DoneAsRead, A!OrderMovedOnce

\* A plan is made of what is there, and changes nothing.
LEMMA AssistPlans ==
    ASSUME AssistInv, NEW to \in A!Targets, A!Plans(to)
    PROVE  AssistInv'
<1>1. plans' = plans \cup {A!Effect(thing, to)} /\ UNCHANGED <<about, thing, version, promise, applied, moved>>
  BY DEF A!Plans
<1>2. about = "product" => A!Effect(thing, to).from \in BOOLEAN
                           /\ A!Effect(thing, to).to = ~A!Effect(thing, to).from
  BY DEF AssistInv, A!Targets, A!Effect
<1> QED
  BY <1>1, <1>2 DEF AssistInv, A!DoneAsRead, A!OrderMovedOnce

\* The last thing done is of what had been read.
LEMMA DoneIsRead ==
    ASSUME AssistInv, NEW plan, A!Done(plan), moved' \in BOOLEAN, moved => moved',
           moved' \/ plan.from = thing
    PROVE  IsSeq(applied') /\ A!DoneAsRead'
<1>1. applied' = Append(applied, [plan |-> plan, from |-> thing])
  BY DEF A!Done
<1>2. IsSeq(applied') /\ \A i \in DOMAIN applied' :
          \/ i \in DOMAIN applied /\ applied'[i] = applied[i]
          \/ applied'[i] = [plan |-> plan, from |-> thing]
  BY <1>1, SeqMore DEF AssistInv
<1> QED
  BY <1>2 DEF AssistInv, A!DoneAsRead

LEMMA AssistAdvances ==
    ASSUME AssistInv, NEW plan \in plans, A!AdvanceOrder(plan)
    PROVE  AssistInv'
<1>1. about = "order" /\ UNCHANGED <<about, plans, promise, moved>> /\ version' = version + 1
      /\ applied' = Append(applied, [plan |-> plan, from |-> thing])
  BY DEF A!AdvanceOrder, A!Done
<1>2. plan.from = thing /\ plan.version = version
  BY DEF A!AdvanceOrder, A!Authorized, A!Now, A!Effect
<1>3. IsSeq(applied') /\ A!DoneAsRead'
  BY <1>1, <1>2, DoneIsRead DEF A!AdvanceOrder, AssistInv
<1>4. /\ DOMAIN applied = 1..Len(applied) /\ Len(applied) \in Nat
      /\ DOMAIN applied' = 1..(Len(applied) + 1)
      /\ applied'[Len(applied) + 1].plan = plan
      /\ \A i \in DOMAIN applied : applied'[i] = applied[i]
  BY <1>1, SeqMore DEF AssistInv
<1>5. version \in Nat /\ \A i \in DOMAIN applied : applied[i].plan.version \in 0..(version - 1)
  BY <1>1 DEF AssistInv
<1>6. \A i \in DOMAIN applied' : applied'[i].plan.version \in 0..(version' - 1)
  <2> SUFFICES ASSUME NEW i \in DOMAIN applied'
               PROVE  applied'[i].plan.version \in 0..version
    BY <1>1, <1>5
  <2>1. CASE i \in DOMAIN applied
    BY <1>4, <1>5, <2>1
  <2>2. CASE i = Len(applied) + 1
    BY <1>2, <1>4, <1>5, <2>2
  <2> QED
    BY <1>4, <2>1, <2>2
<1>7. \A i, j \in DOMAIN applied' : applied'[i].plan = applied'[j].plan => i = j
  <2>1. \A i, j \in DOMAIN applied : applied[i].plan = applied[j].plan => i = j
    BY <1>1 DEF AssistInv, A!OrderMovedOnce
  <2>2. \A i \in DOMAIN applied : applied[i].plan # plan
    BY <1>2, <1>5
  <2>3. \A i \in DOMAIN applied' : i \in DOMAIN applied \/ i = Len(applied) + 1
    BY <1>4
  <2> QED
    BY <1>4, <2>1, <2>2, <2>3
<1> QED
  BY <1>1, <1>3, <1>5, <1>6, <1>7 DEF AssistInv, A!OrderMovedOnce

\* A confirmation that is accepted is of what is there.
LEMMA AssistConfirms ==
    ASSUME AssistInv, NEW c \in Workers, NEW plan \in plans, A!Confirms(c, plan)
    PROVE  AssistInv'
<1>1. about # "order" /\ plan.from = thing
  BY DEF A!Confirms, A!Authorized, A!Now, A!Effect
<1>2. UNCHANGED <<about, thing, version, plans, applied, moved>> /\ DOMAIN promise' = Workers
      /\ promise'[c] = <<plan>> /\ \A d \in Workers \ {c} : promise'[d] = promise[d]
  BY DEF AssistInv, A!Confirms
<1>3. promise'[c][1] = plan
  BY <1>2
<1> QED
  BY <1>1, <1>2, <1>3 DEF AssistInv, A!DoneAsRead, A!OrderMovedOnce

\* What is done is what was confirmed, of what is there still, or of what crossed.
LEMMA AssistApplies ==
    ASSUME AssistInv, NEW c \in Workers, A!Applies(c)
    PROVE  AssistInv'
<1> DEFINE plan == promise[c][1]
<1>1. promise[c] # A!NoPlan /\ about # "order" /\ UNCHANGED <<about, version, plans>>
      /\ DOMAIN promise' = Workers /\ promise'[c] = A!NoPlan
      /\ \A d \in Workers \ {c} : promise'[d] = promise[d]
  BY DEF AssistInv, A!Applies
<1>2. CASE UNCHANGED <<thing, applied, moved>>
  BY <1>1, <1>2 DEF AssistInv, A!DoneAsRead, A!OrderMovedOnce
<1>3. CASE /\ A!Possible(A!Now(plan)) /\ A!Done(plan)
           /\ moved' = (moved \/ A!InFlight(Workers \ {c}))
  <2>1. moved' \in BOOLEAN /\ (moved => moved')
    BY <1>3 DEF AssistInv, A!InFlight
  <2>2. thing' = A!Now(plan).to
    BY <1>3 DEF A!Done
  <2>3. CASE about = "stock"
    <3>1. moved' \/ plan.from = thing
      BY <1>1, <2>1, <2>3 DEF AssistInv
    <3>2. ~moved' => \A d \in Workers : promise'[d] = A!NoPlan
      BY <1>1, <1>3, <2>3, Zenon DEF AssistInv, A!InFlight
    <3>3. IsSeq(applied') /\ A!DoneAsRead'
      BY <1>3, <2>1, <3>1, DoneIsRead
    <3> QED
      BY <1>1, <2>1, <2>3, <3>2, <3>3 DEF AssistInv
  <2>4. CASE about = "product"
    <3>1. A!Now(plan).to = plan.to /\ A!Now(plan).from = thing
      BY <2>4 DEF A!Now, A!Effect
    <3>2. plan.to # thing
      BY <1>3, <2>4, <3>1 DEF A!Possible
    <3>3. thing \in BOOLEAN /\ plan.from \in BOOLEAN /\ plan.to = ~plan.from
      BY <1>1, <2>4 DEF AssistInv
    <3>4. plan.from = thing /\ plan.to \in BOOLEAN
      BY <3>2, <3>3
    <3>5. IsSeq(applied') /\ A!DoneAsRead'
      BY <1>3, <2>1, <3>4, DoneIsRead
    <3> QED
      BY <1>1, <2>1, <2>2, <2>4, <3>1, <3>4, <3>5 DEF AssistInv
  <2> QED
    BY <1>1, <2>3, <2>4 DEF AssistInv
<1> QED
  BY <1>2, <1>3 DEF A!Applies

\* The rest of the store works: a balance that changes is noted.
LEMMA AssistElse ==
    ASSUME AssistInv, NEW to \in A!Targets, A!Else(to)
    PROVE  AssistInv'
<1>1. thing' = to /\ UNCHANGED <<about, plans, promise, applied>>
      /\ moved' = (moved \/ A!InFlight(Workers))
      /\ version' = IF about = "order" THEN version + 1 ELSE version
  BY DEF A!Else
<1>2. moved' \in BOOLEAN /\ A!DoneAsRead'
  BY <1>1 DEF AssistInv, A!InFlight, A!DoneAsRead
<1>3. CASE about = "order"
  BY <1>1, <1>2, <1>3 DEF AssistInv, A!OrderMovedOnce
<1>4. CASE about = "stock"
  <2>1. ~moved' => \A c \in Workers : promise[c] = A!NoPlan
    BY <1>1, <1>4, Zenon DEF A!InFlight
  <2> QED
    BY <1>1, <1>2, <1>4, <2>1 DEF AssistInv
<1>5. CASE about = "product"
  <2>1. to \in BOOLEAN
    BY <1>5 DEF A!Targets, AssistInv
  <2> QED
    BY <1>1, <1>2, <1>5, <2>1 DEF AssistInv
<1> QED
  BY <1>3, <1>4, <1>5 DEF AssistInv

LEMMA AssistStutter == AssistInv /\ UNCHANGED assistantOnly => AssistInv'
BY DEF AssistInv, assistantOnly, A!DoneAsRead, A!OrderMovedOnce

LEMMA AssistStep ==
    ASSUME AssistInv, A!AssistantNext
    PROVE  AssistInv'
BY AssistPlans, AssistAdvances, AssistConfirms, AssistApplies, AssistElse DEF A!AssistantNext

LEMMA AssistantDoesAsRead == AssistInv => A!DoneAsRead /\ A!OrderMovedOnce
BY DEF AssistInv, A!OrderMovedOnce

-----------------------------------------------------------------------------
(* What the assistant sells *)

\* What a request asks for is a list; and an order costs what was heard.
SellerInv ==
    /\ DOMAIN seller = Workers /\ heard.lines \in Seq(Items)
    /\ \A c \in Workers : seller[c].at = "emptied" =>
          seller[c].lines \in Seq(Items) /\ seller[c].locks \in BOOLEAN
    /\ cart.open \in BOOLEAN
    /\ IsSeq(orders) /\ V!AgentOrderIsAsHeard

LEMMA SellerStart ==
    ASSUME V!AgentSalesInit
    PROVE  SellerInv
<1>1. IsSeq(orders) /\ DOMAIN orders = {} /\ <<>> \in Seq(Items)
  BY EmptySeq DEF V!AgentSalesInit, IsSeq
<1>2. DOMAIN seller = Workers /\ \A c \in Workers : seller[c].at = "idle"
  BY DEF V!AgentSalesInit, V!Idle
<1>3. cart.open = FALSE /\ heard.lines = <<>>
  BY DEF V!AgentSalesInit, V!NoCart
<1> QED
  BY <1>1, <1>2, <1>3, Zenon DEF SellerInv, V!AgentOrderIsAsHeard

\* The others in the store: the cart may change, and nothing else that counts.
LEMMA SellerElse ==
    ASSUME SellerInv, UNCHANGED <<seller, heard, orders>>, cart'.open \in BOOLEAN
    PROVE  SellerInv'
BY DEF SellerInv, V!AgentOrderIsAsHeard

LEMMA SellerQuotes ==
    ASSUME SellerInv, NEW lines \in Seq(Items), V!Quote(lines)
    PROVE  SellerInv'
<1>1. heard'.lines = lines /\ UNCHANGED <<seller, orders, cart>>
  BY DEF V!Quote
<1> QED
  BY <1>1 DEF SellerInv, V!AgentOrderIsAsHeard

LEMMA SellerStarts ==
    ASSUME SellerInv, NEW c \in Workers, NEW ref, NEW pickup \in BOOLEAN, V!Starts(c, ref, pickup)
    PROVE  SellerInv'
<1> DEFINE k == [at |-> "emptied", ref |-> ref, lines |-> heard.lines,
                 total |-> heard.total, locks |-> cart.open, pickup |-> pickup]
<1>1. seller' = [seller EXCEPT ![c] = k] /\ UNCHANGED <<heard, orders, cart>>
  BY DEF V!Starts
<1>2. k.lines = heard.lines /\ k.locks = cart.open
  OBVIOUS
<1> HIDE DEF k
<1>3. DOMAIN seller' = Workers /\ seller'[c] = k /\ \A d \in Workers \ {c} : seller'[d] = seller[d]
  BY <1>1 DEF SellerInv
<1> QED
  BY <1>1, <1>2, <1>3 DEF SellerInv, V!AgentOrderIsAsHeard

\* An order that is made has the total that was heard, of the lines asked for unless a cart was opened
\* meanwhile, and is the first of its message.
LEMMA SellerPlaces ==
    ASSUME SellerInv, NEW c \in Workers, V!Places(c)
    PROVE  SellerInv'
<1> DEFINE k == seller[c]
           b == V!Filled(c)
           made == [ref |-> k.ref, asked |-> k.lines, heard |-> k.total, lines |-> b.lines,
                    total |-> V!Total(b), joined |-> ~k.locks /\ cart.open]
<1>1. k.at = "emptied" /\ seller' = [seller EXCEPT ![c] = V!Idle] /\ UNCHANGED heard
  BY DEF V!Places
<1>2. DOMAIN seller' = Workers
      /\ \A d \in Workers : seller'[d].at = "emptied" => seller'[d] = seller[d]
  BY <1>1 DEF SellerInv, V!Idle
<1>3. CASE UNCHANGED <<cart, orders>>
  BY <1>1, <1>2, <1>3 DEF SellerInv, V!AgentOrderIsAsHeard
<1>4. CASE cart' = [open |-> TRUE, is |-> b] /\ UNCHANGED orders
  BY <1>1, <1>2, <1>4 DEF SellerInv, V!AgentOrderIsAsHeard
<1>5. CASE /\ ~V!Known(k.ref) /\ V!CheckQuote(V!Total(b), k.total)
           /\ orders' = Append(orders, made) /\ cart' = V!NoCart
  <2>1. made.total = made.heard /\ made.ref = k.ref
    BY <1>5 DEF V!CheckQuote
  <2>2. made.joined \/ made.lines = made.asked
    <3>1. b.lines = IF k.locks THEN k.lines
                    ELSE (IF cart.open THEN cart.is ELSE V!Emptied).lines \o k.lines
      BY DEF V!Filled
    <3>2. k.lines \in Seq(Items) /\ k.locks \in BOOLEAN /\ cart.open \in BOOLEAN
      BY <1>1 DEF SellerInv
    <3>3. ~k.locks /\ ~cart.open => b.lines = k.lines
      <4>1. V!Emptied.lines = <<>>
        BY DEF V!Emptied
      <4>2. <<>> \o k.lines = k.lines
        BY <3>2, ConcatEmptySeq
      <4> QED
        BY <3>1, <4>1, <4>2, Zenon
    <3> QED
      BY <3>1, <3>2, <3>3
  <2> HIDE DEF made
  <2>3. /\ IsSeq(orders') /\ DOMAIN orders = 1..Len(orders) /\ Len(orders) \in Nat
        /\ DOMAIN orders' = 1..(Len(orders) + 1) /\ orders'[Len(orders) + 1] = made
        /\ \A i \in DOMAIN orders : orders'[i] = orders[i]
    BY <1>5, SeqMore DEF SellerInv
  <2>4. \A i \in DOMAIN orders : /\ orders[i].ref # k.ref
                                 /\ orders[i].total = orders[i].heard
                                 /\ orders[i].joined \/ orders[i].lines = orders[i].asked
                                 /\ \A j \in DOMAIN orders : orders[j].ref = orders[i].ref => j = i
    BY <1>5 DEF SellerInv, V!Known, V!AgentOrderIsAsHeard
  <2>5. \A i \in DOMAIN orders' : i \in DOMAIN orders \/ i = Len(orders) + 1
    BY <2>3
  <2>6. V!AgentOrderIsAsHeard'
    BY <2>1, <2>2, <2>3, <2>4, <2>5 DEF V!AgentOrderIsAsHeard
  <2>7. cart'.open = FALSE
    BY <1>5 DEF V!NoCart
  <2> QED
    BY <1>1, <1>2, <2>3, <2>6, <2>7, Zenon DEF SellerInv
<1> QED
  BY <1>3, <1>4, <1>5 DEF V!Places

LEMMA SellerOnSite ==
    ASSUME SellerInv, NEW now, V!OnSite(now), now.open \in BOOLEAN
    PROVE  SellerInv'
<1>1. cart' = now /\ UNCHANGED <<seller, heard, orders>>
  BY DEF V!OnSite
<1> QED
  BY <1>1, SellerElse

LEMMA SellerStutter == SellerInv /\ UNCHANGED <<cart, seller, heard, orders>> => SellerInv'
BY DEF SellerInv, V!AgentOrderIsAsHeard

LEMMA SellerStep ==
    ASSUME SellerInv, V!AgentSalesNext
    PROVE  SellerInv'
<1>1. CASE V!Resolve
  BY <1>1, SellerStutter DEF V!Resolve
<1>2. CASE \E lines \in {<<i>> : i \in Items} \cup {<<i, i>> : i \in Items} : V!Quote(lines)
  <2>1. PICK lines \in {<<i>> : i \in Items} \cup {<<i, i>> : i \in Items} : V!Quote(lines)
    BY <1>2
  <2>2. lines \in Seq(Items)
    <3>1. PICK i \in Items : lines = <<i>> \/ lines = <<i, i>>
      OBVIOUS
    <3>2. <<i>> \in Seq(Items) /\ <<i, i>> \in Seq(Items)
      OBVIOUS
    <3> QED
      BY <3>1, <3>2, Zenon
  <2> QED
    BY <2>1, <2>2, SellerQuotes
<1>3. ASSUME NEW c \in Workers,
             V!Places(c) \/ \E ref \in References, pickup \in BOOLEAN : V!Starts(c, ref, pickup)
      PROVE  SellerInv'
  BY <1>3, SellerPlaces, SellerStarts
<1>4. CASE V!PutsCoupon
  <2>1. [open |-> TRUE, is |-> [V!Basket EXCEPT !.coupon = TRUE]].open \in BOOLEAN
    OBVIOUS
  <2> QED
    BY <1>4, <2>1, SellerOnSite, Zenon DEF V!PutsCoupon
<1>5. CASE V!Buys
  <2>1. V!NoCart.open \in BOOLEAN
    BY DEF V!NoCart
  <2> QED
    BY <1>5, <2>1, SellerOnSite DEF V!Buys
<1>6. ASSUME NEW way, V!Chooses(way)
      PROVE  SellerInv'
  <2>1. [open |-> TRUE, is |-> [V!Basket EXCEPT !.way = way]].open \in BOOLEAN
    OBVIOUS
  <2> QED
    BY <1>6, <2>1, SellerOnSite, Zenon DEF V!Chooses
<1>7. ASSUME NEW i, V!PutsItem(i)
      PROVE  SellerInv'
  <2>1. [open |-> TRUE, is |-> [V!Basket EXCEPT !.lines = Append(@, i)]].open \in BOOLEAN
    OBVIOUS
  <2> QED
    BY <1>7, <2>1, SellerOnSite, Zenon DEF V!PutsItem
<1>8. ASSUME NEW i, NEW p, V!SetsPrice(i, p)
      PROVE  SellerInv'
  BY <1>8, SellerStutter DEF V!SetsPrice
<1>9. ASSUME NEW status, V!Decides(status)
      PROVE  SellerInv'
  BY <1>9, SellerStutter DEF V!Decides
<1> QED
  BY <1>1, <1>2, <1>3, <1>4, <1>5, <1>6, <1>7, <1>8, <1>9 DEF V!AgentSalesNext

LEMMA OrdersAreAsHeard == SellerInv => V!AgentOrderIsAsHeard
BY DEF SellerInv

-----------------------------------------------------------------------------
(* The product, its variants and its images *)

AllCombos == {Combos[i] : i \in 1..Len(Combos)}
ProductRows == [status : C!ProductStatus \cup {"none"}, kind : {"goods", "ticket"}, price : 0..1,
                event : BOOLEAN]
VariantRows == [row : {"none", "live", "archived"}, status : {"active", "paused", "inactive"},
                combo : {NoCombo} \cup AllCombos, lot : BOOLEAN]
Shelves == [Slots -> VariantRows]

\* The live variants v are the matrix of the options o.
Exact(v, o) ==
    /\ {v[s].combo : s \in C!Rows(v)} = (IF o = {} THEN {NoCombo} ELSE o)
    /\ \A s, t \in C!Rows(v) : s # t => v[s].combo # v[t].combo
    /\ C!Lots(v) = {}
\* With an event they are its lots, or the one variant that will be the first of them.
OfEvent(v) ==
    /\ \A s \in C!Rows(v) : v[s].combo = NoCombo
    /\ \/ C!Rows(v) \subseteq C!Lots(v)
       \/ C!Lots(v) = {} /\ \A s, t \in C!Rows(v) : s = t

CatalogInv ==
    /\ product \in ProductRows /\ variant \in Shelves /\ options \in SUBSET AllCombos
    /\ images \in [ready : Nat, waiting : Nat]
    /\ C!Lots(variant) \subseteq C!Rows(variant)
    /\ product.event => product.kind = "ticket" /\ OfEvent(variant)
    /\ product.kind = "ticket" => options = {}
    /\ product.status = "none" => /\ ~product.event /\ options = {}
                                  /\ \A s \in Slots : variant[s] = C!NoRow
    /\ product.status # "none" /\ ~product.event => Exact(variant, options)
    /\ C!IsPublished => images.ready > 0 /\ (~product.event => C!Sold(variant) # {})

LEMMA SlotsOrdered == Slots \subseteq Nat /\ IsFiniteSet(Slots) /\ 1 \in Slots /\ None \notin Slots
BY BackOfficeAssumption

LEMMA CombosKnown == Len(Combos) \in Nat /\ NoCombo \notin AllCombos /\ IsFiniteSet(AllCombos)
<1>1. Len(Combos) \in Nat /\ NoCombo \notin AllCombos
  BY BackOfficeAssumption, ElementsOf DEF AllCombos
<1>2. IsFiniteSet(1..Len(Combos))
  BY <1>1, FS_Interval
<1> DEFINE f == [i \in 1..Len(Combos) |-> Combos[i]]
<1>3. f \in Surjection(1..Len(Combos), AllCombos)
  BY DEF Surjection, AllCombos
<1> HIDE DEF f
<1> QED
  BY <1>1, <1>2, <1>3, FS_Surjection

LEMMA CatalogStart == C!CatalogInit => CatalogInv
<1> SUFFICES ASSUME C!CatalogInit
             PROVE  CatalogInv
  OBVIOUS
<1>1. C!NoRow \in VariantRows
  BY DEF C!NoRow, VariantRows
<1>2. variant \in Shelves /\ \A s \in Slots : variant[s] = C!NoRow
  BY <1>1 DEF C!CatalogInit, Shelves
<1>3. product \in ProductRows /\ product.status = "none" /\ ~product.event /\ product.kind = "goods"
  BY DEF C!CatalogInit, ProductRows, C!ProductStatus
<1>4. images \in [ready : Nat, waiting : Nat] /\ options = {}
  BY DEF C!CatalogInit
<1>5. C!Lots(variant) = {}
  BY <1>2 DEF C!Lots, C!NoRow
<1> QED
  BY <1>2, <1>3, <1>4, <1>5 DEF CatalogInv, C!IsPublished, C!PUBLISHED

\* What concerns the product alone.
LEMMA CatalogCreates ==
    ASSUME CatalogInv, NEW kind \in {"goods", "ticket"}, NEW cost \in 0..1, C!Create(kind, cost)
    PROVE  CatalogInv'
<1>1. product' = [status |-> "draft", kind |-> kind, price |-> cost, event |-> FALSE]
      /\ UNCHANGED <<options, images>> /\ options = {} /\ \A s \in Slots : variant[s] = C!NoRow
  BY DEF C!Create, CatalogInv
<1>2. product' \in ProductRows /\ product'.status = "draft" /\ ~product'.event
  BY <1>1 DEF ProductRows, C!ProductStatus
<1>3. C!Row("active", NoCombo, FALSE) \in VariantRows
  BY DEF C!Row, VariantRows
<1>4. variant' \in Shelves /\ variant'[1] = C!Row("active", NoCombo, FALSE)
      /\ \A s \in Slots \ {1} : variant'[s] = C!NoRow
  BY <1>1, <1>3, SlotsOrdered, Zenon DEF C!Create, CatalogInv, Shelves
<1>5. C!Rows(variant') = {1} /\ C!Lots(variant') = {} /\ variant'[1].combo = NoCombo
  <2>1. /\ variant'[1].row = "live" /\ ~variant'[1].lot /\ variant'[1].combo = NoCombo
        /\ \A s \in Slots \ {1} : variant'[s].row # "live" /\ ~variant'[s].lot
    BY <1>4 DEF C!Row, C!NoRow
  <2> QED
    BY <2>1, SlotsOrdered, Zenon DEF C!Rows, C!Lots
<1>6. Exact(variant', options')
  BY <1>1, <1>5 DEF Exact
<1> QED
  BY <1>1, <1>2, <1>4, <1>5, <1>6 DEF CatalogInv, C!IsPublished, C!PUBLISHED

LEMMA CatalogUpdates ==
    ASSUME CatalogInv, NEW kind \in {"goods", "ticket"}, NEW cost \in 0..1, C!Update(kind, cost)
    PROVE  CatalogInv'
<1>1. /\ product' \in ProductRows /\ product'.status = product.status /\ product'.kind = kind
      /\ product'.event = product.event /\ UNCHANGED <<variant, options, images>>
  BY Zenon DEF C!Update, CatalogInv, ProductRows
<1>2. /\ product.status # "none"
      /\ product.kind = "ticket" /\ kind # "ticket" => ~product.event
      /\ kind = "ticket" /\ product.kind # "ticket" => options = {}
  BY DEF C!Update, C!Editable
<1>3. C!IsPublished' = C!IsPublished
  BY <1>1 DEF C!IsPublished
<1> QED
  BY <1>1, <1>2, <1>3 DEF CatalogInv, ProductRows

LEMMA CatalogPublishes ==
    ASSUME CatalogInv, C!Publish
    PROVE  CatalogInv'
<1>1. /\ product' \in ProductRows /\ product'.status = "active" /\ product'.kind = product.kind
      /\ product'.event = product.event /\ UNCHANGED <<variant, options, images>>
      /\ product.status # "none" /\ C!Missing = {}
  BY DEF C!Publish, CatalogInv, ProductRows, C!ProductStatus
<1>2. images.ready # 0
  BY <1>1, Zenon DEF C!Missing
<1>3. ~\A s \in C!Rows(variant) : variant[s].status # "active"
  BY <1>1, Zenon DEF C!Missing
<1>4. C!Sold(variant) # {}
  BY <1>3 DEF C!Sold, C!LIVE_VARIANT
<1>5. images.ready > 0
  BY <1>2 DEF CatalogInv
<1> QED
  BY <1>1, <1>4, <1>5 DEF CatalogInv

LEMMA CatalogBecomes ==
    ASSUME CatalogInv, C!Unpublish \/ C!PauseProduct \/ C!ResumeProduct \/ C!Archive
    PROVE  CatalogInv'
<1>1. \E to \in C!ProductStatus : product' = [product EXCEPT !.status = to]
  BY DEF C!Unpublish, C!PauseProduct, C!ResumeProduct, C!Archive, C!Becomes, C!ProductStatus
<1>2. /\ UNCHANGED <<variant, options, images>> /\ product.status # "none"
      /\ product'.status \in C!PUBLISHED => product.status \in C!PUBLISHED
  BY DEF C!Unpublish, C!PauseProduct, C!ResumeProduct, C!Archive, C!Becomes, C!ProductStatus,
         C!PUBLISHED, CatalogInv, ProductRows
<1>3. /\ product' \in ProductRows /\ product'.kind = product.kind
      /\ product'.event = product.event /\ product'.status # "none"
  BY <1>1 DEF CatalogInv, ProductRows, C!ProductStatus
<1>4. C!IsPublished' => C!IsPublished
  BY <1>2 DEF C!IsPublished
<1> QED
  BY <1>2, <1>3, <1>4 DEF CatalogInv

LEMMA CatalogPictures ==
    ASSUME CatalogInv,
           C!Upload \/ (\E ok \in BOOLEAN : C!Rendered(ok)) \/ C!DeleteImage
    PROVE  CatalogInv'
<1>1. UNCHANGED <<product, variant, options>>
  BY DEF C!Upload, C!Rendered, C!DeleteImage
<1>2. /\ images' \in [ready : Nat, waiting : Nat]
      /\ C!IsPublished => images'.ready > 0
  <2>1. images \in [ready : Nat, waiting : Nat] /\ (C!IsPublished => images.ready > 0)
    BY DEF CatalogInv
  <2>2. CASE C!Upload
    BY <2>1, <2>2 DEF C!Upload
  <2>3. CASE \E ok \in BOOLEAN : C!Rendered(ok)
    BY <2>1, <2>3 DEF C!Rendered
  <2>4. CASE C!DeleteImage
    BY <2>1, <2>4 DEF C!DeleteImage
  <2> QED
    BY <2>2, <2>3, <2>4
<1>3. C!IsPublished' = C!IsPublished
  BY <1>1 DEF C!IsPublished
<1> QED
  BY <1>1, <1>2, <1>3 DEF CatalogInv

LEMMA CatalogEvent ==
    ASSUME CatalogInv, C!PutEvent
    PROVE  CatalogInv'
<1>1. /\ product' \in ProductRows /\ product'.status = product.status /\ product'.kind = "ticket"
      /\ product'.event /\ UNCHANGED <<variant, options, images>>
      /\ product.status # "none" /\ ~product.event /\ product.kind = "ticket"
  BY Zenon DEF C!PutEvent, C!IsTicket, C!Editable, CatalogInv, ProductRows
<1>2. Exact(variant, options) /\ options = {}
  BY <1>1 DEF CatalogInv
<1>3. OfEvent(variant)
  BY <1>2 DEF Exact, OfEvent
<1>4. C!IsPublished' = C!IsPublished
  BY <1>1 DEF C!IsPublished
<1> QED
  BY <1>1, <1>3, <1>4 DEF CatalogInv

\* A change of a variant's status moves none.
LEMMA CatalogSwitches ==
    ASSUME CatalogInv, NEW s \in Slots, NEW status \in {"active", "inactive"},
           C!UpdateVariant(s, status) \/ C!PauseVariant(s)
    PROVE  CatalogInv'
<1>1. /\ UNCHANGED <<product, options, images>> /\ product.status # "none"
      /\ s \in C!Rows(variant)
  BY DEF C!UpdateVariant, C!PauseVariant, C!Editable, C!Sold
<1>2. PICK new \in {"active", "paused", "inactive"} :
        /\ variant' = [variant EXCEPT ![s].status = new]
        /\ C!IsPublished /\ s \in C!Sold(variant) /\ new = "inactive" => C!LeavesOne(s)
  <2>1. CASE C!UpdateVariant(s, status)
    BY <2>1, Zenon DEF C!UpdateVariant
  <2>2. CASE C!PauseVariant(s)
    BY <2>2, Zenon DEF C!PauseVariant
  <2> QED
    BY <2>1, <2>2
<1>3. variant \in Shelves
  BY DEF CatalogInv
<1>4. /\ variant' \in Shelves
      /\ \A t \in Slots : /\ variant'[t].row = variant[t].row /\ variant'[t].combo = variant[t].combo
                          /\ variant'[t].lot = variant[t].lot
                          /\ t # s => variant'[t] = variant[t]
      /\ variant'[s].status = new
  BY <1>2, <1>3 DEF Shelves, VariantRows
<1>5. C!Rows(variant') = C!Rows(variant) /\ C!Lots(variant') = C!Lots(variant)
      /\ C!Rows(variant) \subseteq Slots
  BY <1>4 DEF C!Rows, C!Lots
<1>6. Exact(variant, options) => Exact(variant', options)
  BY <1>4, <1>5 DEF Exact
<1>7. OfEvent(variant) => OfEvent(variant')
  BY <1>4, <1>5 DEF OfEvent
<1>8. C!IsPublished /\ C!Sold(variant) # {} => C!Sold(variant') # {}
  <2>1. CASE new = "inactive" /\ s \in C!Sold(variant)
    BY <1>2, <1>4, <1>5, <2>1 DEF C!LeavesOne, C!Sold
  <2>2. CASE ~(new = "inactive" /\ s \in C!Sold(variant))
    <3>1. C!Sold(variant) \subseteq C!Sold(variant')
      BY <1>4, <1>5, <2>2 DEF C!Sold, C!LIVE_VARIANT
    <3> QED
      BY <3>1
  <2> QED
    BY <2>1, <2>2
<1>9. C!IsPublished' = C!IsPublished
  BY <1>1 DEF C!IsPublished
<1> QED
  BY <1>1, <1>4, <1>5, <1>6, <1>7, <1>8, <1>9 DEF CatalogInv

\* Among n or more numbers, one has n - 1 below it.
LEMMA RankedOne ==
    ASSUME NEW X \in SUBSET Nat, IsFiniteSet(X), NEW n \in 1..Cardinality(X)
    PROVE  \E x \in X : Cardinality({y \in X : y < x}) = n - 1
<1> DEFINE Missed == {m \in 1..Cardinality(X) :
                        \A x \in X : Cardinality({y \in X : y < x}) # m - 1}
<1> SUFFICES Missed = {}
  OBVIOUS
<1> SUFFICES ASSUME Missed # {}
             PROVE  FALSE
  OBVIOUS
<1>1. Cardinality(X) \in Nat
  BY FS_CardinalityType
<1>2. Missed \in SUBSET Nat
  BY <1>1
<1>3. PICK m \in Missed : \A k \in Missed : m <= k
  BY <1>2, LeastOf, Zenon
<1>4. m \in 1..Cardinality(X) /\ \A x \in X : Cardinality({y \in X : y < x}) # m - 1
  BY <1>3
<1>5. CASE m = 1
  <2>1. X # {}
    BY <1>1, <1>4, FS_EmptySet
  <2>2. PICK x \in X : \A y \in X : x <= y
    BY <2>1, LeastOf, Zenon
  <2>3. {y \in X : y < x} = {}
    <3>1. ASSUME NEW y \in X
          PROVE  ~(y < x)
      BY <2>2
    <3> QED
      BY <3>1, Zenon
  <2> QED
    BY <1>4, <1>5, <2>3, FS_EmptySet
<1>6. CASE m # 1
  <2>1. m - 1 \in 1..Cardinality(X) /\ ~(m <= m - 1)
    BY <1>1, <1>4, <1>6
  <2>2. m - 1 \notin Missed
    BY <1>3, <2>1
  <2>3. PICK x \in X : Cardinality({y \in X : y < x}) = (m - 1) - 1
    BY <2>1, <2>2, Zenon
  <2> DEFINE Below == {y \in X : y < x}
             Upto == Below \cup {x}
             Above == {y \in X : x < y}
  <2>4. IsFiniteSet(Below) /\ x \notin Below
    BY FS_Subset
  <2>5. Cardinality(Upto) = m - 1
    <3>1. Cardinality(Upto) = Cardinality(Below) + 1
      BY <2>4, FS_AddElement, Zenon
    <3> QED
      BY <1>1, <1>4, <2>3, <3>1
  <2>6. Above # {}
    <3>1. SUFFICES ASSUME Above = {}
                   PROVE  FALSE
      OBVIOUS
    <3>2. X = Upto
      <4>1. ASSUME NEW y \in X
            PROVE  y < x \/ y = x
        BY <3>1
      <4> QED
        BY <4>1, Zenon
    <3> QED
      BY <1>1, <1>4, <2>5, <3>2
  <2>7. PICK u \in Above : \A y \in Above : u <= y
    <3>1. Above \in SUBSET Nat
      BY Zenon
    <3> QED
      BY <2>6, <3>1, LeastOf, Zenon
  <2>8. {y \in X : y < u} = Upto
    <3>1. u \in X /\ x < u
      BY <2>7
    <3>2. ASSUME NEW y \in X
          PROVE  y < u <=> y < x \/ y = x
      BY <2>7, <3>1
    <3> QED
      BY <3>2, Zenon
  <2> QED
    BY <1>4, <2>5, <2>7, <2>8
<1> QED
  BY <1>5, <1>6

LEMMA SameCardinality == \A X : C!Cardinality(X) = Cardinality(X)
BY DEF C!Cardinality, Cardinality

LEMMA FirstOf ==
    ASSUME NEW X \in SUBSET Slots, X # {}
    PROVE  C!First(X) \in X
BY SlotsOrdered, LeastOf DEF C!First

Unused == {t \in Slots : variant[t].row = "none"}

LEMMA SpareOnes ==
    ASSUME NEW n \in 1..Cardinality(Unused)
    PROVE  /\ C!Spare(n) \in Unused
           /\ Cardinality({t \in Unused : t < C!Spare(n)}) = n - 1
<1>1. Unused \in SUBSET Nat /\ IsFiniteSet(Unused)
  BY SlotsOrdered, FS_Subset DEF Unused
<1>2. PICK x \in Unused : Cardinality({t \in Unused : t < x}) = n - 1
  BY <1>1, RankedOne
<1>3. \A s : {t \in Slots : variant[t].row = "none" /\ t < s} = {t \in Unused : t < s}
  BY DEF Unused
<1>4. \A s : C!Cardinality({t \in Slots : variant[t].row = "none" /\ t < s})
             = Cardinality({t \in Unused : t < s})
  BY <1>3, SameCardinality
<1>5. \E s \in Slots : /\ variant[s].row = "none"
                       /\ C!Cardinality({t \in Slots : variant[t].row = "none" /\ t < s}) = n - 1
  BY <1>2, <1>4, Zenon DEF Unused
<1>6. /\ C!Spare(n) \in Slots /\ variant[C!Spare(n)].row = "none"
      /\ C!Cardinality({t \in Slots : variant[t].row = "none" /\ t < C!Spare(n)}) = n - 1
  BY <1>5, Zenon DEF C!Spare
<1> QED
  BY <1>4, <1>6, Zenon DEF Unused

LEMMA SparesDiffer ==
    ASSUME NEW n \in 1..Cardinality(Unused), NEW m \in 1..Cardinality(Unused),
           C!Spare(n) = C!Spare(m)
    PROVE  n = m
<1>1. Cardinality(Unused) \in Nat
  BY SlotsOrdered, FS_Subset, FS_CardinalityType DEF Unused
<1>2. n - 1 = m - 1
  BY SpareOnes, Zenon
<1> QED
  BY <1>1, <1>2

LEMMA Positions ==
    ASSUME NEW c \in AllCombos
    PROVE  C!Position(c) \in 1..Len(Combos) /\ Combos[C!Position(c)] = c
BY DEF C!Position, AllCombos

\* The new combinations are numbered from 1, in the order of the matrix.
LEMMA Indices ==
    ASSUME NEW K \in SUBSET AllCombos, NEW c \in K
    PROVE  C!Index(c, K) \in 1..Cardinality(K)
<1> DEFINE Upto == {d \in K : C!Position(d) <= C!Position(c)}
<1>1. IsFiniteSet(K)
  BY CombosKnown, FS_Subset
<1>2. IsFiniteSet(Upto) /\ Cardinality(Upto) <= Cardinality(K)
  BY <1>1, FS_Subset
<1>3. c \in Upto
  BY Positions, CombosKnown
<1>4. Cardinality(Upto) \in Nat /\ Cardinality(Upto) # 0 /\ Cardinality(K) \in Nat
  BY <1>1, <1>2, <1>3, FS_CardinalityType, FS_EmptySet, Zenon
<1>5. C!Index(c, K) = Cardinality(Upto)
  BY SameCardinality DEF C!Index
<1> HIDE DEF Upto
<1> QED
  BY <1>2, <1>4, <1>5

LEMMA IndicesDiffer ==
    ASSUME NEW K \in SUBSET AllCombos, NEW c \in K, NEW d \in K, C!Position(c) < C!Position(d)
    PROVE  C!Index(c, K) < C!Index(d, K)
<1> DEFINE Upto(e) == {f \in K : C!Position(f) <= C!Position(e)}
<1>1. IsFiniteSet(K)
  BY CombosKnown, FS_Subset
<1>2. \A e \in K : C!Position(e) \in Nat
  BY Positions, CombosKnown
<1>3. Upto(c) \subseteq Upto(d) /\ d \in Upto(d) /\ d \notin Upto(c)
  BY <1>2
<1>4. IsFiniteSet(Upto(c)) /\ IsFiniteSet(Upto(d))
  BY <1>1, FS_Subset
<1>5. Cardinality(Upto(c)) < Cardinality(Upto(d))
  BY <1>3, <1>4, FS_Subset, FS_CardinalityType
<1> QED
  BY <1>5, SameCardinality DEF C!Index

LEMMA IndicesApart ==
    ASSUME NEW K \in SUBSET AllCombos, NEW c \in K, NEW d \in K, c # d
    PROVE  C!Index(c, K) # C!Index(d, K)
<1>1. /\ C!Position(c) \in Nat /\ C!Position(d) \in Nat
      /\ Combos[C!Position(c)] = c /\ Combos[C!Position(d)] = d
  BY Positions, CombosKnown
<1>2. C!Position(c) < C!Position(d) \/ C!Position(d) < C!Position(c)
  BY <1>1
<1>3. C!Index(c, K) \in Nat /\ C!Index(d, K) \in Nat
  <2>1. Cardinality(K) \in Nat
    BY CombosKnown, FS_Subset, FS_CardinalityType
  <2>2. C!Index(c, K) \in 1..Cardinality(K) /\ C!Index(d, K) \in 1..Cardinality(K)
    BY Indices
  <2> QED
    BY <2>1, <2>2
<1> QED
  BY <1>2, <1>3, IndicesDiffer

LEMMA KnownOnes ==
    ASSUME NEW c
    PROVE  /\ C!Known(c) # None => C!Known(c) \in Slots /\ variant[C!Known(c)].row # "none"
                                   /\ variant[C!Known(c)].combo = c
           /\ C!Known(c) = None => C!With(c) = {}
<1> DEFINE W == C!With(c)
           R == C!With(c) \cap C!Rows(variant)
<1>1. W \in SUBSET Slots /\ R \in SUBSET Slots
  BY DEF C!With
<1>2. W # {} => C!First(W) \in W
  BY <1>1, FirstOf
<1>3. R # {} => C!First(R) \in R
  BY <1>1, FirstOf
<1>4. C!Known(c) = IF W = {} THEN None ELSE IF R # {} THEN C!First(R) ELSE C!First(W)
  BY DEF C!Known
<1>5. \A s \in W : s \in Slots /\ variant[s].row # "none" /\ variant[s].combo = c
  BY DEF C!With
<1> HIDE DEF W
<1>6. R \subseteq W
  BY DEF W
<1>7. None \notin Slots
  BY SlotsOrdered
<1> HIDE DEF R
<1>8. W # {} => C!Known(c) \in W
  BY <1>2, <1>3, <1>4, <1>6
<1>9. W = {} => C!Known(c) = None
  BY <1>4
<1> QED
  BY <1>5, <1>7, <1>8, <1>9 DEF W

LEMMA DefaultOne ==
    C!Default # None => /\ C!Default \in Slots /\ variant[C!Default].row = "live"
                        /\ variant[C!Default].combo = NoCombo
<1> DEFINE X == C!Rows(variant) \cap C!With(NoCombo)
<1>1. X \in SUBSET Slots
  BY DEF C!With
<1>2. X # {} => C!First(X) \in X
  BY <1>1, FirstOf
<1>3. \A s \in X : s \in Slots /\ variant[s].row = "live" /\ variant[s].combo = NoCombo
  BY DEF C!With, C!Rows
<1>4. C!Default = IF X = {} THEN None ELSE C!First(X)
  BY DEF C!Default
<1> HIDE DEF X
<1> QED
  BY <1>2, <1>3, <1>4

Made(K) == C!Cardinality(C!NewOnes(K)) - (IF C!Default = None THEN 0 ELSE 1)

\* A combination's row: its own, an unused one, or the default variant's.
LEMMA PlannedOne ==
    ASSUME NEW K \in SUBSET AllCombos, Made(K) <= Cardinality(Unused), NEW c \in K
    PROVE  /\ C!Known(c) # None => C!Planned(c, K) = C!Known(c)
           /\ C!Known(c) = None =>
                 LET i == C!Index(c, C!NewOnes(K))
                 IN  /\ i \in 1..Cardinality(C!NewOnes(K)) /\ c \in C!NewOnes(K)
                     /\ \/ /\ C!Default = None /\ i \in 1..Cardinality(Unused)
                           /\ C!Planned(c, K) = C!Spare(i)
                        \/ C!Default # None /\ i = 1 /\ C!Planned(c, K) = C!Default
                        \/ /\ C!Default # None /\ i # 1 /\ i - 1 \in 1..Cardinality(Unused)
                           /\ C!Planned(c, K) = C!Spare(i - 1)
<1>1. CASE C!Known(c) # None
  BY <1>1 DEF C!Planned
<1>2. CASE C!Known(c) = None
  <2> DEFINE fresh == C!NewOnes(K)
             i == C!Index(c, fresh)
  <2>1. c \in fresh /\ fresh \in SUBSET AllCombos
    BY <1>2 DEF C!NewOnes
  <2>2. Cardinality(fresh) \in Nat /\ Cardinality(Unused) \in Nat
    <3>1. IsFiniteSet(fresh) /\ IsFiniteSet(Unused)
      BY <2>1, CombosKnown, SlotsOrdered, FS_Subset DEF Unused
    <3> QED
      BY <3>1, FS_CardinalityType
  <2>3. i \in 1..Cardinality(fresh)
    BY <2>1, Indices
  <2>4. Cardinality(fresh) - (IF C!Default = None THEN 0 ELSE 1) <= Cardinality(Unused)
    BY SameCardinality DEF Made
  <2>5. C!Planned(c, K) = IF C!Default = None THEN C!Spare(i)
                          ELSE IF i = 1 THEN C!Default ELSE C!Spare(i - 1)
    BY <1>2 DEF C!Planned
  <2> HIDE DEF i
  <2> HIDE DEF fresh
  <2>6. CASE C!Default = None
    <3>1. i \in 1..Cardinality(Unused) /\ C!Planned(c, K) = C!Spare(i)
      BY <2>2, <2>3, <2>4, <2>5, <2>6
    <3> QED
      BY <1>2, <2>1, <2>3, <2>6, <3>1 DEF i, fresh
  <2>7. CASE C!Default # None /\ i = 1
    BY <1>2, <2>1, <2>3, <2>5, <2>7 DEF i, fresh
  <2>8. CASE C!Default # None /\ i # 1
    <3>1. i - 1 \in 1..Cardinality(Unused) /\ C!Planned(c, K) = C!Spare(i - 1)
      BY <2>2, <2>3, <2>4, <2>5, <2>8
    <3> QED
      BY <1>2, <2>1, <2>3, <2>8, <3>1 DEF i, fresh
  <2> QED
    BY <2>6, <2>7, <2>8
<1> QED
  BY <1>1, <1>2

LEMMA PlannedInSlots ==
    ASSUME NEW K \in SUBSET AllCombos, Made(K) <= Cardinality(Unused), NEW c \in K
    PROVE  /\ C!Planned(c, K) \in Slots
           /\ C!Known(c) # None => /\ variant[C!Planned(c, K)].row # "none"
                                   /\ variant[C!Planned(c, K)].combo = c
           /\ C!Known(c) = None => \/ variant[C!Planned(c, K)].row = "none"
                                   \/ variant[C!Planned(c, K)].combo = NoCombo
<1>1. \A n \in 1..Cardinality(Unused) : C!Spare(n) \in Slots /\ variant[C!Spare(n)].row = "none"
  BY SpareOnes, Zenon DEF Unused
<1> QED
  BY <1>1, PlannedOne, KnownOnes, DefaultOne

LEMMA NewPlannedApart ==
    ASSUME NEW K \in SUBSET AllCombos, Made(K) <= Cardinality(Unused), NEW c \in K, NEW d \in K,
           C!Known(c) = None, C!Known(d) = None, c # d
    PROVE  C!Planned(c, K) # C!Planned(d, K)
<1> DEFINE i == C!Index(c, C!NewOnes(K))
           j == C!Index(d, C!NewOnes(K))
<1>1. /\ c \in C!NewOnes(K) /\ d \in C!NewOnes(K) /\ C!NewOnes(K) \in SUBSET AllCombos
      /\ i \in 1..Cardinality(C!NewOnes(K)) /\ j \in 1..Cardinality(C!NewOnes(K))
  BY PlannedOne DEF C!NewOnes
<1>2. i # j
  BY <1>1, IndicesApart
<1>3. \/ /\ C!Default = None /\ i \in 1..Cardinality(Unused) /\ C!Planned(c, K) = C!Spare(i)
      \/ C!Default # None /\ i = 1 /\ C!Planned(c, K) = C!Default
      \/ /\ C!Default # None /\ i # 1 /\ i - 1 \in 1..Cardinality(Unused)
         /\ C!Planned(c, K) = C!Spare(i - 1)
  BY PlannedOne
<1>4. \/ /\ C!Default = None /\ j \in 1..Cardinality(Unused) /\ C!Planned(d, K) = C!Spare(j)
      \/ C!Default # None /\ j = 1 /\ C!Planned(d, K) = C!Default
      \/ /\ C!Default # None /\ j # 1 /\ j - 1 \in 1..Cardinality(Unused)
         /\ C!Planned(d, K) = C!Spare(j - 1)
  BY PlannedOne
<1>5. i \in Int /\ j \in Int
  <2>1. Cardinality(C!NewOnes(K)) \in Nat
    BY <1>1, CombosKnown, FS_Subset, FS_CardinalityType
  <2> QED
    BY <1>1, <2>1
<1> HIDE DEF i
<1> HIDE DEF j
<1>6. \A n \in 1..Cardinality(Unused) : variant[C!Spare(n)].row = "none"
  BY SpareOnes, Zenon DEF Unused
<1>7. C!Default # None => variant[C!Default].row = "live"
  BY DefaultOne
<1>8. CASE C!Default = None
  <2>1. /\ i \in 1..Cardinality(Unused) /\ C!Planned(c, K) = C!Spare(i)
        /\ j \in 1..Cardinality(Unused) /\ C!Planned(d, K) = C!Spare(j)
    BY <1>3, <1>4, <1>8
  <2> QED
    BY <1>2, <2>1, SparesDiffer
<1>9. CASE C!Default # None /\ i # 1 /\ j # 1
  <2>1. /\ i - 1 \in 1..Cardinality(Unused) /\ C!Planned(c, K) = C!Spare(i - 1)
        /\ j - 1 \in 1..Cardinality(Unused) /\ C!Planned(d, K) = C!Spare(j - 1)
    BY <1>3, <1>4, <1>9
  <2>2. i - 1 # j - 1
    BY <1>2, <1>5
  <2>3. C!Spare(i - 1) # C!Spare(j - 1)
    BY <2>1, <2>2, SparesDiffer
  <2> QED
    BY <2>1, <2>3
<1>10. CASE C!Default # None /\ i = 1
  <2>1. C!Planned(c, K) = C!Default
    BY <1>3, <1>10
  <2>2. j - 1 \in 1..Cardinality(Unused) /\ C!Planned(d, K) = C!Spare(j - 1)
    BY <1>2, <1>4, <1>10
  <2> QED
    BY <1>6, <1>7, <1>10, <2>1, <2>2
<1>11. CASE C!Default # None /\ j = 1
  <2>1. C!Planned(d, K) = C!Default
    BY <1>4, <1>11
  <2>2. i - 1 \in 1..Cardinality(Unused) /\ C!Planned(c, K) = C!Spare(i - 1)
    BY <1>2, <1>3, <1>11
  <2> QED
    BY <1>6, <1>7, <1>11, <2>1, <2>2
<1> QED
  BY <1>8, <1>9, <1>10, <1>11

LEMMA PlannedApart ==
    ASSUME NEW K \in SUBSET AllCombos, Made(K) <= Cardinality(Unused), NEW c \in K, NEW d \in K,
           c # d
    PROVE  C!Planned(c, K) # C!Planned(d, K)
<1>1. c # NoCombo /\ d # NoCombo
  BY CombosKnown
<1>2. CASE C!Known(c) = None /\ C!Known(d) = None
  BY <1>2, NewPlannedApart
<1>3. CASE C!Known(c) # None \/ C!Known(d) # None
  BY <1>1, <1>3, PlannedInSlots
<1> QED
  BY <1>2, <1>3

\* The plan gives each wanted combination a row of its own.
LEMMA PlanOf ==
    ASSUME NEW K \in SUBSET AllCombos, Made(K) <= Cardinality(Unused),
           C!Rows(variant) # {},
           NEW D, D = IF K = {} THEN {NoCombo} ELSE K
    PROVE  \E f \in [D -> Slots] : /\ C!Plan(K) = {<<c, f[c]>> : c \in D}
                                   /\ \A c, d \in D : c # d => f[c] # f[d]
<1>1. CASE K = {}
  <2> DEFINE p == IF C!Default # None THEN C!Default ELSE C!First(C!Rows(variant))
  <2>1. p \in Slots
    <3>1. C!Rows(variant) \in SUBSET Slots
      BY DEF C!Rows
    <3>2. C!First(C!Rows(variant)) \in Slots
      BY <3>1, FirstOf
    <3> QED
      BY <3>2, DefaultOne
  <2>2. C!Plan(K) = {<<NoCombo, p>>}
    BY <1>1 DEF C!Plan
  <2> HIDE DEF p
  <2> DEFINE f == [c \in D |-> p]
  <2>3. f \in [D -> Slots] /\ f[NoCombo] = p /\ D = {NoCombo}
    BY <1>1, <2>1
  <2> HIDE DEF f
  <2>4. C!Plan(K) = {<<c, f[c]>> : c \in D}
    BY <2>2, <2>3
  <2> QED
    BY <2>3, <2>4
<1>2. CASE K # {}
  <2> DEFINE f == [c \in K |-> C!Planned(c, K)]
  <2>1. f \in [K -> Slots]
    BY PlannedInSlots
  <2>2. \A c \in K : f[c] = C!Planned(c, K)
    OBVIOUS
  <2> HIDE DEF f
  <2>3. C!Plan(K) = {<<c, C!Planned(c, K)>> : c \in K}
    BY <1>2 DEF C!Plan
  <2>4. \A c, d \in K : c # d => f[c] # f[d]
    BY <2>2, PlannedApart
  <2>5. C!Plan(K) = {<<c, f[c]>> : c \in K}
    BY <2>2, <2>3
  <2> QED
    BY <1>2, <2>1, <2>4, <2>5
<1> QED
  BY <1>1, <1>2

\* In v, the row s has the combination c, and is sold if it was or is new.
Placed(v, s, c) ==
    /\ v[s].row = "live" /\ v[s].combo = c
    /\ variant[s].row # "live" \/ variant[s].status \in C!LIVE_VARIANT => v[s].status \in C!LIVE_VARIANT

\* f gives each of the combinations D a row of its own, as planned for K.
PlanIs(K, D, f) ==
    /\ C!Plan(K) = {<<c, f[c]>> : c \in D}
    /\ \A c, d \in D : c # d => f[c] # f[d]

\* The rows after a plan f of the combinations D.
LEMMA OptionsRows ==
    ASSUME CatalogInv, C!Lots(variant) = {}, NEW D \in SUBSET ({NoCombo} \cup AllCombos),
           NEW K \in SUBSET AllCombos, NEW f \in [D -> Slots],
           PlanIs(K, D, f), C!SetOptions(K)
    PROVE  /\ variant' \in Shelves
           /\ \A c \in D : Placed(variant', f[c], c)
           /\ \A s \in Slots : ~variant'[s].lot
           /\ \A s \in Slots : (\A c \in D : s # f[c]) => variant'[s].row # "live"
<1> USE DEF PlanIs
<1>1. variant \in Shelves /\ \A s \in Slots : variant[s] \in VariantRows
  BY DEF CatalogInv, Shelves
<1>2. C!Kept(K) = {f[c] : c \in D}
  <2>1. ASSUME NEW s \in C!Kept(K)
        PROVE  s \in {f[c] : c \in D}
    <3>1. PICK p \in C!Plan(K) : s = p[2]
      BY <2>1 DEF C!Kept
    <3>2. PICK c \in D : p = <<c, f[c]>>
      OBVIOUS
    <3> QED
      BY <3>1, <3>2
  <2>2. ASSUME NEW c \in D
        PROVE  f[c] \in C!Kept(K)
    <3>1. <<c, f[c]>> \in C!Plan(K) /\ <<c, f[c]>>[2] = f[c]
      OBVIOUS
    <3> QED
      BY <3>1, Zenon DEF C!Kept
  <2> QED
    BY <2>1, <2>2
<1>3. ASSUME NEW c \in D
      PROVE  (CHOOSE p \in C!Plan(K) : p[2] = f[c])[1] = c
  <2>1. <<c, f[c]>> \in C!Plan(K) /\ <<c, f[c]>>[2] = f[c]
    OBVIOUS
  <2>2. PICK p \in C!Plan(K) : p[2] = f[c] /\ p = (CHOOSE q \in C!Plan(K) : q[2] = f[c])
    BY <2>1, Zenon
  <2>3. PICK d \in D : p = <<d, f[d]>>
    OBVIOUS
  <2>4. d = c
    <3>1. p[2] = f[c]
      BY <2>2
    <3>2. p[2] = f[d]
      BY <2>3
    <3> QED
      BY <3>1, <3>2, Zenon
  <2> QED
    BY <2>2, <2>3, <2>4
<1>4. variant' = [s \in Slots |->
               IF s \in C!Kept(K)
               THEN C!Row(IF variant[s].row = "live" THEN variant[s].status ELSE "active",
                          (CHOOSE p \in C!Plan(K) : p[2] = s)[1], FALSE)
               ELSE IF s \in C!Rows(variant)
                    THEN [variant[s] EXCEPT !.row = "archived", !.status = "inactive"]
                    ELSE variant[s]]
  BY DEF C!SetOptions
<1>5. ASSUME NEW c \in D
      PROVE  variant'[f[c]] = C!Row(IF variant[f[c]].row = "live"
                                    THEN variant[f[c]].status ELSE "active", c, FALSE)
  BY <1>2, <1>3, <1>4
<1>6. ASSUME NEW s \in Slots, \A c \in D : s # f[c]
      PROVE  variant'[s] \in VariantRows /\ variant'[s].row # "live"
             /\ variant'[s].lot = variant[s].lot
  <2>1. s \notin C!Kept(K)
    BY <1>2, <1>6
  <2>2. CASE s \in C!Rows(variant)
    <3>1. variant'[s] = [variant[s] EXCEPT !.row = "archived", !.status = "inactive"]
      BY <1>4, <2>1, <2>2
    <3>2. PICK v \in VariantRows : v = variant[s]
      BY <1>1
    <3>3. variant'[s] = [v EXCEPT !.row = "archived", !.status = "inactive"]
      BY <3>1, <3>2
    <3> QED
      BY <3>2, <3>3, Zenon DEF VariantRows
  <2>3. CASE s \notin C!Rows(variant)
    <3>1. variant'[s] = variant[s] /\ variant[s].row # "live"
      BY <1>4, <2>1, <2>3 DEF C!Rows
    <3> QED
      BY <1>1, <3>1 DEF Shelves
  <2> QED
    BY <2>2, <2>3
<1>7. ASSUME NEW s \in Slots
      PROVE  variant'[s] \in VariantRows /\ ~variant'[s].lot
  <2>1. CASE \E c \in D : s = f[c]
    <3>1. PICK c \in D : s = f[c]
      BY <2>1
    <3>2. variant[s].status \in {"active", "paused", "inactive"}
      BY <1>1 DEF VariantRows
    <3>3. PICK status \in {"active", "paused", "inactive"} : variant'[s] = C!Row(status, c, FALSE)
      BY <1>5, <3>1, <3>2, Zenon
    <3>4. c \in {NoCombo} \cup AllCombos
      OBVIOUS
    <3> QED
      BY <3>3, <3>4 DEF C!Row, VariantRows
  <2>2. CASE \A c \in D : s # f[c]
    <3>1. ~variant[s].lot
      BY DEF C!Lots
    <3> QED
      BY <1>6, <2>2, <3>1
  <2> QED
    BY <2>1, <2>2
<1>8. variant' \in Shelves
  BY <1>4, <1>7 DEF Shelves
<1>9. ASSUME NEW c \in D
      PROVE  Placed(variant', f[c], c)
  <2> DEFINE status == IF variant[f[c]].row = "live" THEN variant[f[c]].status ELSE "active"
  <2>1. variant'[f[c]] = C!Row(status, c, FALSE)
    BY <1>5, Zenon
  <2>2. \/ variant[f[c]].row = "live" /\ status = variant[f[c]].status
        \/ variant[f[c]].row # "live" /\ status = "active"
    OBVIOUS
  <2> HIDE DEF status
  <2>3. variant'[f[c]].row = "live" /\ variant'[f[c]].combo = c /\ variant'[f[c]].status = status
    BY <2>1 DEF C!Row
  <2> QED
    BY <2>2, <2>3 DEF Placed, C!LIVE_VARIANT
<1> QED
  BY <1>6, <1>7, <1>8, <1>9

\* A published product keeps a variant that is sold.
LEMMA OptionsSold ==
    ASSUME NEW D \in SUBSET ({NoCombo} \cup AllCombos),
           NEW K \in SUBSET AllCombos, NEW f \in [D -> Slots],
           PlanIs(K, D, f), C!StaysOnSale(K), NEW v,
           \A c \in D : Placed(v, f[c], c)
    PROVE  C!Sold(v) # {}
<1> USE DEF PlanIs
<1>1. PICK p \in C!Plan(K) : variant[p[2]].row # "live" \/ variant[p[2]].status \in C!LIVE_VARIANT
  BY DEF C!StaysOnSale
<1>2. PICK c \in D : p = <<c, f[c]>>
  OBVIOUS
<1>3. v[f[c]].row = "live" /\ v[f[c]].status \in C!LIVE_VARIANT
  BY <1>1, <1>2 DEF Placed
<1> QED
  BY <1>3 DEF C!Sold, C!Rows

LEMMA CatalogOptions ==
    ASSUME CatalogInv, NEW K \in SUBSET AllCombos, C!SetOptions(K)
    PROVE  CatalogInv'
<1>1. /\ UNCHANGED <<product, images>> /\ options' = K /\ product.status # "none"
      /\ product.kind # "ticket" /\ (C!IsPublished => C!StaysOnSale(K))
  BY DEF C!SetOptions, C!Editable
<1>2. ~product.event /\ Exact(variant, options)
  BY <1>1 DEF CatalogInv
<1>3. Made(K) <= Cardinality(Unused)
  <2>1. Made(K) <= C!Cardinality({s \in Slots : variant[s].row = "none"})
    BY DEF C!SetOptions, Made
  <2> QED
    BY <2>1, SameCardinality DEF Unused
<1>4. C!Rows(variant) # {}
  BY <1>2 DEF Exact
<1> DEFINE D == IF K = {} THEN {NoCombo} ELSE K
<1>5. D \in SUBSET ({NoCombo} \cup AllCombos)
  OBVIOUS
<1>6. PICK f \in [D -> Slots] : PlanIs(K, D, f)
  BY <1>3, <1>4, PlanOf DEF PlanIs
<1> HIDE DEF D
<1>7. C!Lots(variant) = {}
  BY <1>2 DEF Exact
<1>8. /\ variant' \in Shelves
      /\ \A c \in D : Placed(variant', f[c], c)
      /\ \A s \in Slots : ~variant'[s].lot
      /\ \A s \in Slots : (\A c \in D : s # f[c]) => variant'[s].row # "live"
  BY <1>5, <1>6, <1>7, OptionsRows, Zenon
<1>9. \A c \in D : variant'[f[c]].row = "live" /\ variant'[f[c]].combo = c
  BY <1>8 DEF Placed
<1>10. C!Rows(variant') = {f[c] : c \in D} /\ \A c, d \in D : c # d => f[c] # f[d]
  BY <1>6, <1>8, <1>9 DEF C!Rows, PlanIs
<1>11. C!Lots(variant') = {}
  BY <1>8 DEF C!Lots
<1>12. Exact(variant', K)
  <2>1. {variant'[s].combo : s \in C!Rows(variant')} = D
    BY <1>9, <1>10
  <2>2. \A s, t \in C!Rows(variant') : s # t => variant'[s].combo # variant'[t].combo
    BY <1>9, <1>10
  <2> QED
    BY <1>11, <2>1, <2>2 DEF Exact, D
<1>13. C!IsPublished => C!Sold(variant') # {}
  BY <1>1, <1>5, <1>6, <1>8, OptionsSold
<1>14. C!IsPublished' = C!IsPublished
  BY <1>1 DEF C!IsPublished
<1> QED
  BY <1>1, <1>2, <1>8, <1>11, <1>12, <1>13, <1>14 DEF CatalogInv

\* A lot's row.
LEMMA CatalogLots ==
    ASSUME CatalogInv, C!AddLot
    PROVE  CatalogInv'
<1> DEFINE taken == C!Lots(variant)
           r == IF taken = {} /\ C!Rows(variant) # {} THEN C!First(C!Rows(variant)) ELSE C!Spare(1)
<1>1. /\ UNCHANGED <<product, options, images>> /\ product.status # "none" /\ product.event
      /\ Unused # {} /\ variant' = [variant EXCEPT ![r] = C!Row("active", NoCombo, TRUE)]
  BY DEF C!AddLot, C!IsTicket, C!Editable, Unused
<1>2. variant \in Shelves /\ OfEvent(variant) /\ C!Lots(variant) \subseteq C!Rows(variant)
  BY <1>1 DEF CatalogInv
<1>3. C!Spare(1) \in Unused
  <2>1. IsFiniteSet(Unused)
    BY SlotsOrdered, FS_Subset DEF Unused
  <2>2. 1 \in 1..Cardinality(Unused)
    BY <1>1, <2>1, FS_CardinalityType, FS_EmptySet
  <2> QED
    BY <2>2, SpareOnes, Zenon
<1>4. C!Rows(variant) # {} => C!First(C!Rows(variant)) \in C!Rows(variant)
  <2>1. C!Rows(variant) \in SUBSET Slots
    BY DEF C!Rows
  <2> QED
    BY <2>1, FirstOf
<1>5. r \in Slots /\ (taken = {} => \A s \in C!Rows(variant) : s = r)
  BY <1>2, <1>3, <1>4 DEF OfEvent, C!Rows, Unused
<1> HIDE DEF r
<1>6. C!Row("active", NoCombo, TRUE) \in VariantRows
  BY DEF C!Row, VariantRows
<1>7. /\ variant' \in Shelves /\ variant'[r] = C!Row("active", NoCombo, TRUE)
      /\ \A s \in Slots \ {r} : variant'[s] = variant[s]
  BY <1>1, <1>2, <1>5, <1>6, Zenon DEF Shelves
<1>8. variant'[r].row = "live" /\ variant'[r].lot /\ variant'[r].combo = NoCombo
      /\ variant'[r].status = "active"
  BY <1>7 DEF C!Row
<1>9. C!Rows(variant') = C!Rows(variant) \cup {r} /\ C!Lots(variant') = taken \cup {r}
  BY <1>5, <1>7, <1>8, Zenon DEF C!Rows, C!Lots
<1>10. OfEvent(variant')
  <2>1. \A s \in C!Rows(variant') : variant'[s].combo = NoCombo
    BY <1>2, <1>7, <1>8, <1>9 DEF OfEvent, C!Rows
  <2>2. C!Rows(variant') \subseteq C!Lots(variant')
    BY <1>2, <1>5, <1>9 DEF OfEvent
  <2> QED
    BY <2>1, <2>2 DEF OfEvent
<1>11. C!IsPublished' = C!IsPublished
  BY <1>1 DEF C!IsPublished
<1> QED
  BY <1>1, <1>2, <1>7, <1>9, <1>10, <1>11, Zenon DEF CatalogInv

LEMMA CatalogDrops ==
    ASSUME CatalogInv, NEW s \in Slots, C!RemoveLot(s)
    PROVE  CatalogInv'
<1>1. /\ UNCHANGED <<product, options, images>> /\ product.status # "none" /\ s \in C!Lots(variant)
      /\ variant' = [variant EXCEPT ![s].row = "archived", ![s].status = "inactive", ![s].lot = FALSE]
  BY DEF C!RemoveLot, C!IsTicket, C!Editable
<1>2. variant \in Shelves /\ C!Lots(variant) \subseteq C!Rows(variant)
  BY DEF CatalogInv
<1>3. product.event
  BY <1>1 DEF CatalogInv, Exact
<1>4. OfEvent(variant)
  BY <1>3 DEF CatalogInv
<1>5. /\ variant'[s].row = "archived" /\ variant'[s].status = "inactive" /\ ~variant'[s].lot
      /\ variant'[s].combo = variant[s].combo /\ variant'[s] \in VariantRows
      /\ \A t \in Slots \ {s} : variant'[t] = variant[t]
  BY <1>1, <1>2 DEF Shelves, VariantRows
<1>6. variant' \in Shelves
  BY <1>1, <1>2, <1>5 DEF Shelves
<1>7. C!Rows(variant') = C!Rows(variant) \ {s} /\ C!Lots(variant') = C!Lots(variant) \ {s}
  BY <1>5 DEF C!Rows, C!Lots
<1>8. OfEvent(variant')
  BY <1>1, <1>4, <1>5, <1>7, Zenon DEF OfEvent, C!Rows
<1>9. C!IsPublished' = C!IsPublished
  BY <1>1 DEF C!IsPublished
<1> QED
  BY <1>1, <1>2, <1>3, <1>6, <1>7, <1>8, <1>9, Zenon DEF CatalogInv

LEMMA CatalogStutter == CatalogInv /\ UNCHANGED catalogOnly => CatalogInv'
BY DEF CatalogInv, catalogOnly, C!IsPublished

LEMMA CatalogStep == CatalogInv /\ C!CatalogNext => CatalogInv'
<1> SUFFICES ASSUME CatalogInv, C!CatalogNext
             PROVE  CatalogInv'
  OBVIOUS
<1>1. CASE \E kind \in {"goods", "ticket"}, cost \in 0..1 : C!Create(kind, cost) \/ C!Update(kind, cost)
  BY <1>1, CatalogCreates, CatalogUpdates
<1>2. CASE C!Publish \/ C!Unpublish \/ C!PauseProduct \/ C!ResumeProduct \/ C!Archive
  BY <1>2, CatalogPublishes, CatalogBecomes
<1>3. CASE \E s \in Slots : \/ \E status \in {"active", "inactive"} : C!UpdateVariant(s, status)
                            \/ C!PauseVariant(s) \/ C!RemoveLot(s)
  BY <1>3, CatalogSwitches, CatalogDrops
<1>4. CASE \E K \in SUBSET {Combos[i] : i \in 1..Len(Combos)} : C!SetOptions(K)
  BY <1>4, CatalogOptions DEF AllCombos
<1>5. CASE C!PutEvent \/ C!AddLot
  BY <1>5, CatalogEvent, CatalogLots
<1>6. CASE C!Upload \/ (\E ok \in BOOLEAN : C!Rendered(ok)) \/ C!DeleteImage
  BY <1>6, CatalogPictures
<1> QED
  BY <1>1, <1>2, <1>3, <1>4, <1>5, <1>6 DEF C!CatalogNext

LEMMA CatalogSells == CatalogInv => C!PublishedIsSellable /\ C!MatrixIsExact
<1> SUFFICES ASSUME CatalogInv
             PROVE  C!PublishedIsSellable /\ C!MatrixIsExact
  OBVIOUS
<1>1. C!PublishedIsSellable
  BY DEF CatalogInv, C!PublishedIsSellable
<1>2. product.kind # "ticket" /\ C!Editable => Exact(variant, options)
  BY DEF CatalogInv, C!Editable
<1>3. ASSUME NEW s \in C!Rows(variant), NEW t \in C!Rows(variant), s # t
      PROVE  \/ variant[s].combo # variant[t].combo
             \/ variant[s].combo = NoCombo /\ C!Lots(variant) # {}
  <2>1. CASE product.status = "none"
    BY <1>3, <2>1 DEF CatalogInv, C!Rows, C!NoRow
  <2>2. CASE product.status # "none" /\ ~product.event
    BY <1>3, <2>2 DEF CatalogInv, Exact
  <2>3. CASE product.event
    <3>1. OfEvent(variant)
      BY <2>3 DEF CatalogInv
    <3> QED
      BY <1>3, <3>1 DEF OfEvent
  <2> QED
    BY <2>1, <2>2, <2>3 DEF CatalogInv, ProductRows
<1> QED
  BY <1>1, <1>2, <1>3 DEF C!MatrixIsExact, Exact

-----------------------------------------------------------------------------
(* The proposals of the landing page *)

DraftStatus == {"none", "queued", "running", "ready", "failed", "applied", "superseded", "reverted",
                "discarded", "deleted"}
Pages == [page : 0..MaxDrafts, edited : BOOLEAN]
DraftRows == [status : DraftStatus, shown : BOOLEAN, before : Pages, live : SUBSET L!Drafts]
OnlyOne(X) == \A x, y \in X : x = y
ChargedIn(r) == {d \in L!Drafts : r[d].status \in {"queued", "running"} \/ r[d].shown}

LandingTypes ==
    /\ draft \in [L!Drafts -> DraftRows] /\ used \in Nat /\ slow \in Nat
    /\ writer \in [Workers -> {0} \cup L!Drafts] /\ site \in Pages
\* A proposal that was shown is not on its way, and each one charged was paid for once.
ChargedOnce ==
    /\ \A d \in L!Drafts : draft[d].shown => draft[d].status \notin {"none", "queued", "running"}
    /\ used <= Cardinality(ChargedIn(draft))
    /\ slow = 0 => used = Cardinality(ChargedIn(draft))
\* Without a fault a worker is alone at its proposal, which waits for it.
AloneAtWork ==
    slow = 0 => \A w \in Workers : writer[w] # 0 =>
        /\ draft[writer[w]].status = "running"
        /\ \A v \in Workers : writer[v] = writer[w] => v = w
\* The page on air is that of the proposal that is, and so was the one a publication replaced.
PageIsIts ==
    /\ OnlyOne(L!Live) /\ \A d \in L!Live : site.page = d \/ site.edited
    /\ \A d \in L!Drafts : /\ OnlyOne(draft[d].live)
                           /\ \A e \in draft[d].live :
                                 draft[d].before.page = e \/ draft[d].before.edited
LandingInv == LandingTypes /\ ChargedOnce /\ AloneAtWork /\ PageIsIts

LEMMA DraftsCounted == L!Drafts \in SUBSET Nat /\ 0 \notin L!Drafts /\ IsFiniteSet(L!Drafts)
                       /\ MaxDrafts \in Nat /\ \A d \in L!Drafts : d \in 0..MaxDrafts
<1>1. MaxDrafts \in Nat /\ L!Drafts = 1..MaxDrafts
  BY BackOfficeAssumption DEF L!Drafts
<1>2. IsFiniteSet(1..MaxDrafts)
  BY <1>1, FS_Interval
<1> QED
  BY <1>1, <1>2

LEMMA ChargedCounted ==
    \A r : IsFiniteSet(ChargedIn(r)) /\ Cardinality(ChargedIn(r)) \in Nat
<1> SUFFICES ASSUME NEW r
             PROVE  IsFiniteSet(ChargedIn(r)) /\ Cardinality(ChargedIn(r)) \in Nat
  OBVIOUS
<1>1. ChargedIn(r) \subseteq L!Drafts
  BY DEF ChargedIn
<1> QED
  BY <1>1, DraftsCounted, FS_Subset, FS_CardinalityType

LEMMA LandingStart == L!LandingInit => LandingInv
<1> SUFFICES ASSUME L!LandingInit
             PROVE  LandingInv
  OBVIOUS
<1> DEFINE k == [status |-> "none", shown |-> FALSE, before |-> L!HandMade, live |-> {}]
<1>1. k \in DraftRows /\ k.status = "none" /\ ~k.shown /\ k.live = {} /\ L!HandMade \in Pages
  BY DraftsCounted DEF DraftRows, DraftStatus, Pages, L!HandMade
<1>2. draft = [d \in L!Drafts |-> k]
  BY DEF L!LandingInit
<1> HIDE DEF k
<1>3. draft \in [L!Drafts -> DraftRows] /\ \A d \in L!Drafts : draft[d] = k
  BY <1>1, <1>2
<1>4. used = 0 /\ slow = 0 /\ site = L!HandMade
  BY DEF L!LandingInit
<1>5. writer = [w \in Workers |-> 0]
  BY DEF L!LandingInit
<1>6. writer \in [Workers -> {0} \cup L!Drafts] /\ \A w \in Workers : writer[w] = 0
  BY <1>5
<1>7. ChargedIn(draft) = {} /\ L!Live = {}
  BY <1>1, <1>3 DEF ChargedIn, L!Live
<1>8. Cardinality(ChargedIn(draft)) = 0
  BY <1>7, FS_EmptySet
<1>9. LandingTypes
  BY <1>1, <1>3, <1>4, <1>6 DEF LandingTypes
<1>10. ChargedOnce
  BY <1>1, <1>3, <1>4, <1>8 DEF ChargedOnce
<1>11. AloneAtWork
  BY <1>6 DEF AloneAtWork
<1>12. PageIsIts
  BY <1>1, <1>3, <1>7 DEF PageIsIts, OnlyOne
<1> QED
  BY <1>9, <1>10, <1>11, <1>12 DEF LandingInv

\* What a change of one proposal's status changes.
LEMMA OneStatus ==
    ASSUME LandingTypes, NEW d \in L!Drafts, NEW status \in DraftStatus,
           draft' = [draft EXCEPT ![d].status = status]
    PROVE  /\ draft' \in [L!Drafts -> DraftRows] /\ draft'[d].status = status
           /\ \A e \in L!Drafts : /\ e # d => draft'[e] = draft[e]
                                  /\ draft'[e].shown = draft[e].shown
                                  /\ draft'[e].before = draft[e].before
                                  /\ draft'[e].live = draft[e].live
<1> DEFINE row == [draft[d] EXCEPT !.status = status]
<1>1. draft[d] \in DraftRows
  BY DEF LandingTypes
<1>2. /\ row \in DraftRows /\ row.status = status /\ row.shown = draft[d].shown
      /\ row.before = draft[d].before /\ row.live = draft[d].live
  BY <1>1 DEF DraftRows
<1>3. draft' = [draft EXCEPT ![d] = row]
  BY <1>1 DEF DraftRows
<1> HIDE DEF row
<1>4. draft' \in [L!Drafts -> DraftRows] /\ draft'[d] = row
      /\ \A e \in L!Drafts : e # d => draft'[e] = draft[e]
  BY <1>2, <1>3 DEF LandingTypes
<1> QED
  BY <1>2, <1>4

\* The page stays whose it is, when none is published.
LEMMA PageStays ==
    ASSUME PageIsIts, UNCHANGED site, L!Live' \subseteq L!Live,
           \A e \in L!Drafts : draft'[e].before = draft[e].before /\ draft'[e].live = draft[e].live
    PROVE  PageIsIts'
BY DEF PageIsIts, OnlyOne

LEMMA LandingReserves ==
    ASSUME LandingInv, NEW c \in Askers, NEW d \in L!Drafts, L!Reserves(c, d)
    PROVE  LandingInv'
<1>1. UNCHANGED <<writer, site, slow>>
  BY DEF L!Reserves
<1>2. CASE L!HasQuota
  <2>1. /\ used' = used + 1 /\ draft' = [draft EXCEPT ![d].status = "queued"]
        /\ draft[d].status = "none"
    BY <1>2 DEF L!Reserves, L!New
  <2>2. /\ draft' \in [L!Drafts -> DraftRows] /\ draft'[d].status = "queued"
        /\ \A e \in L!Drafts : /\ e # d => draft'[e] = draft[e]
                               /\ draft'[e].shown = draft[e].shown
                               /\ draft'[e].before = draft[e].before
                               /\ draft'[e].live = draft[e].live
    BY <2>1, OneStatus, Zenon DEF LandingInv, DraftStatus
  <2>3. ~draft[d].shown
    BY <2>1 DEF LandingInv, ChargedOnce
  <2>4. ChargedIn(draft') = ChargedIn(draft) \cup {d} /\ d \notin ChargedIn(draft)
    BY <2>1, <2>2, <2>3 DEF ChargedIn
  <2>5. Cardinality(ChargedIn(draft')) = Cardinality(ChargedIn(draft)) + 1
    BY <2>4, ChargedCounted, FS_AddElement, Zenon
  <2>6. LandingTypes'
    BY <1>1, <2>1, <2>2 DEF LandingInv, LandingTypes
  <2>7. ChargedOnce'
    BY <1>1, <2>1, <2>2, <2>3, <2>5, ChargedCounted DEF LandingInv, LandingTypes, ChargedOnce
  <2>8. AloneAtWork'
    BY <1>1, <2>1, <2>2 DEF LandingInv, AloneAtWork, LandingTypes
  <2>9. PageIsIts'
    <3>1. L!Live' \subseteq L!Live
      BY <2>2 DEF L!Live
    <3> QED
      BY <1>1, <2>2, <3>1, PageStays DEF LandingInv
  <2> QED
    BY <2>6, <2>7, <2>8, <2>9 DEF LandingInv
<1>3. CASE ~L!HasQuota
  BY <1>1, <1>3 DEF L!Reserves, LandingInv, LandingTypes, ChargedOnce, AloneAtWork, PageIsIts, L!Live
<1> QED
  BY <1>2, <1>3

LEMMA LandingClaims ==
    ASSUME LandingInv, NEW w \in Workers, NEW d \in L!Drafts, L!Claims(w, d)
    PROVE  LandingInv'
<1>1. UNCHANGED <<used, asked, site>> /\ slow' \in Nat /\ (slow' = 0 => slow = 0) /\ writer[w] = 0
  BY DEF L!Claims, L!Spend, LandingInv, LandingTypes
<1>2. CASE draft[d].status = "queued"
  <2>1. /\ draft' = [draft EXCEPT ![d].status = "running"]
        /\ writer' = [writer EXCEPT ![w] = d]
    BY <1>2 DEF L!Claims
  <2>2. /\ draft' \in [L!Drafts -> DraftRows] /\ draft'[d].status = "running"
        /\ \A e \in L!Drafts : /\ e # d => draft'[e] = draft[e]
                               /\ draft'[e].shown = draft[e].shown
                               /\ draft'[e].before = draft[e].before
                               /\ draft'[e].live = draft[e].live
    BY <2>1, OneStatus, Zenon DEF LandingInv, DraftStatus
  <2>3. ~draft[d].shown
    BY <1>2 DEF LandingInv, ChargedOnce
  <2>4. ChargedIn(draft') = ChargedIn(draft)
    BY <1>2, <2>2 DEF ChargedIn
  <2>5. /\ writer' \in [Workers -> {0} \cup L!Drafts] /\ writer'[w] = d
        /\ \A v \in Workers \ {w} : writer'[v] = writer[v]
    BY <2>1 DEF LandingInv, LandingTypes
  <2>6. LandingTypes'
    BY <1>1, <2>2, <2>5 DEF LandingInv, LandingTypes
  <2>7. ChargedOnce'
    BY <1>1, <2>2, <2>3, <2>4 DEF LandingInv, ChargedOnce
  <2>8. AloneAtWork'
    <3>1. slow = 0 => \A v \in Workers : writer[v] # d
      BY <1>2, DraftsCounted DEF LandingInv, AloneAtWork
    <3> QED
      BY <1>1, <2>2, <2>5, <3>1 DEF LandingInv, AloneAtWork, LandingTypes
  <2>9. PageIsIts'
    <3>1. L!Live' \subseteq L!Live
      BY <2>2 DEF L!Live
    <3> QED
      BY <1>1, <2>2, <3>1, PageStays DEF LandingInv
  <2> QED
    BY <2>6, <2>7, <2>8, <2>9 DEF LandingInv
<1>3. CASE draft[d].status # "queued"
  <2>1. UNCHANGED <<draft, writer>>
    BY <1>3 DEF L!Claims
  <2> QED
    BY <1>1, <2>1 DEF LandingInv, LandingTypes, ChargedOnce, AloneAtWork, PageIsIts, L!Live
<1> QED
  BY <1>2, <1>3

LEMMA LandingClaimsToo ==
    ASSUME LandingInv, NEW w \in Workers, NEW v \in Workers, L!ClaimsToo(w, v)
    PROVE  LandingInv'
<1>1. /\ UNCHANGED <<draft, used, site>> /\ slow' = slow + 1 /\ slow \in Nat
      /\ writer' = [writer EXCEPT ![w] = writer[v]]
  BY DEF L!ClaimsToo, L!Spend, LandingInv, LandingTypes
<1>2. LandingTypes'
  BY <1>1 DEF LandingInv, LandingTypes
<1>3. slow' # 0
  BY <1>1
<1> QED
  BY <1>1, <1>2, <1>3
     DEF LandingInv, LandingTypes, ChargedOnce, AloneAtWork, PageIsIts, L!Live

LEMMA PrunedKeeps ==
    ASSUME NEW r \in [L!Drafts -> DraftRows]
    PROVE  /\ L!Pruned(r) \in [L!Drafts -> DraftRows]
           /\ \A d \in L!Drafts :
                 /\ L!Pruned(r)[d].shown = r[d].shown
                 /\ L!Pruned(r)[d].before = r[d].before
                 /\ L!Pruned(r)[d].live = r[d].live
                 /\ \/ L!Pruned(r)[d].status = r[d].status
                    \/ /\ L!Pruned(r)[d].status = "deleted"
                       /\ r[d].status \notin {"none", "queued", "running"}
<1> DEFINE row(d) == IF r[d].status \in {"none", "queued", "running"} \/ d \in L!Spared(r)
                     THEN r[d] ELSE [r[d] EXCEPT !.status = "deleted"]
<1>1. L!Pruned(r) = [d \in L!Drafts |-> row(d)]
  BY DEF L!Pruned
<1>2. ASSUME NEW d \in L!Drafts
      PROVE  /\ row(d) \in DraftRows /\ row(d).shown = r[d].shown /\ row(d).before = r[d].before
             /\ row(d).live = r[d].live
             /\ \/ row(d).status = r[d].status
                \/ row(d).status = "deleted" /\ r[d].status \notin {"none", "queued", "running"}
  <2>1. PICK k \in DraftRows : k = r[d]
    OBVIOUS
  <2>2. CASE r[d].status \in {"none", "queued", "running"} \/ d \in L!Spared(r)
    BY <2>1, <2>2
  <2>3. CASE ~(r[d].status \in {"none", "queued", "running"} \/ d \in L!Spared(r))
    <3>1. row(d) = [k EXCEPT !.status = "deleted"]
      BY <2>1, <2>3
    <3>2. /\ row(d) \in DraftRows /\ row(d).shown = k.shown /\ row(d).before = k.before
          /\ row(d).live = k.live /\ row(d).status = "deleted"
      BY <3>1 DEF DraftRows, DraftStatus
    <3> QED
      BY <2>1, <2>3, <3>2
  <2> QED
    BY <2>2, <2>3
<1> HIDE DEF row
<1>3. L!Pruned(r) \in [L!Drafts -> DraftRows] /\ \A d \in L!Drafts : L!Pruned(r)[d] = row(d)
  BY <1>1, <1>2
<1> QED
  BY <1>2, <1>3

\* A worker that leaves its proposal leaves the others alone at theirs.
LEMMA WorkerLeaves ==
    ASSUME LandingInv, NEW w \in Workers, writer' = [writer EXCEPT ![w] = 0], UNCHANGED slow,
           \A e \in L!Drafts : e # writer[w] /\ draft[e].status = "running"
                                  => draft'[e].status = "running"
    PROVE  writer' \in [Workers -> {0} \cup L!Drafts] /\ AloneAtWork'
<1>1. /\ writer' \in [Workers -> {0} \cup L!Drafts] /\ writer'[w] = 0
      /\ \A v \in Workers \ {w} : writer'[v] = writer[v]
  BY DEF LandingInv, LandingTypes
<1>2. ASSUME slow = 0, NEW v \in Workers, writer'[v] # 0
      PROVE  /\ draft'[writer'[v]].status = "running"
             /\ \A u \in Workers : writer'[u] = writer'[v] => u = v
  <2>1. v # w /\ writer'[v] = writer[v] /\ writer[v] \in L!Drafts
    BY <1>1, <1>2
  <2>2. /\ draft[writer[v]].status = "running"
        /\ \A u \in Workers : writer[u] = writer[v] => u = v
    BY <1>2, <2>1 DEF LandingInv, AloneAtWork
  <2>3. writer[v] # writer[w]
    BY <2>1, <2>2
  <2>4. draft'[writer[v]].status = "running"
    BY <2>1, <2>2, <2>3
  <2>5. ASSUME NEW u \in Workers, writer'[u] = writer'[v]
        PROVE  u = v
    <3>1. writer[u] = writer[v]
      BY <1>1, <1>2, <2>1, <2>5
    <3> QED
      BY <2>2, <3>1
  <2> QED
    BY <2>1, <2>4, <2>5
<1>3. AloneAtWork'
  BY <1>2 DEF AloneAtWork
<1> QED
  BY <1>1, <1>3

LEMMA LandingWrites ==
    ASSUME LandingInv, NEW w \in Workers, L!Writes(w)
    PROVE  LandingInv'
<1> DEFINE d == writer[w]
<1>1. /\ d \in L!Drafts /\ d # 0 /\ writer' = [writer EXCEPT ![w] = 0] /\ UNCHANGED <<used, site, slow>>
      /\ draft' = IF draft[d].status = "deleted" THEN draft
                  ELSE L!Pruned([draft EXCEPT ![d].status = "ready", ![d].shown = TRUE])
  BY DEF L!Writes, LandingInv, LandingTypes
<1> HIDE DEF d
<1>2. CASE draft[d].status = "deleted"
  <2>1. UNCHANGED draft
    BY <1>1, <1>2
  <2>2. writer' \in [Workers -> {0} \cup L!Drafts] /\ AloneAtWork'
    BY <1>1, <2>1, WorkerLeaves, Zenon
  <2> QED
    BY <1>1, <2>1, <2>2, Zenon DEF LandingInv, LandingTypes, ChargedOnce, PageIsIts, L!Live
<1>3. CASE draft[d].status # "deleted"
  <2> DEFINE r == [draft EXCEPT ![d].status = "ready", ![d].shown = TRUE]
  <2>1. draft' = L!Pruned(r)
    BY <1>1, <1>3
  <2>2. /\ r \in [L!Drafts -> DraftRows] /\ r[d].status = "ready" /\ r[d].shown
        /\ r[d].before = draft[d].before /\ r[d].live = draft[d].live
        /\ \A e \in L!Drafts \ {d} : r[e] = draft[e]
    BY <1>1 DEF LandingInv, LandingTypes, DraftRows, DraftStatus
  <2> HIDE DEF r
  <2>3. /\ draft' \in [L!Drafts -> DraftRows]
        /\ \A e \in L!Drafts :
              /\ draft'[e].shown = r[e].shown /\ draft'[e].before = r[e].before
              /\ draft'[e].live = r[e].live
              /\ \/ draft'[e].status = r[e].status
                 \/ draft'[e].status = "deleted" /\ r[e].status \notin {"none", "queued", "running"}
    BY <2>1, <2>2, PrunedKeeps
  <2>4. ChargedIn(draft') = ChargedIn(draft) \cup {d}
    <3>1. draft'[d].shown
      BY <1>1, <2>2, <2>3, Zenon
    <3>2. ASSUME NEW e \in L!Drafts, e # d
          PROVE  draft'[e].status \in {"queued", "running"} \/ draft'[e].shown
                     <=> draft[e].status \in {"queued", "running"} \/ draft[e].shown
      <4>1. r[e] = draft[e]
        BY <2>2, <3>2
      <4>2. draft'[e].shown = draft[e].shown
        BY <2>3, <4>1
      <4>3. \/ draft'[e].status = draft[e].status
            \/ draft'[e].status = "deleted" /\ draft[e].status \notin {"none", "queued", "running"}
        BY <2>3, <4>1
      <4> QED
        BY <4>2, <4>3
    <3> QED
      BY <1>1, <3>1, <3>2, Zenon DEF ChargedIn
  <2>5. slow = 0 => d \in ChargedIn(draft)
    BY <1>1 DEF LandingInv, AloneAtWork, ChargedIn, d
  <2>6. /\ Cardinality(ChargedIn(draft)) <= Cardinality(ChargedIn(draft'))
        /\ slow = 0 => Cardinality(ChargedIn(draft)) = Cardinality(ChargedIn(draft'))
    BY <2>4, <2>5, ChargedCounted, FS_Subset, Zenon
  <2>7. ChargedOnce'
    <3>1. \A e \in L!Drafts : draft'[e].shown => draft'[e].status \notin {"none", "queued", "running"}
      BY <2>2, <2>3 DEF LandingInv, ChargedOnce
    <3>2. /\ used' <= Cardinality(ChargedIn(draft'))
          /\ slow' = 0 => used' = Cardinality(ChargedIn(draft'))
      BY <1>1, <2>6, ChargedCounted DEF LandingInv, LandingTypes, ChargedOnce
    <3> QED
      BY <3>1, <3>2 DEF ChargedOnce
  <2>8. writer' \in [Workers -> {0} \cup L!Drafts] /\ AloneAtWork'
    <3>1. \A e \in L!Drafts : e # d /\ draft[e].status = "running" => draft'[e].status = "running"
      BY <2>2, <2>3
    <3> QED
      BY <1>1, <3>1, WorkerLeaves, Zenon DEF d
  <2>9. LandingTypes'
    BY <1>1, <2>3, <2>8, Zenon DEF LandingInv, LandingTypes
  <2>10. PageIsIts'
    <3>1. L!Live' \subseteq L!Live
      BY <2>2, <2>3 DEF L!Live
    <3>2. \A e \in L!Drafts : draft'[e].before = draft[e].before /\ draft'[e].live = draft[e].live
      BY <2>2, <2>3
    <3> QED
      BY <1>1, <3>1, <3>2, PageStays, Zenon DEF LandingInv
  <2> QED
    BY <2>7, <2>8, <2>9, <2>10 DEF LandingInv
<1> QED
  BY <1>2, <1>3

\* A proposal that fails gives its unit back, if it has not done so.
LEMMA ChargeReturned ==
    ASSUME LandingInv, NEW d \in L!Drafts, draft' = [draft EXCEPT ![d].status = "failed"],
           used' = (IF used > 0 THEN used - 1 ELSE 0),
           slow' = 0 => slow = 0 /\ draft[d].status = "running"
    PROVE  ChargedOnce'
<1>1. /\ draft'[d].status = "failed" /\ draft'[d].shown = draft[d].shown
      /\ \A e \in L!Drafts \ {d} : draft'[e] = draft[e]
  BY OneStatus, Zenon DEF LandingInv, DraftStatus
<1>2. /\ used' \in Nat /\ used \in Nat
      /\ \/ used > 0 /\ used' = used - 1
         \/ used = 0 /\ used' = 0
  BY DEF LandingInv, LandingTypes
<1>3. /\ used <= Cardinality(ChargedIn(draft))
      /\ slow' = 0 => used = Cardinality(ChargedIn(draft))
  BY DEF LandingInv, ChargedOnce
<1>4. Cardinality(ChargedIn(draft)) \in Nat /\ Cardinality(ChargedIn(draft')) \in Nat
  BY ChargedCounted
<1>5. \A e \in L!Drafts : draft'[e].shown => draft'[e].status \notin {"none", "queued", "running"}
  BY <1>1 DEF LandingInv, ChargedOnce
<1>6. CASE d \in ChargedIn(draft) /\ ~draft[d].shown
  <2>1. ChargedIn(draft') = ChargedIn(draft) \ {d}
    BY <1>1, <1>6 DEF ChargedIn
  <2>2. Cardinality(ChargedIn(draft')) = Cardinality(ChargedIn(draft)) - 1
    BY <1>6, <2>1, ChargedCounted, FS_RemoveElement, Zenon
  <2>3. Cardinality(ChargedIn(draft)) # 0
    BY <1>6, ChargedCounted, FS_EmptySet
  <2> QED
    BY <1>2, <1>3, <1>4, <1>5, <2>2, <2>3 DEF ChargedOnce
<1>7. CASE ~(d \in ChargedIn(draft) /\ ~draft[d].shown)
  <2>1. ChargedIn(draft') = ChargedIn(draft)
    BY <1>1, <1>7 DEF ChargedIn
  <2>2. slow' # 0
    BY <1>7 DEF LandingInv, ChargedOnce, ChargedIn
  <2> QED
    BY <1>2, <1>3, <1>4, <1>5, <2>1, <2>2 DEF ChargedOnce
<1> QED
  BY <1>6, <1>7

LEMMA LandingGivesUp ==
    ASSUME LandingInv, NEW w \in Workers, L!GivesUp(w) \/ L!Dies(w)
    PROVE  LandingInv'
<1>1. /\ writer[w] # 0 /\ writer' = [writer EXCEPT ![w] = 0] /\ UNCHANGED <<site, slow>>
  BY DEF L!GivesUp, L!Dies
<1>2. writer[w] \in L!Drafts
  BY <1>1 DEF LandingInv, LandingTypes
<1>3. CASE UNCHANGED <<draft, used>>
  <2>1. writer' \in [Workers -> {0} \cup L!Drafts] /\ AloneAtWork'
    BY <1>1, <1>3, WorkerLeaves, Zenon
  <2> QED
    BY <1>1, <1>3, <2>1 DEF LandingInv, LandingTypes, ChargedOnce, PageIsIts, L!Live
<1>4. CASE /\ draft' = [draft EXCEPT ![writer[w]].status = "failed"]
           /\ used' = (IF used > 0 THEN used - 1 ELSE 0)
  <2>1. /\ draft' \in [L!Drafts -> DraftRows] /\ draft'[writer[w]].status = "failed"
        /\ \A e \in L!Drafts : /\ e # writer[w] => draft'[e] = draft[e]
                               /\ draft'[e].before = draft[e].before
                               /\ draft'[e].live = draft[e].live
    BY <1>2, <1>4, OneStatus, Zenon DEF LandingInv, DraftStatus
  <2>2. writer' \in [Workers -> {0} \cup L!Drafts] /\ AloneAtWork'
    BY <1>1, <2>1, WorkerLeaves, Zenon
  <2>3. slow = 0 => draft[writer[w]].status = "running"
    BY <1>1 DEF LandingInv, AloneAtWork
  <2>4. ChargedOnce'
    BY <1>1, <1>2, <1>4, <2>3, ChargeReturned, Zenon
  <2>5. used' \in Nat
    BY <1>4 DEF LandingInv, LandingTypes
  <2>6. PageIsIts'
    <3>1. L!Live' \subseteq L!Live
      BY <2>1 DEF L!Live
    <3> QED
      BY <1>1, <2>1, <3>1, PageStays DEF LandingInv
  <2> QED
    BY <1>1, <2>1, <2>2, <2>4, <2>5, <2>6 DEF LandingInv, LandingTypes
<1> QED
  BY <1>3, <1>4 DEF L!GivesUp, L!Dies

LEMMA LandingSweeps ==
    ASSUME LandingInv, NEW d \in L!Drafts, L!Sweeps(d)
    PROVE  LandingInv'
<1>1. /\ draft[d].status = "running" /\ draft' = [draft EXCEPT ![d].status = "failed"]
      /\ used' = (IF used > 0 THEN used - 1 ELSE 0) /\ UNCHANGED <<writer, site>>
  BY DEF L!Sweeps, L!Released
<1>2. slow' \in Nat /\ (slow' = 0 => slow = 0 /\ \A w \in Workers : writer[w] # d)
  BY DEF L!Sweeps, L!Spend, LandingInv, LandingTypes
<1>3. /\ draft' \in [L!Drafts -> DraftRows] /\ draft'[d].status = "failed"
      /\ \A e \in L!Drafts : /\ e # d => draft'[e] = draft[e]
                             /\ draft'[e].before = draft[e].before
                             /\ draft'[e].live = draft[e].live
  BY <1>1, OneStatus, Zenon DEF LandingInv, DraftStatus
<1>4. ChargedOnce'
  BY <1>1, <1>2, ChargeReturned, Zenon
<1>5. AloneAtWork'
  BY <1>1, <1>2, <1>3 DEF LandingInv, LandingTypes, AloneAtWork
<1>6. PageIsIts'
  <2>1. L!Live' \subseteq L!Live
    BY <1>3 DEF L!Live
  <2> QED
    BY <1>1, <1>3, <2>1, PageStays DEF LandingInv
<1>7. LandingTypes'
  BY <1>1, <1>2, <1>3 DEF LandingInv, LandingTypes
<1> QED
  BY <1>4, <1>5, <1>6, <1>7 DEF LandingInv

\* What a publication, a return or a refusal of proposals on no worker's desk leaves as it was.
LEMMA SettledMoves ==
    ASSUME LandingInv, UNCHANGED <<used, writer, slow>>, draft' \in [L!Drafts -> DraftRows],
           site' \in Pages,
           \A e \in L!Drafts : /\ draft'[e].shown = draft[e].shown
                               /\ \/ draft'[e].status = draft[e].status
                                  \/ /\ draft[e].status \notin {"none", "queued", "running"}
                                     /\ draft'[e].status \notin {"none", "queued", "running"}
    PROVE  LandingTypes' /\ ChargedOnce' /\ AloneAtWork'
<1>1. ChargedIn(draft') = ChargedIn(draft)
  BY DEF ChargedIn
<1>2. ChargedOnce'
  <2>1. \A e \in L!Drafts : draft'[e].shown => draft'[e].status \notin {"none", "queued", "running"}
    BY DEF LandingInv, ChargedOnce
  <2> QED
    BY <1>1, <2>1 DEF LandingInv, ChargedOnce
<1>3. \A e \in L!Drafts : draft[e].status = "running" => draft'[e].status = "running"
  OBVIOUS
<1>4. AloneAtWork'
  BY <1>3 DEF LandingInv, LandingTypes, AloneAtWork
<1>5. LandingTypes'
  BY DEF LandingInv, LandingTypes
<1> QED
  BY <1>2, <1>4, <1>5

LEMMA LandingApplies ==
    ASSUME LandingInv, NEW d \in L!Drafts, L!Apply(d)
    PROVE  LandingInv'
<1> DEFINE row(e) == IF e = d THEN [draft[d] EXCEPT !.status = "applied", !.before = site, !.live = L!Live]
                     ELSE IF e \in L!Live THEN [draft[e] EXCEPT !.status = "superseded"] ELSE draft[e]
<1>1. /\ draft[d].status \in {"ready", "superseded", "reverted", "discarded"}
      /\ draft' = [e \in L!Drafts |-> row(e)]
      /\ site' = [page |-> d, edited |-> FALSE] /\ UNCHANGED <<used, writer, slow>>
  BY DEF L!Apply, L!Publishable
<1>2. \A e \in L!Drafts : draft[e] \in DraftRows
  BY DEF LandingInv, LandingTypes
<1>3. /\ row(d) \in DraftRows /\ row(d).status = "applied" /\ row(d).shown = draft[d].shown
      /\ row(d).before = site /\ row(d).live = L!Live
  <2>1. PICK k \in DraftRows : k = draft[d]
    BY <1>2
  <2>2. row(d) = [k EXCEPT !.status = "applied", !.before = site, !.live = L!Live]
    BY <2>1
  <2>3. site \in Pages /\ L!Live \in SUBSET L!Drafts
    BY DEF LandingInv, LandingTypes, L!Live
  <2> HIDE DEF row
  <2> QED
    BY <2>1, <2>2, <2>3, Zenon DEF DraftRows, DraftStatus
<1>4. ASSUME NEW e \in L!Drafts, e # d
      PROVE  /\ row(e) \in DraftRows /\ row(e).shown = draft[e].shown
             /\ row(e).before = draft[e].before /\ row(e).live = draft[e].live
             /\ row(e).status = IF e \in L!Live THEN "superseded" ELSE draft[e].status
  <2>1. PICK k \in DraftRows : k = draft[e]
    BY <1>2
  <2>2. CASE e \in L!Live
    <3>1. row(e) = [k EXCEPT !.status = "superseded"]
      BY <1>4, <2>1, <2>2
    <3> QED
      BY <2>1, <2>2, <3>1, Zenon DEF DraftRows, DraftStatus
  <2>3. CASE e \notin L!Live
    <3>1. row(e) = k
      BY <1>4, <2>1, <2>3
    <3> QED
      BY <2>1, <2>3, <3>1, Zenon
  <2> QED
    BY <2>2, <2>3
<1> HIDE DEF row
<1>5. draft' \in [L!Drafts -> DraftRows] /\ \A e \in L!Drafts : draft'[e] = row(e)
  BY <1>1, <1>3, <1>4
<1>6. site' \in Pages /\ site'.page = d
  BY <1>1, DraftsCounted DEF Pages
<1>7. \A e \in L!Live : e \in L!Drafts /\ draft[e].status = "applied"
  BY DEF L!Live
<1>8. LandingTypes' /\ ChargedOnce' /\ AloneAtWork'
  <2>1. \A e \in L!Drafts : /\ draft'[e].shown = draft[e].shown
                            /\ \/ draft'[e].status = draft[e].status
                               \/ /\ draft[e].status \notin {"none", "queued", "running"}
                                  /\ draft'[e].status \notin {"none", "queued", "running"}
    BY <1>1, <1>3, <1>4, <1>5, <1>7
  <2> QED
    BY <1>1, <1>5, <1>6, <2>1, SettledMoves
<1>9. L!Live' = {d}
  <2>1. ASSUME NEW e \in L!Drafts, e # d
        PROVE  draft'[e].status # "applied"
    BY <1>4, <1>5, <2>1 DEF L!Live
  <2>2. draft'[d].status = "applied"
    BY <1>3, <1>5
  <2> QED
    BY <2>1, <2>2 DEF L!Live
<1>10. PageIsIts'
  <2>1. OnlyOne(L!Live) /\ \A e \in L!Live : site.page = e \/ site.edited
    BY DEF LandingInv, PageIsIts
  <2>2. ASSUME NEW e \in L!Drafts
        PROVE  /\ OnlyOne(draft'[e].live)
               /\ \A f \in draft'[e].live : draft'[e].before.page = f \/ draft'[e].before.edited
    <3>1. CASE e = d
      BY <1>3, <1>5, <2>1, <3>1
    <3>2. CASE e # d
      BY <1>4, <1>5, <3>2 DEF LandingInv, PageIsIts
    <3> QED
      BY <3>1, <3>2
  <2>3. OnlyOne(L!Live') /\ \A e \in L!Live' : site'.page = e \/ site'.edited
    BY <1>6, <1>9 DEF OnlyOne
  <2> QED
    BY <2>2, <2>3 DEF PageIsIts, OnlyOne
<1> QED
  BY <1>8, <1>10 DEF LandingInv

LEMMA LandingReverts ==
    ASSUME LandingInv, NEW d \in L!Drafts, L!Revert(d)
    PROVE  LandingInv'
<1> DEFINE row(e) == IF e = d THEN [draft[d] EXCEPT !.status = "reverted"]
                     ELSE IF e \in draft[d].live /\ L!Back(e) THEN [draft[e] EXCEPT !.status = "applied"]
                     ELSE draft[e]
<1>1. /\ draft[d].status = "applied" /\ draft' = [e \in L!Drafts |-> row(e)]
      /\ site' = draft[d].before /\ UNCHANGED <<used, writer, slow>>
  BY DEF L!Revert, L!Restored
<1>2. \A e \in L!Drafts : draft[e] \in DraftRows
  BY DEF LandingInv, LandingTypes
<1>3. ASSUME NEW e \in L!Drafts
      PROVE  /\ row(e) \in DraftRows /\ row(e).shown = draft[e].shown
             /\ row(e).before = draft[e].before /\ row(e).live = draft[e].live
             /\ \/ e = d /\ row(e).status = "reverted"
                \/ /\ e # d /\ e \in draft[d].live /\ draft[e].status = "superseded"
                   /\ row(e).status = "applied"
                \/ e # d /\ row(e).status = draft[e].status
  <2>1. PICK k \in DraftRows : k = draft[e]
    BY <1>2
  <2>2. CASE e = d
    <3>1. row(e) = [k EXCEPT !.status = "reverted"]
      BY <2>1, <2>2
    <3> QED
      BY <2>1, <2>2, <3>1 DEF DraftRows, DraftStatus
  <2>3. CASE e # d /\ e \in draft[d].live /\ L!Back(e)
    <3>1. row(e) = [k EXCEPT !.status = "applied"]
      BY <2>1, <2>3
    <3> QED
      BY <2>1, <2>3, <3>1 DEF DraftRows, DraftStatus, L!Back
  <2>4. CASE e # d /\ ~(e \in draft[d].live /\ L!Back(e))
    <3>1. row(e) = k
      BY <2>1, <2>4
    <3> QED
      BY <2>1, <2>4, <3>1
  <2> QED
    BY <2>2, <2>3, <2>4
<1> HIDE DEF row
<1>4. draft' \in [L!Drafts -> DraftRows] /\ \A e \in L!Drafts : draft'[e] = row(e)
  BY <1>1, <1>3
<1>5. site' \in Pages
  BY <1>1, <1>2 DEF DraftRows
<1>6. LandingTypes' /\ ChargedOnce' /\ AloneAtWork'
  <2>1. \A e \in L!Drafts : /\ draft'[e].shown = draft[e].shown
                            /\ \/ draft'[e].status = draft[e].status
                               \/ /\ draft[e].status \notin {"none", "queued", "running"}
                                  /\ draft'[e].status \notin {"none", "queued", "running"}
    BY <1>1, <1>3, <1>4
  <2> QED
    BY <1>1, <1>4, <1>5, <2>1, SettledMoves
<1>7. L!Live' \subseteq draft[d].live
  <2>1. SUFFICES ASSUME NEW e \in L!Drafts, draft'[e].status = "applied"
                 PROVE  e \in draft[d].live
    BY DEF L!Live
  <2>2. OnlyOne(L!Live) /\ d \in L!Live
    BY <1>1 DEF LandingInv, PageIsIts, L!Live
  <2>3. e # d => draft[e].status # "applied"
    BY <2>2 DEF OnlyOne, L!Live
  <2> QED
    BY <1>3, <1>4, <2>1, <2>3
<1>8. /\ OnlyOne(draft[d].live)
      /\ \A e \in draft[d].live : draft[d].before.page = e \/ draft[d].before.edited
  BY DEF LandingInv, PageIsIts
<1>9. OnlyOne(L!Live') /\ \A e \in L!Live' : site'.page = e \/ site'.edited
  BY <1>1, <1>7, <1>8 DEF OnlyOne
<1>10. ASSUME NEW e \in L!Drafts
       PROVE  /\ OnlyOne(draft'[e].live)
              /\ \A f \in draft'[e].live : draft'[e].before.page = f \/ draft'[e].before.edited
  BY <1>3, <1>4 DEF LandingInv, PageIsIts
<1>11. PageIsIts'
  BY <1>9, <1>10 DEF PageIsIts, OnlyOne
<1> QED
  BY <1>6, <1>11 DEF LandingInv

LEMMA LandingDiscards ==
    ASSUME LandingInv, NEW d \in L!Drafts, L!Discard(d)
    PROVE  LandingInv'
<1>1. /\ draft[d].status = "ready" /\ draft' = [draft EXCEPT ![d].status = "discarded"]
      /\ UNCHANGED <<used, writer, site, slow>>
  BY DEF L!Discard
<1>2. /\ draft' \in [L!Drafts -> DraftRows] /\ draft'[d].status = "discarded"
      /\ \A e \in L!Drafts : /\ e # d => draft'[e] = draft[e]
                             /\ draft'[e].shown = draft[e].shown
                             /\ draft'[e].before = draft[e].before
                             /\ draft'[e].live = draft[e].live
  BY <1>1, OneStatus, Zenon DEF LandingInv, DraftStatus
<1>3. site' \in Pages
  BY <1>1 DEF LandingInv, LandingTypes
<1>4. \A e \in L!Drafts : \/ draft'[e].status = draft[e].status
                          \/ /\ draft[e].status \notin {"none", "queued", "running"}
                             /\ draft'[e].status \notin {"none", "queued", "running"}
  BY <1>1, <1>2
<1>5. LandingTypes' /\ ChargedOnce' /\ AloneAtWork'
  BY <1>1, <1>2, <1>3, <1>4, SettledMoves
<1>6. PageIsIts'
  <2>1. L!Live' \subseteq L!Live
    BY <1>2 DEF L!Live
  <2> QED
    BY <1>1, <1>2, <2>1, PageStays DEF LandingInv
<1> QED
  BY <1>5, <1>6 DEF LandingInv

LEMMA LandingEdited ==
    ASSUME LandingInv, L!EditByHand
    PROVE  LandingInv'
<1>1. site' = [page |-> 0, edited |-> TRUE] /\ UNCHANGED <<draft, used, writer, slow>>
  BY DEF L!EditByHand
<1>2. site' \in Pages /\ site'.edited
  BY <1>1, DraftsCounted DEF Pages
<1>3. LandingTypes'
  BY <1>1, <1>2 DEF LandingInv, LandingTypes
<1> QED
  BY <1>1, <1>2, <1>3 DEF LandingInv, ChargedOnce, AloneAtWork, PageIsIts, L!Live

LEMMA LandingStutter == LandingInv /\ UNCHANGED <<draft, used, writer, site, slow>> => LandingInv'
BY DEF LandingInv, LandingTypes, ChargedOnce, AloneAtWork, PageIsIts, L!Live

LEMMA LandingStep == LandingInv /\ L!LandingNext => LandingInv'
<1> SUFFICES ASSUME LandingInv, L!LandingNext
             PROVE  LandingInv'
  OBVIOUS
<1>1. CASE \E c \in Askers : L!Asks(c) \/ \E d \in L!Drafts : L!Reserves(c, d)
  <2>1. ASSUME NEW c \in Askers, L!Asks(c)
        PROVE  LandingInv'
    BY <2>1, LandingStutter DEF L!Asks
  <2> QED
    BY <1>1, <2>1, LandingReserves
<1>2. CASE \E w \in Workers : \/ \E d \in L!Drafts : L!Claims(w, d)
                              \/ \E v \in Workers \ {w} : L!ClaimsToo(w, v)
                              \/ L!Writes(w) \/ L!GivesUp(w) \/ L!Dies(w)
  BY <1>2, LandingClaims, LandingClaimsToo, LandingWrites, LandingGivesUp
<1>3. CASE \E d \in L!Drafts : L!Sweeps(d) \/ L!Apply(d) \/ L!Revert(d) \/ L!Discard(d)
  BY <1>3, LandingSweeps, LandingApplies, LandingReverts, LandingDiscards
<1>4. CASE L!EditByHand
  BY <1>4, LandingEdited
<1> QED
  BY <1>1, <1>2, <1>3, <1>4 DEF L!LandingNext

LEMMA ProposalsFair == LandingInv => L!QuotaIsFair /\ L!LiveIsOnAir
<1> SUFFICES ASSUME LandingInv
             PROVE  L!QuotaIsFair /\ L!LiveIsOnAir
  OBVIOUS
<1>1. \A X : L!Cardinality(X) = Cardinality(X)
  BY DEF L!Cardinality, Cardinality
<1>2. {d \in L!InFlight : TRUE} \cup {d \in L!Drafts : draft[d].shown} = ChargedIn(draft)
  BY DEF L!InFlight, ChargedIn
<1>3. L!QuotaIsFair
  BY <1>1, <1>2 DEF LandingInv, ChargedOnce, L!QuotaIsFair
<1>4. Cardinality(L!Live) <= 1
  <2>1. OnlyOne(L!Live)
    BY DEF LandingInv, PageIsIts
  <2>2. CASE L!Live = {}
    BY <2>2, FS_EmptySet
  <2>3. CASE L!Live # {}
    <3>1. PICK d : L!Live = {d}
      BY <2>1, <2>3 DEF OnlyOne
    <3> QED
      BY <3>1, FS_Singleton
  <2> QED
    BY <2>2, <2>3
<1>5. L!LiveIsOnAir
  BY <1>1, <1>4 DEF LandingInv, PageIsIts, L!LiveIsOnAir
<1> QED
  BY <1>3, <1>5

-----------------------------------------------------------------------------
(* All of them *)

ShelfInv == PromoInv /\ CatalogInv
SettingInv == ModulesInv /\ SetupInv /\ BoxInv /\ LandingInv
AgentInv == LinksInv /\ AssistInv /\ SellerInv
BackOfficeInv == RefundsInv /\ ShelfInv /\ SettingInv /\ AgentInv

LEMMA BackOfficeStart == BackOfficeInit => BackOfficeInv
BY RefundsStart, PromoStart, CatalogStart, ModulesStart, SetupStart, BoxStart, LandingStart, LinksStart,
   AssistStart, SellerStart
DEF BackOfficeInit, BackOfficeInv, ShelfInv, SettingInv, AgentInv

\* On the shelf, in the settings and by the assistant one component moves at most; whoever rests
\* keeps its invariant.
LEMMA ShelfStep ==
    ASSUME ShelfInv, OnTheShelf \/ UNCHANGED shelfVars
    PROVE  ShelfInv'
<1>1. C!SellOutNext \/ UNCHANGED promoOnly
  BY DEF OnTheShelf, shelfVars
<1>2. C!CatalogNext \/ UNCHANGED catalogOnly
  BY DEF OnTheShelf, shelfVars
<1> QED
  BY <1>1, <1>2, PromoStep, PromoStutter, CatalogStep, CatalogStutter DEF ShelfInv

LEMMA SettingsStep ==
    ASSUME SettingInv, InTheSettings \/ UNCHANGED settingVars
    PROVE  SettingInv'
<1>1. S!ModulesNext \/ UNCHANGED modulesOnly
  BY DEF InTheSettings, settingVars
<1>2. S!SetupNext \/ UNCHANGED <<config, secret, owner, overtaken>>
  BY DEF InTheSettings, settingVars, setupOnly
<1>3. B!PackagesNext \/ UNCHANGED <<box, chooser, muddled>>
  BY DEF InTheSettings, settingVars, boxOnly
<1>4. L!LandingNext \/ UNCHANGED <<draft, used, writer, site, slow>>
  BY DEF InTheSettings, settingVars, landingOnly
<1> QED
  BY <1>1, <1>2, <1>3, <1>4, ModulesStep, ModulesStutter, SetupStep, SetupStutter,
     BoxStep, BoxStutter, LandingStep, LandingStutter DEF SettingInv

LEMMA AgentStep ==
    ASSUME AgentInv, ByTheAssistant \/ UNCHANGED agentVars
    PROVE  AgentInv'
<1>1. A!LinksNext \/ UNCHANGED linksOnly
  BY DEF ByTheAssistant, agentVars
<1>2. A!AssistantNext \/ UNCHANGED assistantOnly
  BY DEF ByTheAssistant, agentVars
<1>3. V!AgentSalesNext \/ UNCHANGED <<cart, seller, heard, orders>>
  BY DEF ByTheAssistant, agentVars, sellerOnly
<1> QED
  BY <1>1, <1>2, <1>3, LinksStep, LinksStutter, AssistStep, AssistStutter,
     SellerStep, SellerStutter DEF AgentInv

LEMMA BackOfficeStep == BackOfficeInv /\ [BackOfficeNext]_backOfficeVars => BackOfficeInv'
<1> SUFFICES ASSUME BackOfficeInv, [BackOfficeNext]_backOfficeVars
             PROVE  BackOfficeInv'
  OBVIOUS
<1>1. OnTheShelf \/ UNCHANGED shelfVars
  BY DEF BackOfficeNext, InTheSettings, ByTheAssistant, backOfficeVars
<1>2. InTheSettings \/ UNCHANGED settingVars
  BY DEF BackOfficeNext, OnTheShelf, ByTheAssistant, backOfficeVars
<1>3. ByTheAssistant \/ UNCHANGED agentVars
  BY DEF BackOfficeNext, OnTheShelf, InTheSettings, backOfficeVars
<1>4. RefundsNext \/ UNCHANGED refundVars
  BY DEF BackOfficeNext, OnTheShelf, InTheSettings, ByTheAssistant, backOfficeVars
<1> QED
  BY <1>1, <1>2, <1>3, <1>4, ShelfStep, SettingsStep, AgentStep, RefundsStep, RefundsStutter
  DEF BackOfficeInv

\* The refunds of an order add up, as money promised, as money given back and as units, whoever asks
\* and decides at the same time, whatever is rejected or fails, and although the provider's answers
\* are lost or come late (orders/refunds, orders/refund_lines).
THEOREM RefundsAddUpCorrect == BackOfficeSpec => []RefundsAddUp
<1>1. BackOfficeInv => RefundsAddUp
  BY RefundsAreRight DEF BackOfficeInv
<1> QED
  BY <1>1, BackOfficeStart, BackOfficeStep, PTL DEF BackOfficeSpec

\* A promotion that ends with the stock has ended once it is gone, in whatever order sales, counts
\* and events came (catalog/promotions).
THEOREM SellOutEnds == BackOfficeSpec => []SellOutEndsPromotion
<1>1. BackOfficeInv => SellOutEndsPromotion
  BY PromotionEnds DEF BackOfficeInv, ShelfInv, SellOutEndsPromotion
<1> QED
  BY <1>1, BackOfficeStart, BackOfficeStep, PTL DEF BackOfficeSpec

\* No module is on without those it needs, no payment provider offered without what it needs, no
\* package the default that is archived (tenancy/modules, payments/registry, shipping/packages).
THEOREM SettingsFitCorrect == BackOfficeSpec => []SettingsFit
<1>1. BackOfficeInv => SettingsFit
  BY ModulesAreFit, OfferIsComplete, DefaultIsUsed DEF BackOfficeInv, SettingInv, SettingsFit
<1> QED
  BY <1>1, BackOfficeStart, BackOfficeStep, PTL DEF BackOfficeSpec

\* The assistant does what the owner read, once, with a credential a code gave once, and sells at the
\* price that was heard (agent/plans, links, internal_agent_sales).
THEOREM AssistantKeepsItsWordCorrect == BackOfficeSpec => []AssistantKeepsItsWord
<1>1. BackOfficeInv => AssistantKeepsItsWord
  BY AssistantDoesAsRead, OneCredential, OrdersAreAsHeard
  DEF BackOfficeInv, AgentInv, AssistantKeepsItsWord
<1> QED
  BY <1>1, BackOfficeStart, BackOfficeStep, PTL DEF BackOfficeSpec

\* A published product has something to sell and a picture, and its variants are the matrix of its
\* options, through any sequence of changes of either (catalog/service, catalog/events).
THEOREM CatalogIsSellableCorrect == BackOfficeSpec => []CatalogIsSellable
<1>1. BackOfficeInv => CatalogIsSellable
  BY CatalogSells DEF BackOfficeInv, ShelfInv, CatalogIsSellable
<1> QED
  BY <1>1, BackOfficeStart, BackOfficeStep, PTL DEF BackOfficeSpec

\* A proposal is charged if it was shown or is on its way, and the one applied is on air, whatever
\* workers died, ran twice or were swept (landing/quota, generation, drafts).
THEOREM ProposalsAreFairCorrect == BackOfficeSpec => []ProposalsAreFair
<1>1. BackOfficeInv => ProposalsAreFair
  BY ProposalsFair DEF BackOfficeInv, SettingInv, ProposalsAreFair
<1> QED
  BY <1>1, BackOfficeStart, BackOfficeStep, PTL DEF BackOfficeSpec
=============================================================================
