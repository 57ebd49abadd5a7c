---------------------------- MODULE FiniteLemmas ----------------------------
(***************************************************************************)
(* Finite sets.  What MapThenSumSet computes over a finite set of integers *)
(* (the community module defines it by a recursion that takes out some     *)
(* element of the set: it does not matter which); that a finite set has a  *)
(* greatest element and a set of numbers a least one; and that a finite set*)
(* can be sorted by any strict order.  And numbers: sums in order, and the *)
(* binomials as Pascal's triangle.                                         *)
(***************************************************************************)
EXTENDS Integers, FiniteSets, FiniteSetsExt, FiniteSetTheorems, WellFoundedInduction, TLAPS

SumOver(f, S) == MapThenSumSet(LAMBDA x : f[x], S)

\* The recursion MapThenSumSet is defined by, over the sets of a family D.
Picked(s) == CHOOSE x \in s : TRUE
Adds(f, D, sum) == sum = [s \in D |-> IF s = {} THEN 0 ELSE f[Picked(s)] + sum[s \ {Picked(s)}]]

\* Induction over the subsets of a finite set, as a statement about sets.
LEMMA SubsetInduction ==
    ASSUME NEW S, IsFiniteSet(S), NEW good,
           {} \in good,
           \A s \in SUBSET S : s # {} /\ (\A x \in s : s \ {x} \in good) => s \in good
    PROVE  SUBSET S \subseteq good
<1> SUFFICES ASSUME ~(SUBSET S \subseteq good)  PROVE FALSE
  OBVIOUS
<1> DEFINE less == {ss \in Nat \X Nat : ss[1] < ss[2]}
           sizes == {Cardinality(s) : s \in (SUBSET S) \ good}
<1>1. IsWellFoundedOn(less, Nat)
  BY NatLessThanWellFounded DEF OpToRel
<1>2. \A s \in SUBSET S : IsFiniteSet(s) /\ Cardinality(s) \in Nat
  BY FS_Subset, FS_CardinalityType
<1>3. sizes \subseteq Nat /\ sizes # {}
  BY <1>2
<1>4. \E n \in sizes : \A m \in sizes : ~(<<m, n>> \in less)
  <2> HIDE DEF less, sizes
  <2> QED  BY <1>1, <1>3, WFMin
<1>5. PICK s \in (SUBSET S) \ good : \A u \in (SUBSET S) \ good : ~(Cardinality(u) < Cardinality(s))
  <2>1. PICK n \in sizes : \A m \in sizes : ~(<<m, n>> \in less)
    BY <1>4
  <2>2. PICK s \in (SUBSET S) \ good : n = Cardinality(s)
    BY <2>1
  <2> QED  BY <1>2, <2>1, <2>2
<1>6. \A x \in s : s \ {x} \in good
  <2> TAKE x \in s
  <2>1. Cardinality(s \ {x}) = Cardinality(s) - 1
    BY <1>2, FS_RemoveElement
  <2>2. Cardinality(s) \in Nat
    BY <1>2
  <2>3. Cardinality(s \ {x}) < Cardinality(s)
    BY <2>1, <2>2
  <2> QED  BY <1>5, <2>3
<1> QED  BY <1>5, <1>6

\* The recursion has a solution.
LEMMA SumExists ==
    ASSUME NEW f, NEW S, IsFiniteSet(S)
    PROVE  \E sum : Adds(f, SUBSET S, sum)
<1> DEFINE less == {ss \in Nat \X Nat : ss[1] < ss[2]}
           Below(n) == {s \in SUBSET S : Cardinality(s) <= n}
           bad == {n \in Nat : ~\E sum : Adds(f, Below(n), sum)}
<1>1. \A s \in SUBSET S : IsFiniteSet(s) /\ Cardinality(s) \in Nat
  BY FS_Subset, FS_CardinalityType
<1>2. bad = {}
  <2> SUFFICES ASSUME bad # {}  PROVE FALSE
    OBVIOUS
  <2>1. IsWellFoundedOn(less, Nat)
    BY NatLessThanWellFounded DEF OpToRel
  <2>2. \E n \in bad : \A m \in bad : ~(<<m, n>> \in less)
    <3>1. bad \subseteq Nat
      OBVIOUS
    <3> HIDE DEF less, bad
    <3> QED  BY <2>1, <3>1, WFMin
  <2>3. PICK n \in bad : \A m \in bad : ~(<<m, n>> \in less)
    BY <2>2
  <2>4. CASE n = 0
    <3>1. \A s \in Below(n) : s = {}
      BY <1>1, <2>4, FS_EmptySet
    <3>2. Adds(f, Below(n), [s \in Below(n) |-> 0])
      BY <3>1, Zenon DEF Adds
    <3> QED  BY <3>2
  <2>5. CASE n # 0
    <3>1. n - 1 \in Nat /\ n - 1 \notin bad
      <4>1. n \in Nat
        OBVIOUS
      <4>2. n - 1 \in Nat /\ <<n - 1, n>> \in less
        BY <2>5, <4>1
      <4> HIDE DEF less, bad
      <4> QED  BY <2>3, <4>2
    <3>2. PICK g : Adds(f, Below(n - 1), g)
      BY <3>1
    <3> DEFINE h == [s \in Below(n) |-> IF s = {} THEN 0 ELSE f[Picked(s)] + g[s \ {Picked(s)}]]
    <3>3. \A s \in Below(n) : s # {} =>
              s \ {Picked(s)} \in Below(n - 1) /\ s \ {Picked(s)} \in Below(n)
      <4> TAKE s \in Below(n)
      <4> HAVE s # {}
      <4>1. Picked(s) \in s
        BY DEF Picked
      <4>2. Cardinality(s \ {Picked(s)}) = Cardinality(s) - 1
        BY <1>1, <4>1, FS_RemoveElement
      <4>3. Cardinality(s) \in Nat /\ n \in Nat /\ Cardinality(s) <= n
        BY <1>1, <2>3
      <4>4. Cardinality(s \ {Picked(s)}) <= n - 1 /\ Cardinality(s \ {Picked(s)}) <= n
        BY <4>2, <4>3
      <4> QED  BY <4>4
    <3>4. \A s \in Below(n - 1) :
              g[s] = IF s = {} THEN 0 ELSE f[Picked(s)] + g[s \ {Picked(s)}]
      <4> HIDE DEF Below
      <4> QED  BY <3>2, Zenon DEF Adds
    <3>5. \A s \in Below(n) : s # {} => h[s \ {Picked(s)}] = g[s \ {Picked(s)}]
      <4> HIDE DEF Below
      <4> QED  BY <3>3, <3>4
    <3>6. h = [s \in Below(n) |-> IF s = {} THEN 0 ELSE f[Picked(s)] + h[s \ {Picked(s)}]]
      <4> HIDE DEF Below
      <4>1. \A s \in Below(n) : (IF s = {} THEN 0 ELSE f[Picked(s)] + g[s \ {Picked(s)}])
                              = (IF s = {} THEN 0 ELSE f[Picked(s)] + h[s \ {Picked(s)}])
        <5> HIDE DEF h
        <5> QED  BY <3>5
      <4> QED  BY <4>1, Zenon
    <3>7. Adds(f, Below(n), h)
      <4> HIDE DEF h, Below
      <4> QED  BY <3>6 DEF Adds
    <3> QED  BY <3>7, <2>3
  <2> QED  BY <2>4, <2>5
<1>3. Cardinality(S) \in Nat
  BY FS_CardinalityType
<1>4. PICK sum : Adds(f, Below(Cardinality(S)), sum)
  BY <1>2, <1>3
<1>5. Below(Cardinality(S)) = SUBSET S
  BY FS_Subset
<1> QED  BY <1>4, <1>5

\* It has one solution only, whatever the set it was started from.
LEMMA SumUnique ==
    ASSUME NEW f, NEW S, NEW T, IsFiniteSet(T), T \subseteq S,
           NEW g, NEW h, Adds(f, SUBSET S, g), Adds(f, SUBSET T, h)
    PROVE  g[T] = h[T]
<1> DEFINE good == {s \in SUBSET T : g[s] = h[s]}
<1>1. \A s \in SUBSET S : g[s] = IF s = {} THEN 0 ELSE f[Picked(s)] + g[s \ {Picked(s)}]
  BY Zenon DEF Adds
<1>2. \A s \in SUBSET T : h[s] = IF s = {} THEN 0 ELSE f[Picked(s)] + h[s \ {Picked(s)}]
  BY Zenon DEF Adds
<1>3. {} \in good
  BY <1>1, <1>2
<1>4. \A s \in SUBSET T : s # {} /\ (\A x \in s : s \ {x} \in good) => s \in good
  <2> TAKE s \in SUBSET T
  <2> HAVE s # {} /\ (\A x \in s : s \ {x} \in good)
  <2>1. Picked(s) \in s
    BY DEF Picked
  <2>2. g[s \ {Picked(s)}] = h[s \ {Picked(s)}]
    BY <2>1
  <2> QED  BY <1>1, <1>2, <2>2
<1>5. SUBSET T \subseteq good
  <2> HIDE DEF good
  <2> QED  BY <1>3, <1>4, SubsetInduction
<1> QED  BY <1>5

LEMMA SumOfNone == ASSUME NEW f  PROVE SumOver(f, {}) = 0
<1>1. \E sum : Adds(f, SUBSET {}, sum)
  BY SumExists, FS_EmptySet
<1>2. PICK sum : Adds(f, SUBSET {}, sum) /\ SumOver(f, {}) = sum[{}]
  <2>1. SumOver(f, {}) = (CHOOSE sum : Adds(f, SUBSET {}, sum))[{}]
    BY Zenon DEF SumOver, MapThenSumSet, MapThenFoldSet, Adds, Picked
  <2> QED  BY <1>1, <2>1
<1> QED  BY <1>2, Zenon DEF Adds

LEMMA SumIsRecursion ==
    ASSUME NEW f, NEW S, IsFiniteSet(S)
    PROVE  \E sum : Adds(f, SUBSET S, sum) /\ SumOver(f, S) = sum[S]
<1>1. SumOver(f, S) = (CHOOSE sum : Adds(f, SUBSET S, sum))[S]
  BY Zenon DEF SumOver, MapThenSumSet, MapThenFoldSet, Adds, Picked
<1> QED  BY <1>1, SumExists

\* One element is taken out, the one that CHOOSE takes.
LEMMA SumPicked ==
    ASSUME NEW f, NEW S, IsFiniteSet(S), S # {}
    PROVE  SumOver(f, S) = f[Picked(S)] + SumOver(f, S \ {Picked(S)})
<1> DEFINE T == S \ {Picked(S)}
<1>1. IsFiniteSet(T)
  BY FS_Subset
<1>2. PICK g : Adds(f, SUBSET S, g) /\ SumOver(f, S) = g[S]
  BY SumIsRecursion
<1>3. PICK h : Adds(f, SUBSET T, h) /\ SumOver(f, T) = h[T]
  <2> HIDE DEF T
  <2> QED  BY <1>1, SumIsRecursion
<1>4. g[T] = h[T]
  <2>1. T \subseteq S
    OBVIOUS
  <2> HIDE DEF T
  <2> QED  BY <1>1, <1>2, <1>3, <2>1, SumUnique
<1>5. g[S] = f[Picked(S)] + g[T]
  BY <1>2, Zenon DEF Adds
<1> QED  BY <1>2, <1>3, <1>4, <1>5

LEMMA SumType ==
    ASSUME NEW f, NEW S, IsFiniteSet(S), \A x \in S : f[x] \in Int
    PROVE  SumOver(f, S) \in Int
<1> DEFINE good == {s \in SUBSET S : SumOver(f, s) \in Int}
<1>1. {} \in good
  BY SumOfNone
<1>2. \A s \in SUBSET S : s # {} /\ (\A x \in s : s \ {x} \in good) => s \in good
  <2> TAKE s \in SUBSET S
  <2> HAVE s # {} /\ (\A x \in s : s \ {x} \in good)
  <2>1. Picked(s) \in s
    BY DEF Picked
  <2>2. SumOver(f, s) = f[Picked(s)] + SumOver(f, s \ {Picked(s)})
    BY FS_Subset, SumPicked
  <2> QED  BY <2>1, <2>2
<1>3. SUBSET S \subseteq good
  <2> HIDE DEF good
  <2> QED  BY <1>1, <1>2, SubsetInduction
<1> QED  BY <1>3

\* Any element may be taken out first.
LEMMA SumRemove ==
    ASSUME NEW f, NEW S, IsFiniteSet(S), \A x \in S : f[x] \in Int, NEW e \in S
    PROVE  SumOver(f, S) = f[e] + SumOver(f, S \ {e})
<1> DEFINE good == {s \in SUBSET S : \A x \in s : SumOver(f, s) = f[x] + SumOver(f, s \ {x})}
<1>1. {} \in good
  OBVIOUS
<1>2. \A s \in SUBSET S : s # {} /\ (\A x \in s : s \ {x} \in good) => s \in good
  <2> TAKE s \in SUBSET S
  <2> HAVE s # {} /\ (\A x \in s : s \ {x} \in good)
  <2> SUFFICES ASSUME NEW x \in s
               PROVE  SumOver(f, s) = f[x] + SumOver(f, s \ {x})
    OBVIOUS
  <2> DEFINE p == Picked(s)
             t == (s \ {p}) \ {x}
  <2>1. p \in s
    BY DEF Picked
  <2>2. SumOver(f, s) = f[p] + SumOver(f, s \ {p})
    BY FS_Subset, SumPicked
  <2>3. CASE p = x
    BY <2>2, <2>3
  <2>4. CASE p # x
    <3>1. SumOver(f, s \ {p}) = f[x] + SumOver(f, t)
      BY <2>1, <2>4
    <3>2. SumOver(f, s \ {x}) = f[p] + SumOver(f, (s \ {x}) \ {p})
      BY <2>1, <2>4
    <3>3. (s \ {x}) \ {p} = t
      OBVIOUS
    <3>4. SumOver(f, t) \in Int
      <4>1. IsFiniteSet(t) /\ t \subseteq S
        BY FS_Subset
      <4> HIDE DEF t
      <4> QED  BY <4>1, SumType
    <3>5. f[p] \in Int /\ f[x] \in Int
      BY <2>1
    <3> HIDE DEF p, t
    <3> QED  BY <2>2, <3>1, <3>2, <3>3, <3>4, <3>5
  <2> QED  BY <2>3, <2>4
<1>3. SUBSET S \subseteq good
  <2> HIDE DEF good
  <2> QED  BY <1>1, <1>2, SubsetInduction
<1>4. S \in good
  BY <1>3
<1> QED  BY <1>4

\* A new element adds its own value.
LEMMA SumInsert ==
    ASSUME NEW f, NEW S, IsFiniteSet(S), \A x \in S : f[x] \in Int,
           NEW e, e \notin S, f[e] \in Int
    PROVE  SumOver(f, S \cup {e}) = f[e] + SumOver(f, S)
<1> DEFINE T == S \cup {e}
<1>1. IsFiniteSet(T)
  BY FS_AddElement
<1>2. /\ e \in T
      /\ \A x \in T : f[x] \in Int
      /\ T \ {e} = S
  OBVIOUS
<1> HIDE DEF T
<1>3. SumOver(f, T) = f[e] + SumOver(f, T \ {e})
  BY <1>1, <1>2, SumRemove
<1> QED  BY <1>2, <1>3 DEF T

\* Only the values on the set count.
LEMMA SumSame ==
    ASSUME NEW f, NEW g, NEW S, IsFiniteSet(S), \A x \in S : f[x] = g[x]
    PROVE  SumOver(f, S) = SumOver(g, S)
<1> DEFINE good == {s \in SUBSET S : SumOver(f, s) = SumOver(g, s)}
<1>1. {} \in good
  BY SumOfNone
<1>2. \A s \in SUBSET S : s # {} /\ (\A x \in s : s \ {x} \in good) => s \in good
  <2> TAKE s \in SUBSET S
  <2> HAVE s # {} /\ (\A x \in s : s \ {x} \in good)
  <2>1. Picked(s) \in s
    BY DEF Picked
  <2>2. SumOver(f, s) = f[Picked(s)] + SumOver(f, s \ {Picked(s)})
    BY FS_Subset, SumPicked
  <2>3. SumOver(g, s) = g[Picked(s)] + SumOver(g, s \ {Picked(s)})
    BY FS_Subset, SumPicked
  <2> QED  BY <2>1, <2>2, <2>3
<1>3. SUBSET S \subseteq good
  <2> HIDE DEF good
  <2> QED  BY <1>1, <1>2, SubsetInduction
<1> QED  BY <1>3

LEMMA SumOfZeros ==
    ASSUME NEW f, NEW S, IsFiniteSet(S), \A x \in S : f[x] = 0
    PROVE  SumOver(f, S) = 0
<1> DEFINE good == {s \in SUBSET S : SumOver(f, s) = 0}
<1>1. {} \in good
  BY SumOfNone
<1>2. \A s \in SUBSET S : s # {} /\ (\A x \in s : s \ {x} \in good) => s \in good
  <2> TAKE s \in SUBSET S
  <2> HAVE s # {} /\ (\A x \in s : s \ {x} \in good)
  <2>1. Picked(s) \in s
    BY DEF Picked
  <2>2. SumOver(f, s) = f[Picked(s)] + SumOver(f, s \ {Picked(s)})
    BY FS_Subset, SumPicked
  <2> QED  BY <2>1, <2>2
<1>3. SUBSET S \subseteq good
  <2> HIDE DEF good
  <2> QED  BY <1>1, <1>2, SubsetInduction
<1> QED  BY <1>3

\* Where all but one are equal, the sums differ by what that one does.
LEMMA SumChange ==
    ASSUME NEW f, NEW g, NEW S, IsFiniteSet(S),
           \A x \in S : f[x] \in Int /\ g[x] \in Int,
           NEW e \in S, \A x \in S \ {e} : f[x] = g[x]
    PROVE  SumOver(g, S) = SumOver(f, S) - f[e] + g[e]
<1> DEFINE T == S \ {e}
<1>1. IsFiniteSet(T) /\ T \subseteq S
  BY FS_Subset
<1>2. SumOver(f, T) = SumOver(g, T)
  <2>1. \A x \in T : f[x] = g[x]
    OBVIOUS
  <2> HIDE DEF T
  <2> QED  BY <1>1, <2>1, SumSame
<1>3. SumOver(f, T) \in Int
  <2> HIDE DEF T
  <2> QED  BY <1>1, SumType
<1>4. SumOver(f, S) = f[e] + SumOver(f, T) /\ SumOver(g, S) = g[e] + SumOver(g, T)
  BY SumRemove DEF T
<1>5. f[e] \in Int /\ g[e] \in Int
  OBVIOUS
<1> HIDE DEF T
<1> QED  BY <1>2, <1>3, <1>4, <1>5

\* Sums whose terms change in a few places.
Changed(f, g, S, E) ==
    /\ IsFiniteSet(S) /\ E \subseteq S
    /\ \A x \in S : f[x] \in Int /\ g[x] \in Int
    /\ \A x \in S \ E : f[x] = g[x]
LEMMA SumOfThreeChanged ==
    ASSUME NEW f, NEW g, NEW S, NEW e1, NEW e2, NEW e3, Changed(f, g, S, {e1, e2, e3}),
           e1 # e2, e1 # e3, e2 # e3
    PROVE  SumOver(g, S) = SumOver(f, S) + (g[e1] - f[e1]) + (g[e2] - f[e2]) + (g[e3] - f[e3])
<1>0. /\ IsFiniteSet(S) /\ e1 \in S /\ e2 \in S /\ e3 \in S
      /\ \A x \in S : f[x] \in Int /\ g[x] \in Int
      /\ \A x \in S \ {e1, e2, e3} : f[x] = g[x]
  BY DEF Changed
<1> DEFINE h1 == [x \in S |-> IF x = e1 THEN g[x] ELSE f[x]]
           h2 == [x \in S |-> IF x = e1 \/ x = e2 THEN g[x] ELSE f[x]]
<1>1. /\ \A x \in S : h1[x] \in Int /\ h2[x] \in Int
      /\ h1[e1] = g[e1] /\ h1[e2] = f[e2] /\ h2[e2] = g[e2] /\ h2[e3] = f[e3]
      /\ \A x \in S \ {e1} : f[x] = h1[x]
      /\ \A x \in S \ {e2} : h1[x] = h2[x]
      /\ \A x \in S \ {e3} : h2[x] = g[x]
  BY <1>0
<1> HIDE DEF h1, h2
<1>2. SumOver(f, S) \in Int
  BY <1>0, SumType
<1>3. SumOver(h1, S) = SumOver(f, S) - f[e1] + h1[e1]
  BY <1>0, <1>1, SumChange
<1>4. SumOver(h2, S) = SumOver(h1, S) - h1[e2] + h2[e2]
  BY <1>0, <1>1, SumChange
<1>5. SumOver(g, S) = SumOver(h2, S) - h2[e3] + g[e3]
  BY <1>0, <1>1, SumChange
<1> QED  BY <1>0, <1>1, <1>2, <1>3, <1>4, <1>5

LEMMA SumOfFourChanged ==
    ASSUME NEW f, NEW g, NEW S, NEW e1, NEW e2, NEW e3, NEW e4, Changed(f, g, S, {e1, e2, e3, e4}),
           e1 # e2, e1 # e3, e2 # e3, e1 # e4, e2 # e4, e3 # e4
    PROVE  SumOver(g, S) = SumOver(f, S) + (g[e1] - f[e1]) + (g[e2] - f[e2]) + (g[e3] - f[e3])
                               + (g[e4] - f[e4])
<1>0. /\ IsFiniteSet(S) /\ e1 \in S /\ e2 \in S /\ e3 \in S /\ e4 \in S
      /\ \A x \in S : f[x] \in Int /\ g[x] \in Int
      /\ \A x \in S \ {e1, e2, e3, e4} : f[x] = g[x]
  BY DEF Changed
<1> DEFINE h == [x \in S |-> IF x = e4 THEN f[x] ELSE g[x]]
<1>1. /\ \A x \in S : h[x] \in Int
      /\ h[e1] = g[e1] /\ h[e2] = g[e2] /\ h[e3] = g[e3] /\ h[e4] = f[e4]
      /\ \A x \in S \ {e4} : h[x] = g[x]
      /\ \A x \in S \ {e1, e2, e3} : f[x] = h[x]
  BY <1>0
<1> HIDE DEF h
<1>01. Changed(f, h, S, {e1, e2, e3})
  BY <1>0, <1>1 DEF Changed
<1>2. SumOver(f, S) \in Int
  BY <1>0, SumType
<1>3. SumOver(h, S) = SumOver(f, S) + (h[e1] - f[e1]) + (h[e2] - f[e2]) + (h[e3] - f[e3])
  BY <1>01, SumOfThreeChanged
<1>4. SumOver(g, S) = SumOver(h, S) - h[e4] + g[e4]
  BY <1>0, <1>1, SumChange
<1> QED  BY <1>0, <1>1, <1>2, <1>3, <1>4

\* The sum of one value only.
LEMMA SumOfOne ==
    ASSUME NEW f, NEW S, IsFiniteSet(S), NEW e \in S, f[e] \in Int,
           \A x \in S \ {e} : f[x] = 0
    PROVE  SumOver(f, S) = f[e]
<1> DEFINE T == S \ {e}
<1>1. IsFiniteSet(T)
  BY FS_Subset
<1>2. SumOver(f, T) = 0
  <2>1. \A x \in T : f[x] = 0
    OBVIOUS
  <2> HIDE DEF T
  <2> QED  BY <1>1, <2>1, SumOfZeros
<1>3. SumOver(f, S) = f[e] + SumOver(f, T)
  <2>1. \A x \in S : f[x] \in Int
    OBVIOUS
  <2> HIDE DEF T
  <2> QED  BY <2>1, SumRemove DEF T
<1> QED  BY <1>2, <1>3

LEMMA SumPlus ==
    ASSUME NEW f, NEW g, NEW h, NEW S, IsFiniteSet(S),
           \A x \in S : f[x] \in Int /\ g[x] \in Int /\ h[x] = f[x] + g[x]
    PROVE  SumOver(h, S) = SumOver(f, S) + SumOver(g, S)
<1> DEFINE good == {s \in SUBSET S : SumOver(h, s) = SumOver(f, s) + SumOver(g, s)}
<1>1. {} \in good
  BY SumOfNone
<1>2. \A s \in SUBSET S : s # {} /\ (\A x \in s : s \ {x} \in good) => s \in good
  <2> TAKE s \in SUBSET S
  <2> HAVE s # {} /\ (\A x \in s : s \ {x} \in good)
  <2> DEFINE t == s \ {Picked(s)}
  <2>1. Picked(s) \in s
    BY DEF Picked
  <2>2. /\ SumOver(f, s) = f[Picked(s)] + SumOver(f, t)
        /\ SumOver(g, s) = g[Picked(s)] + SumOver(g, t)
        /\ SumOver(h, s) = h[Picked(s)] + SumOver(h, t)
    BY FS_Subset, SumPicked
  <2>3. SumOver(h, t) = SumOver(f, t) + SumOver(g, t)
    BY <2>1
  <2>4. SumOver(f, t) \in Int /\ SumOver(g, t) \in Int
    <3>1. IsFiniteSet(t) /\ t \subseteq S
      BY FS_Subset
    <3> HIDE DEF t
    <3> QED  BY <3>1, SumType
  <2>5. f[Picked(s)] \in Int /\ g[Picked(s)] \in Int /\ h[Picked(s)] = f[Picked(s)] + g[Picked(s)]
    BY <2>1
  <2>6. SumOver(h, s) = SumOver(f, s) + SumOver(g, s)
    <3> HIDE DEF t
    <3> QED  BY <2>2, <2>3, <2>4, <2>5
  <2> QED  BY <2>6
<1>3. SUBSET S \subseteq good
  <2> HIDE DEF good
  <2> QED  BY <1>1, <1>2, SubsetInduction
<1> QED  BY <1>3

\* No negative values, no negative sum.
LEMMA SumNatural ==
    ASSUME NEW f, NEW S, IsFiniteSet(S), \A x \in S : f[x] \in Nat
    PROVE  SumOver(f, S) \in Nat
<1> DEFINE good == {s \in SUBSET S : SumOver(f, s) \in Nat}
<1>1. {} \in good
  BY SumOfNone
<1>2. \A s \in SUBSET S : s # {} /\ (\A x \in s : s \ {x} \in good) => s \in good
  <2> TAKE s \in SUBSET S
  <2> HAVE s # {} /\ (\A x \in s : s \ {x} \in good)
  <2>1. Picked(s) \in s
    BY DEF Picked
  <2>2. SumOver(f, s) = f[Picked(s)] + SumOver(f, s \ {Picked(s)})
    BY FS_Subset, SumPicked
  <2> QED  BY <2>1, <2>2
<1>3. SUBSET S \subseteq good
  <2> HIDE DEF good
  <2> QED  BY <1>1, <1>2, SubsetInduction
<1> QED  BY <1>3

\* No value is larger than the sum, and no two of them together.
LEMMA SumBounds ==
    ASSUME NEW f, NEW S, IsFiniteSet(S), \A x \in S : f[x] \in Nat, NEW e \in S
    PROVE  /\ f[e] <= SumOver(f, S)
           /\ \A d \in S \ {e} : f[e] + f[d] <= SumOver(f, S)
<1> DEFINE T == S \ {e}
<1>1. IsFiniteSet(T) /\ \A x \in T : f[x] \in Nat
  BY FS_Subset
<1>2. \A x \in S : f[x] \in Int
  OBVIOUS
<1>3. SumOver(f, S) = f[e] + SumOver(f, T)
  <2> HIDE DEF T
  <2> QED  BY <1>2, SumRemove DEF T
<1>4. SumOver(f, T) \in Nat
  <2> HIDE DEF T
  <2> QED  BY <1>1, SumNatural
<1>5. \A d \in T : f[d] <= SumOver(f, T)
  <2> TAKE d \in T
  <2> DEFINE U == T \ {d}
  <2>1. IsFiniteSet(U) /\ \A x \in U : f[x] \in Nat
    BY <1>1, FS_Subset
  <2>2. \A x \in T : f[x] \in Int
    OBVIOUS
  <2>3. SumOver(f, T) = f[d] + SumOver(f, U)
    <3> HIDE DEF T
    <3> QED  BY <1>1, <2>2, SumRemove
  <2>4. SumOver(f, U) \in Nat
    <3> HIDE DEF U
    <3> QED  BY <2>1, SumNatural
  <2>5. f[d] \in Nat
    OBVIOUS
  <2> HIDE DEF T, U
  <2> QED  BY <2>3, <2>4, <2>5
<1>6. f[e] \in Nat /\ \A d \in T : f[d] \in Nat
  OBVIOUS
<1>7. \A d \in T : f[e] + f[d] <= SumOver(f, S)
  <2> HIDE DEF T
  <2> QED  BY <1>3, <1>4, <1>5, <1>6
<1> QED  BY <1>3, <1>4, <1>6, <1>7

\* Zeros add nothing.
LEMMA SumWider ==
    ASSUME NEW f, NEW S, IsFiniteSet(S), \A x \in S : f[x] \in Int,
           NEW T \in SUBSET S, \A x \in S \ T : f[x] = 0
    PROVE  SumOver(f, T) = SumOver(f, S)
<1> DEFINE good == {s \in SUBSET S : SumOver(f, s \cap T) = SumOver(f, s)}
<1>1. {} \in good
  <2>1. {} \cap T = {}
    OBVIOUS
  <2> QED  BY <2>1
<1>2. \A s \in SUBSET S : s # {} /\ (\A x \in s : s \ {x} \in good) => s \in good
  <2> TAKE s \in SUBSET S
  <2> HAVE s # {} /\ (\A x \in s : s \ {x} \in good)
  <2> DEFINE e == Picked(s)
             rest == s \ {e}
  <2>1. e \in s
    BY DEF Picked
  <2>2. SumOver(f, s) = f[e] + SumOver(f, rest)
    BY FS_Subset, SumPicked
  <2>3. SumOver(f, rest \cap T) = SumOver(f, rest)
    BY <2>1
  <2>4. SumOver(f, rest) \in Int /\ f[e] \in Int
    <3>1. IsFiniteSet(rest) /\ rest \subseteq S
      BY FS_Subset
    <3>2. f[e] \in Int
      BY <2>1
    <3> HIDE DEF rest, e
    <3> QED  BY <3>1, <3>2, SumType
  <2>5. CASE e \in T
    <3> DEFINE U == s \cap T
    <3>1. IsFiniteSet(U) /\ U \subseteq S /\ e \in U /\ U \ {e} = rest \cap T
      BY <2>1, <2>5, FS_Subset
    <3>2. SumOver(f, U) = f[e] + SumOver(f, U \ {e})
      <4> HIDE DEF U, e
      <4> QED  BY <3>1, SumRemove
    <3> QED  BY <2>2, <2>3, <3>1, <3>2
  <2>6. CASE e \notin T
    <3>1. s \cap T = rest \cap T /\ f[e] = 0
      BY <2>1, <2>6
    <3>2. SumOver(f, s) = SumOver(f, rest \cap T)
      <4> HIDE DEF rest, e
      <4> QED  BY <2>2, <2>3, <2>4, <3>1
    <3> QED  BY <3>1, <3>2
  <2> QED  BY <2>5, <2>6
<1>3. SUBSET S \subseteq good
  <2> HIDE DEF good
  <2> QED  BY <1>1, <1>2, SubsetInduction
<1>4. S \in good /\ S \cap T = T
  BY <1>3
<1> QED  BY <1>4

\* Things counted by the name they bear: the counts of all names add up to the
\* number of things named.
Naming(I, who, S) == {i \in I : who[i] \in S}

LEMMA SumOfCounts ==
    ASSUME NEW I, IsFiniteSet(I), NEW who, NEW S, IsFiniteSet(S), NEW count,
           \A x \in S : count[x] = Cardinality(Naming(I, who, {x}))
    PROVE  SumOver(count, S) = Cardinality(Naming(I, who, S))
<1> DEFINE good == {T \in SUBSET S : SumOver(count, T) = Cardinality(Naming(I, who, T))}
<1>1. \A T \in SUBSET S :
          IsFiniteSet(Naming(I, who, T)) /\ Cardinality(Naming(I, who, T)) \in Nat
  BY FS_Subset, FS_CardinalityType DEF Naming
<1>2. {} \in good
  <2>1. Naming(I, who, {}) = {}
    BY DEF Naming
  <2> QED
    BY <2>1, SumOfNone, FS_EmptySet
<1>3. \A T \in SUBSET S : T # {} /\ (\A x \in T : T \ {x} \in good) => T \in good
  <2> SUFFICES ASSUME NEW T \in SUBSET S, T # {}, \A x \in T : T \ {x} \in good
               PROVE  SumOver(count, T) = Cardinality(Naming(I, who, T))
    OBVIOUS
  <2>1. PICK e \in T : TRUE
    OBVIOUS
  <2> DEFINE rest == T \ {e}
  <2>2. SumOver(count, rest) = Cardinality(Naming(I, who, rest))
    BY <2>1
  <2>3. IsFiniteSet(T) /\ rest \in SUBSET S /\ {e} \in SUBSET S
    BY FS_Subset
  <2>4. \A x \in T : count[x] \in Int
    <3> SUFFICES ASSUME NEW x \in T  PROVE count[x] \in Int
      OBVIOUS
    <3>1. {x} \in SUBSET S /\ count[x] = Cardinality(Naming(I, who, {x}))
      OBVIOUS
    <3>2. Cardinality(Naming(I, who, {x})) \in Nat
      BY <1>1, <3>1
    <3> QED
      BY <3>1, <3>2
  <2>5. SumOver(count, T) = count[e] + SumOver(count, rest)
    BY <2>1, <2>3, <2>4, SumRemove
  <2>6. /\ Naming(I, who, T) = Naming(I, who, {e}) \cup Naming(I, who, rest)
        /\ Naming(I, who, {e}) \cap Naming(I, who, rest) = {}
    BY <2>1 DEF Naming
  <2> HIDE DEF rest
  <2>7. Cardinality(Naming(I, who, T))
            = Cardinality(Naming(I, who, {e})) + Cardinality(Naming(I, who, rest)) - Cardinality({})
    <3> DEFINE one == Naming(I, who, {e})
               others == Naming(I, who, rest)
    <3>1. IsFiniteSet(one) /\ IsFiniteSet(others)
      BY <1>1, <2>3
    <3>2. Naming(I, who, T) = one \cup others /\ one \cap others = {}
      BY <2>6
    <3> HIDE DEF one, others
    <3>3. Cardinality(one \cup others) = Cardinality(one) + Cardinality(others) - Cardinality(one \cap others)
      BY <3>1, FS_Union
    <3>4. Cardinality(Naming(I, who, T)) = Cardinality(one) + Cardinality(others) - Cardinality({})
      BY <3>2, <3>3
    <3> QED
      BY <3>4 DEF one, others
  <2>8. Cardinality({}) = 0
    BY FS_EmptySet
  <2>9. /\ count[e] = Cardinality(Naming(I, who, {e}))
        /\ Cardinality(Naming(I, who, {e})) \in Nat /\ Cardinality(Naming(I, who, rest)) \in Nat
    BY <1>1, <2>1, <2>3
  <2> QED
    BY <2>2, <2>5, <2>7, <2>8, <2>9
<1>4. SUBSET S \subseteq good
  <2> HIDE DEF good
  <2> QED
    BY <1>2, <1>3, SubsetInduction
<1> QED
  BY <1>4

\* Ones at most add up to the number of elements at most.
LEMMA SumAtMost ==
    ASSUME NEW f, NEW S, IsFiniteSet(S), \A x \in S : f[x] \in Int /\ f[x] <= 1
    PROVE  SumOver(f, S) <= Cardinality(S)
<1> DEFINE good == {T \in SUBSET S : SumOver(f, T) <= Cardinality(T)}
<1>1. {} \in good
  BY SumOfNone, FS_EmptySet
<1>2. \A T \in SUBSET S : T # {} /\ (\A x \in T : T \ {x} \in good) => T \in good
  <2> SUFFICES ASSUME NEW T \in SUBSET S, T # {}, \A x \in T : T \ {x} \in good
               PROVE  SumOver(f, T) <= Cardinality(T)
    OBVIOUS
  <2>1. PICK e \in T : TRUE
    OBVIOUS
  <2> DEFINE rest == T \ {e}
  <2>2. SumOver(f, rest) <= Cardinality(rest)
    BY <2>1
  <2>3. IsFiniteSet(T) /\ \A x \in T : f[x] \in Int
    BY FS_Subset
  <2>4. SumOver(f, T) = f[e] + SumOver(f, rest)
    BY <2>1, <2>3, SumRemove
  <2>5. IsFiniteSet(rest) /\ Cardinality(rest) = Cardinality(T) - 1
    BY <2>1, <2>3, FS_RemoveElement
  <2>6. Cardinality(T) \in Nat
    BY <2>3, FS_CardinalityType
  <2>7. \A x \in rest : f[x] \in Int
    BY <2>3
  <2> HIDE DEF rest
  <2>8. SumOver(f, rest) \in Int
    BY <2>5, <2>7, SumType
  <2>9. f[e] \in Int /\ f[e] <= 1
    BY <2>1
  <2> QED
    BY <2>2, <2>4, <2>5, <2>6, <2>8, <2>9
<1>3. SUBSET S \subseteq good
  <2> HIDE DEF good
  <2> QED
    BY <1>1, <1>2, SubsetInduction
<1> QED
  BY <1>3

-----------------------------------------------------------------------------
\* One of finitely many numbers is the greatest.
LEMMA GreatestExists ==
    ASSUME NEW f, NEW S, IsFiniteSet(S), S # {}, \A x \in S : f[x] \in Int
    PROVE  \E m \in S : \A x \in S : f[x] <= f[m]
<1> DEFINE good == {T \in SUBSET S : T # {} => \E m \in T : \A x \in T : f[x] <= f[m]}
<1>1. {} \in good
  OBVIOUS
<1>2. \A T \in SUBSET S : T # {} /\ (\A x \in T : T \ {x} \in good) => T \in good
  <2> SUFFICES ASSUME NEW T \in SUBSET S, T # {}, \A x \in T : T \ {x} \in good
               PROVE  \E m \in T : \A x \in T : f[x] <= f[m]
    OBVIOUS
  <2>1. PICK e \in T : TRUE
    OBVIOUS
  <2>2. CASE T \ {e} = {}
    BY <2>1, <2>2
  <2>3. CASE T \ {e} # {}
    <3>1. PICK m \in T \ {e} : \A x \in T \ {e} : f[x] <= f[m]
      BY <2>1, <2>3
    <3>2. CASE f[e] <= f[m]
      BY <3>1, <3>2
    <3>3. CASE ~(f[e] <= f[m])
      <4>1. \A x \in T \ {e} : f[x] \in Int /\ f[x] <= f[m]
        BY <3>1
      <4>2. f[e] \in Int /\ f[m] \in Int
        BY <2>1, <3>1
      <4>3. \A x \in T : f[x] <= f[e]
        BY <3>3, <4>1, <4>2
      <4> QED
        BY <2>1, <4>3
    <3> QED
      BY <3>2, <3>3
  <2> QED
    BY <2>2, <2>3
<1>3. SUBSET S \subseteq good
  <2> HIDE DEF good
  <2> QED
    BY <1>1, <1>2, SubsetInduction
<1>4. S \in good
  BY <1>3
<1> QED
  BY <1>4

\* A set of natural numbers has a least element.
LEMMA MinIsIn ==
    ASSUME NEW S \in SUBSET Nat, S # {}
    PROVE  Min(S) \in S /\ \A x \in S : Min(S) <= x
<1>1. PICK x \in S : \A y \in S : ~(<<y, x>> \in OpToRel(<, Nat))
  BY NatLessThanWellFounded, WFMin
<1>2. ASSUME NEW y \in S PROVE x <= y
  <2>1. x \in Nat /\ y \in Nat /\ <<y, x>> \in Nat \X Nat
    OBVIOUS
  <2>2. ~(y < x)
    BY <1>1, <2>1 DEF OpToRel
  <2> QED
    BY <2>1, <2>2
<1> QED
  BY <1>2 DEF Min

LEMMA MinOfTwo ==
    ASSUME NEW x \in Nat, NEW y \in Nat
    PROVE  Min({x, y}) = IF x < y THEN x ELSE y
<1> DEFINE S == {x, y}
<1>1. S \in SUBSET Nat /\ S # {} /\ \A z \in S : z = x \/ z = y
  OBVIOUS
<1>2. Min(S) \in S /\ \A z \in S : Min(S) <= z
  <2> HIDE DEF S
  <2> QED  BY <1>1, MinIsIn
<1>3. x \in S /\ y \in S
  OBVIOUS
<1> HIDE DEF S
<1>4. Min(S) = IF x < y THEN x ELSE y
  <2> DEFINE m == Min(S)
  <2>1. (m = x \/ m = y) /\ m <= x /\ m <= y
    BY <1>1, <1>2, <1>3
  <2> HIDE DEF m
  <2>2. m = IF x < y THEN x ELSE y
    BY <2>1
  <2> QED  BY <2>2 DEF m
<1> QED  BY <1>4 DEF S

\* A finite set of numbers has a greatest one.
LEMMA MaxIsIn ==
    ASSUME NEW S \in SUBSET Nat, IsFiniteSet(S), S # {}
    PROVE  Max(S) \in S /\ \A x \in S : x <= Max(S)
<1> DEFINE f == [x \in S |-> x]
<1>1. \A x \in S : f[x] \in Int
  OBVIOUS
<1>2. PICK m \in S : \A x \in S : f[x] <= f[m]
  <2> HIDE DEF f
  <2> QED  BY <1>1, GreatestExists
<1>3. \A x \in S : m >= x
  BY <1>2
<1> QED  BY <1>3 DEF Max

-----------------------------------------------------------------------------
(* Sorting.  A finite set can be sorted: the last of a set, by induction   *)
(* on the set, and then the sorted sequence, which ends in it.             *)

Strict(ahead, S) ==
    /\ \A x, y \in S : x # y => (<<x, y>> \in ahead <=> <<y, x>> \notin ahead)
    /\ \A x, y, z \in S : <<x, y>> \in ahead /\ <<y, z>> \in ahead => <<x, z>> \in ahead
Sorted(s, ahead) == \A i, j \in DOMAIN s : i < j => <<s[i], s[j]>> \in ahead

LEMMA LastExists ==
    ASSUME NEW S, IsFiniteSet(S), S # {}, NEW ahead, Strict(ahead, S)
    PROVE  \E m \in S : \A x \in S \ {m} : <<x, m>> \in ahead
<1> DEFINE good == {T \in SUBSET S : T # {} => \E m \in T : \A x \in T \ {m} : <<x, m>> \in ahead}
<1>1. {} \in good
  OBVIOUS
<1>2. \A T \in SUBSET S : T # {} /\ (\A x \in T : T \ {x} \in good) => T \in good
  <2> SUFFICES ASSUME NEW T \in SUBSET S, T # {}, \A x \in T : T \ {x} \in good
               PROVE  \E m \in T : \A x \in T \ {m} : <<x, m>> \in ahead
    OBVIOUS
  <2>1. PICK y \in T : TRUE
    OBVIOUS
  <2>2. CASE T \ {y} = {}
    BY <2>2
  <2>3. CASE T \ {y} # {}
    <3>1. PICK m \in T \ {y} : \A x \in (T \ {y}) \ {m} : <<x, m>> \in ahead
      BY <2>3
    <3>2. CASE <<y, m>> \in ahead
      BY <3>1, <3>2
    <3>3. CASE <<y, m>> \notin ahead
      <4>1. <<m, y>> \in ahead
        BY <3>1, <3>3 DEF Strict
      <4>2. \A x \in T \ {y} : <<x, y>> \in ahead
        BY <3>1, <4>1 DEF Strict
      <4> QED
        BY <4>2
    <3> QED
      BY <3>2, <3>3
  <2> QED
    BY <2>2, <2>3
<1> HIDE DEF good
<1>3. SUBSET S \subseteq good
  BY <1>1, <1>2, SubsetInduction
<1> QED
  BY <1>3 DEF good

LEMMA SortExists ==
    ASSUME NEW S, IsFiniteSet(S), NEW ahead, Strict(ahead, S)
    PROVE  \E s \in [1 .. Cardinality(S) -> S] : Sorted(s, ahead)
<1> DEFINE good == {T \in SUBSET S : \E s \in [1 .. Cardinality(T) -> T] : Sorted(s, ahead)}
<1>1. {} \in good
  <2>1. Cardinality({}) = 0 /\ 1 .. 0 = {}
    BY FS_EmptySet
  <2>2. <<>> \in [1 .. 0 -> {}] /\ Sorted(<<>>, ahead)
    BY DEF Sorted
  <2> QED
    BY <2>1, <2>2
<1>2. \A T \in SUBSET S : T # {} /\ (\A x \in T : T \ {x} \in good) => T \in good
  <2> SUFFICES ASSUME NEW T \in SUBSET S, T # {}, \A x \in T : T \ {x} \in good
               PROVE  \E s \in [1 .. Cardinality(T) -> T] : Sorted(s, ahead)
    OBVIOUS
  <2>1. IsFiniteSet(T) /\ Cardinality(T) \in Nat
    BY FS_Subset, FS_CardinalityType
  <2>2. PICK m \in T : \A x \in T \ {m} : <<x, m>> \in ahead
    <3>1. Strict(ahead, T)
      BY DEF Strict
    <3> QED
      BY <2>1, <3>1, LastExists
  <2> DEFINE n == Cardinality(T)
  <2>3. Cardinality(T \ {m}) = n - 1
    BY <2>1, <2>2, FS_RemoveElement
  <2>4. PICK s \in [1 .. n - 1 -> T \ {m}] : Sorted(s, ahead)
    BY <2>2, <2>3
  <2> HIDE DEF n
  <2> DEFINE t == [i \in 1 .. n |-> IF i = n THEN m ELSE s[i]]
  <2>5. n \in Nat /\ \A i \in 1 .. n : i # n => i \in 1 .. n - 1
    BY <2>1 DEF n
  <2>6. t \in [1 .. n -> T]
    BY <2>4, <2>5
  <2>7. Sorted(t, ahead)
    <3> SUFFICES ASSUME NEW i \in 1 .. n, NEW j \in 1 .. n, i < j
                 PROVE  <<t[i], t[j]>> \in ahead
      BY DEF Sorted
    <3>1. i \in 1 .. n - 1 /\ t[i] = s[i] /\ s[i] \in T \ {m}
      BY <2>4, <2>5
    <3>2. CASE j = n
      BY <2>2, <3>1, <3>2
    <3>3. CASE j # n
      <4>1. j \in 1 .. n - 1 /\ t[j] = s[j]
        BY <2>5, <3>3
      <4> QED
        BY <2>4, <3>1, <4>1 DEF Sorted
    <3> QED
      BY <3>2, <3>3
  <2> QED
    BY <2>6, <2>7 DEF n
<1> HIDE DEF good
<1>3. SUBSET S \subseteq good
  BY <1>1, <1>2, SubsetInduction
<1> QED
  BY <1>3 DEF good

\* A sorted sequence of as many elements lists each once.
LEMMA SortedBijection ==
    ASSUME NEW S, IsFiniteSet(S), NEW ahead, \A x \in S : <<x, x>> \notin ahead,
           NEW s \in [1 .. Cardinality(S) -> S], Sorted(s, ahead)
    PROVE  s \in Bijection(1 .. Cardinality(S), S)
<1> DEFINE n == Cardinality(S)
           first == 1 .. n
<1>1. n \in Nat
  BY FS_CardinalityType
<1>2. IsFiniteSet(first) /\ Cardinality(first) = n
  <2>1. 1 \in Int /\ n \in Int /\ (1 > n => n = 0) /\ n - 1 + 1 = n
    BY <1>1
  <2> HIDE DEF n
  <2> QED  BY <2>1, FS_Interval
<1>3. \A i, j \in first : s[i] = s[j] => i = j
  <2>1. \A i, j \in first : i < j => s[i] # s[j]
    BY DEF Sorted
  <2>2. \A i, j \in first : i # j => i < j \/ j < i
    BY <1>1
  <2> QED  BY <2>1, <2>2
<1>4. s \in [first -> S]
  OBVIOUS
<1> HIDE DEF n, first
<1>5. s \in Injection(first, S)
  BY <1>3, <1>4 DEF Injection, IsInjective
<1>6. s \in Surjection(first, S)
  BY <1>2, <1>5, FS_Injection DEF n
<1> QED
  BY <1>5, <1>6 DEF Bijection, first, n

\* Induction over the numbers, as a statement about sets.
LEMMA NumberInduction ==
    ASSUME NEW good, 0 \in good, \A n \in Nat : n \in good => n + 1 \in good
    PROVE  \A n \in Nat : n \in good
<1> SUFFICES ASSUME Nat \ good # {}  PROVE FALSE
  OBVIOUS
<1>1. PICK m \in Nat \ good : \A n \in Nat \ good : m <= n
  <2>1. Nat \ good \in SUBSET Nat
    OBVIOUS
  <2> QED  BY <2>1, MinIsIn
<1>2. m # 0 /\ m - 1 \in Nat
  BY <1>1
<1>3. m - 1 \in good
  BY <1>1, <1>2
<1>4. (m - 1) + 1 = m
  BY <1>1
<1> QED  BY <1>1, <1>2, <1>3, <1>4

\* A sum over numbers in order, from its end.
LEMMA SumToNext ==
    ASSUME NEW a \in Int, NEW b \in Int, a <= b, NEW f, \A i \in a..b : f[i] \in Int
    PROVE  SumOver(f, a..b) = SumOver(f, a..b - 1) + f[b]
<1>1. a..b = (a..b - 1) \cup {b} /\ b \notin a..b - 1 /\ b \in a..b
  OBVIOUS
<1>2. IsFiniteSet(a..b - 1) /\ \A i \in a..b - 1 : f[i] \in Int
  <2>1. b - 1 \in Int
    OBVIOUS
  <2> QED  BY <2>1, FS_Interval
<1>3. SumOver(f, a..b - 1) \in Int
  BY <1>2, SumType
<1>4. SumOver(f, a..b) = f[b] + SumOver(f, a..b - 1)
  BY <1>1, <1>2, SumInsert
<1> QED  BY <1>1, <1>3, <1>4

UpTo(f, j) == SumOver(f, 1..j)

LEMMA UpToNext ==
    ASSUME NEW k \in Nat, NEW f, \A i \in 1..k : f[i] \in Int
    PROVE  /\ UpTo(f, 0) = 0
           /\ \A j \in 1..k : UpTo(f, j) = UpTo(f, j - 1) + f[j]
           /\ \A j \in 0..k : UpTo(f, j) \in Int
<1>1. UpTo(f, 0) = 0
  <2>1. 1..0 = {}
    OBVIOUS
  <2> QED  BY <2>1, SumOfNone DEF UpTo
<1>2. ASSUME NEW j \in 1..k PROVE UpTo(f, j) = UpTo(f, j - 1) + f[j]
  <2>1. 1 \in Int /\ j \in Int /\ 1 <= j /\ \A i \in 1..j : f[i] \in Int
    OBVIOUS
  <2> QED  BY <2>1, SumToNext DEF UpTo
<1>3. ASSUME NEW j \in 0..k PROVE UpTo(f, j) \in Int
  <2>1. IsFiniteSet(1..j) /\ \A i \in 1..j : f[i] \in Int
    BY FS_Interval
  <2> QED  BY <2>1, SumType DEF UpTo
<1> QED  BY <1>1, <1>2, <1>3

LEMMA UpToGrows ==
    ASSUME NEW k \in Nat, NEW f, \A i \in 1..k : f[i] \in Nat
    PROVE  \A j \in 0..k : UpTo(f, j) \in Nat /\ \A i \in 0..j : UpTo(f, i) <= UpTo(f, j)
<1> DEFINE grows(j) == UpTo(f, j) \in Nat /\ \A i \in 0..j : UpTo(f, i) <= UpTo(f, j)
           good == {j \in Nat : j <= k => grows(j)}
<1>1. /\ UpTo(f, 0) = 0
      /\ \A j \in 1..k : UpTo(f, j) = UpTo(f, j - 1) + f[j]
      /\ \A j \in 0..k : UpTo(f, j) \in Int
  <2>1. \A i \in 1..k : f[i] \in Int
    OBVIOUS
  <2> QED  BY <2>1, UpToNext
<1>2. 0 \in good
  <2>1. \A i \in 0..0 : i = 0
    OBVIOUS
  <2>2. grows(0)
    BY <1>1, <2>1
  <2> QED  BY <2>2
<1>3. ASSUME NEW j \in Nat, j \in good PROVE j + 1 \in good
  <2> SUFFICES ASSUME j + 1 <= k  PROVE grows(j + 1)
    OBVIOUS
  <2>1. j + 1 \in 1..k /\ (j + 1) - 1 = j /\ j <= k
    OBVIOUS
  <2>2. UpTo(f, j + 1) = UpTo(f, j) + f[j + 1] /\ f[j + 1] \in Nat
    BY <1>1, <2>1
  <2>3. UpTo(f, j) \in Nat /\ \A i \in 0..j : UpTo(f, i) <= UpTo(f, j)
    BY <1>3, <2>1
  <2>4. \A i \in 0..j + 1 : UpTo(f, i) <= UpTo(f, j + 1)
    <3> TAKE i \in 0..j + 1
    <3>1. CASE i = j + 1
      BY <2>2, <2>3, <3>1
    <3>2. CASE i \in 0..j
      <4>1. UpTo(f, i) <= UpTo(f, j) /\ UpTo(f, i) \in Int
        BY <1>1, <2>3, <3>2
      <4> QED  BY <2>2, <2>3, <4>1
    <3> QED  BY <3>1, <3>2
  <2> QED  BY <2>2, <2>3, <2>4
<1>4. \A j \in Nat : j \in good
  <2> HIDE DEF good
  <2> QED  BY <1>2, <1>3, NumberInduction
<1> HIDE DEF grows
<1>5. \A j \in 0..k : grows(j)
  BY <1>4
<1> QED  BY <1>5 DEF grows

(***************************************************************************)
(* Pascal's triangle, up to a row.                                         *)
(***************************************************************************)
Triangle(c, N) ==
    /\ \A n \in 0..N : \A k \in Nat : c[n][k] \in Nat
    /\ \A n \in 0..N : c[n][0] = 1
    /\ \A k \in Nat : k > 0 => c[0][k] = 0
    /\ \A n \in 1..N : \A k \in Nat : k > 0 => c[n][k] = c[n - 1][k - 1] + c[n - 1][k]

LEMMA TriangleExists == \A N \in Nat : \E c : Triangle(c, N)
<1> DEFINE good == {N \in Nat : \E c : Triangle(c, N)}
<1>1. 0 \in good
  <2> DEFINE c == [n \in {0} |-> [k \in Nat |-> IF k = 0 THEN 1 ELSE 0]]
  <2>1. 0..0 = {0} /\ 1..0 = {}
    OBVIOUS
  <2>2. Triangle(c, 0)
    BY <2>1 DEF Triangle
  <2> QED  BY <2>2
<1>2. ASSUME NEW N \in Nat, N \in good PROVE N + 1 \in good
  <2>1. PICK c : Triangle(c, N)
    BY <1>2
  <2> DEFINE row == [k \in Nat |-> IF k = 0 THEN 1 ELSE c[N][k - 1] + c[N][k]]
             d == [n \in 0..N + 1 |-> IF n = N + 1 THEN row ELSE c[n]]
  <2>2. \A n \in 0..N : d[n] = c[n]
    OBVIOUS
  <2>3. d[N + 1] = row /\ N \in 0..N /\ N + 1 # 0
    OBVIOUS
  <2>4. \A n \in 0..N + 1 : n = N + 1 \/ n \in 0..N
    OBVIOUS
  <2>5. row[0] = 1 /\ \A k \in Nat : k > 0 => row[k] = c[N][k - 1] + c[N][k] /\ k - 1 \in Nat
    OBVIOUS
  <2>6. \A k \in Nat : row[k] \in Nat
    BY <2>1, <2>3, <2>5 DEF Triangle
  <2>7. 0 \in 0..N
    OBVIOUS
  <2>8. \A n \in 1..N + 1 : \/ n = N + 1 /\ n - 1 = N
                            \/ n \in 1..N /\ n \in 0..N /\ n - 1 \in 0..N
    OBVIOUS
  <2> HIDE DEF d, row
  <2>9. \A n \in 0..N + 1 : \A k \in Nat : d[n][k] \in Nat
    BY <2>1, <2>2, <2>3, <2>4, <2>6 DEF Triangle
  <2>10. \A n \in 0..N + 1 : d[n][0] = 1
    BY <2>1, <2>2, <2>3, <2>4, <2>5 DEF Triangle
  <2>11. \A k \in Nat : k > 0 => d[0][k] = 0
    BY <2>1, <2>2, <2>7 DEF Triangle
  <2>12. \A n \in 1..N + 1 : \A k \in Nat : k > 0 => d[n][k] = d[n - 1][k - 1] + d[n - 1][k]
    <3> TAKE n \in 1..N + 1
    <3>1. CASE n = N + 1
      BY <3>1, <2>2, <2>3, <2>5, <2>8
    <3>2. CASE n \in 1..N
      <4>1. d[n] = c[n] /\ d[n - 1] = c[n - 1]
        BY <3>2, <2>2
      <4> QED  BY <3>2, <4>1, <2>1 DEF Triangle
    <3> QED  BY <3>1, <3>2
  <2>13. Triangle(d, N + 1)
    BY <2>9, <2>10, <2>11, <2>12 DEF Triangle
  <2> QED  BY <2>13
<1> HIDE DEF good
<1>3. \A n \in Nat : n \in good
  BY <1>1, <1>2, NumberInduction
<1> QED  BY <1>3 DEF good

\* Nothing lies beyond the last entry of a row.
LEMMA RowEnds ==
    ASSUME NEW N \in Nat, NEW c, Triangle(c, N)
    PROVE  \A n \in 0..N : c[n][n] = 1 /\ \A k \in Nat : k > n => c[n][k] = 0
<1> DEFINE ends(n) == c[n][n] = 1 /\ \A k \in Nat : k > n => c[n][k] = 0
           good == {n \in Nat : n <= N => ends(n)}
<1>1. 0 \in good
  BY DEF Triangle
<1>2. ASSUME NEW n \in Nat, n \in good PROVE n + 1 \in good
  <2> SUFFICES ASSUME n + 1 <= N  PROVE ends(n + 1)
    OBVIOUS
  <2>1. n + 1 \in 1..N /\ (n + 1) - 1 = n /\ n + 1 \in Nat /\ n <= N
    OBVIOUS
  <2>2. \A k \in Nat : k > 0 => c[n + 1][k] = c[n][k - 1] + c[n][k]
    BY <2>1 DEF Triangle
  <2>3. c[n][n] = 1 /\ \A k \in Nat : k > n => c[n][k] = 0
    BY <1>2, <2>1
  <2>4. c[n + 1][n + 1] = c[n][n] + c[n][n + 1]
    BY <2>1, <2>2
  <2>5. ASSUME NEW k \in Nat, k > n + 1 PROVE c[n + 1][k] = 0
    <3>1. k > 0 /\ k - 1 \in Nat /\ k - 1 > n /\ k > n
      BY <2>5
    <3> QED  BY <2>2, <2>3, <3>1
  <2>6. c[n + 1][n + 1] = 1
    BY <2>1, <2>3, <2>4
  <2> QED  BY <2>5, <2>6
<1> HIDE DEF good
<1>3. \A n \in Nat : n \in good
  BY <1>1, <1>2, NumberInduction
<1> QED  BY <1>3 DEF good

\* An entry from the one before it in its row.
LEMMA RowGoesOn ==
    ASSUME NEW N \in Nat, NEW c, Triangle(c, N)
    PROVE  \A n \in 0..N : \A k \in Nat : k > 0 => k * c[n][k] = (n - k + 1) * c[n][k - 1]
<1> DEFINE goes(n) == \A k \in Nat : k > 0 => k * c[n][k] = (n - k + 1) * c[n][k - 1]
           good == {n \in Nat : n <= N => goes(n)}
<1>1. 0 \in good
  <2> SUFFICES ASSUME NEW k \in Nat, k > 0  PROVE k * c[0][k] = (0 - k + 1) * c[0][k - 1]
    OBVIOUS
  <2>1. c[0][k] = 0 /\ c[0][0] = 1
    BY DEF Triangle
  <2>2. CASE k = 1
    BY <2>1, <2>2
  <2>3. CASE k > 1
    <3>1. c[0][k - 1] = 0
      BY <2>3 DEF Triangle
    <3> QED  BY <2>1, <3>1
  <2> QED  BY <2>2, <2>3
<1>2. ASSUME NEW n \in Nat, n \in good PROVE n + 1 \in good
  <2> SUFFICES ASSUME n + 1 <= N, NEW k \in Nat, k > 0
               PROVE  k * c[n + 1][k] = ((n + 1) - k + 1) * c[n + 1][k - 1]
    OBVIOUS
  <2>1. n + 1 \in 1..N /\ (n + 1) - 1 = n /\ n + 1 \in 0..N /\ n \in 0..N /\ n <= N
    OBVIOUS
  <2>2. \A j \in Nat : j > 0 => c[n + 1][j] = c[n][j - 1] + c[n][j]
    BY <2>1 DEF Triangle
  <2>3. \A j \in Nat : j > 0 => j * c[n][j] = (n - j + 1) * c[n][j - 1]
    BY <1>2, <2>1
  <2>4. \A j \in Nat : c[n][j] \in Nat
    BY <2>1 DEF Triangle
  <2>5. c[n][0] = 1 /\ c[n + 1][0] = 1
    BY <2>1 DEF Triangle
  <2>6. CASE k = 1
    <3>1. 1 * c[n][1] = (n - 1 + 1) * c[n][1 - 1]
      BY <2>3
    <3>2. c[n + 1][1] = c[n][1 - 1] + c[n][1]
      BY <2>2
    <3>3. 1 - 1 = 0 /\ c[n][1] \in Nat /\ 1 * c[n][1] = c[n][1] /\ (n - 1 + 1) * 1 = n
      BY <2>4
    <3>4. c[n + 1][1] = n + 1
      BY <3>1, <3>2, <3>3, <2>5
    <3> QED  BY <2>5, <2>6, <3>4
  <2>7. CASE k > 1
    <3> DEFINE x == c[n][k - 2]
               y == c[n][k - 1]
               z == c[n][k]
    <3>1. x \in Nat /\ y \in Nat /\ z \in Nat
      BY <2>4, <2>7
    <3>2. k * z = (n - k + 1) * y
      BY <2>3
    <3>3. (k - 1) * y = (n - k + 2) * x
      <4>1. k - 1 \in Nat /\ k - 1 > 0 /\ (k - 1) - 1 = k - 2 /\ n - (k - 1) + 1 = n - k + 2
        BY <2>7
      <4> QED  BY <2>3, <4>1
    <3>4. c[n + 1][k] = y + z
      BY <2>2
    <3>5. c[n + 1][k - 1] = x + y
      <4>1. k - 1 \in Nat /\ k - 1 > 0 /\ (k - 1) - 1 = k - 2
        BY <2>7
      <4> QED  BY <2>2, <4>1
    <3> HIDE DEF x, y, z
    <3>6. k * (y + z) = k * y + (n - k + 1) * y
      BY <3>1, <3>2
    <3>7. (n - k + 2) * (x + y) = (k - 1) * y + (n - k + 2) * y
      <4>1. \A a \in Int : a * (x + y) = a * x + a * y
        BY <3>1
      <4>2. n - k + 2 \in Int
        OBVIOUS
      <4> QED  BY <3>3, <4>1, <4>2
    <3>8. k * y + (n - k + 1) * y = (k - 1) * y + (n - k + 2) * y
      <4>1. \A a, b \in Int : a * y + b * y = (a + b) * y
        BY <3>1
      <4>2. k \in Int /\ n - k + 1 \in Int /\ k - 1 \in Int /\ n - k + 2 \in Int
            /\ k + (n - k + 1) = (k - 1) + (n - k + 2)
        OBVIOUS
      <4> QED  BY <4>1, <4>2
    <3>9. (n + 1) - k + 1 = n - k + 2
      OBVIOUS
    <3> QED  BY <3>4, <3>5, <3>6, <3>7, <3>8, <3>9
  <2> QED  BY <2>6, <2>7
<1> HIDE DEF good
<1>3. \A n \in Nat : n \in good
  BY <1>1, <1>2, NumberInduction
<1> QED  BY <1>3 DEF good

\* A row reads the same from both ends.
LEMMA RowIsEven ==
    ASSUME NEW N \in Nat, NEW c, Triangle(c, N)
    PROVE  \A n \in 0..N : \A k \in 0..n : c[n][k] = c[n][n - k]
<1> DEFINE even(n) == \A k \in 0..n : c[n][k] = c[n][n - k]
           good == {n \in Nat : n <= N => even(n)}
<1>1. 0 \in good
  <2>1. \A k \in 0..0 : k = 0
    OBVIOUS
  <2>2. 0 - 0 = 0
    OBVIOUS
  <2> QED  BY <2>1, <2>2
<1>2. ASSUME NEW n \in Nat, n \in good PROVE n + 1 \in good
  <2> SUFFICES ASSUME n + 1 <= N, NEW k \in 0..n + 1
               PROVE  c[n + 1][k] = c[n + 1][(n + 1) - k]
    OBVIOUS
  <2>1. n + 1 \in 1..N /\ (n + 1) - 1 = n /\ n + 1 \in 0..N /\ n \in 0..N /\ n <= N
    OBVIOUS
  <2>2. \A j \in Nat : j > 0 => c[n + 1][j] = c[n][j - 1] + c[n][j]
    BY <2>1 DEF Triangle
  <2>3. \A j \in 0..n : c[n][j] = c[n][n - j]
    BY <1>2, <2>1
  <2>4. \A j \in Nat : c[n][j] \in Nat
    BY <2>1 DEF Triangle
  <2>5. c[n + 1][0] = 1 /\ c[n + 1][n + 1] = 1
    <3>1. c[n + 1][0] = 1
      BY <2>1 DEF Triangle
    <3>2. c[n + 1][n + 1] = 1
      BY <2>1, RowEnds
    <3> QED  BY <3>1, <3>2
  <2>6. CASE k = 0 \/ k = n + 1
    BY <2>5, <2>6
  <2>7. CASE k \in 1..n
    <3> DEFINE j == (n + 1) - k
    <3>1. /\ k \in Nat /\ k > 0 /\ j \in Nat /\ j > 0 /\ k - 1 \in 0..n /\ k \in 0..n
          /\ n - (k - 1) = j /\ n - k = j - 1
      BY <2>7
    <3> HIDE DEF j
    <3>2. c[n + 1][k] = c[n][k - 1] + c[n][k] /\ c[n + 1][j] = c[n][j - 1] + c[n][j]
      BY <2>2, <3>1
    <3>3. c[n][k - 1] = c[n][j] /\ c[n][k] = c[n][j - 1]
      BY <2>3, <3>1
    <3>4. c[n][j] \in Nat /\ c[n][j - 1] \in Nat
      BY <2>4, <3>1
    <3>5. c[n + 1][k] = c[n + 1][j]
      BY <3>2, <3>3, <3>4
    <3> QED  BY <3>5 DEF j
  <2> QED  BY <2>6, <2>7
<1> HIDE DEF good
<1>3. \A n \in Nat : n \in good
  BY <1>1, <1>2, NumberInduction
<1> QED  BY <1>3 DEF good
=============================================================================
