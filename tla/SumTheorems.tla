------------------------------ MODULE SumTheorems ------------------------------
(***************************************************************************)
(* What SumFunction of the community module Functions computes for every   *)
(* finite domain.  The analytics are sums over the tables, so that each    *)
(* statement about them rests on these facts.                              *)
(*                                                                         *)
(* SumFunctionOnSet is a recursive function on the subsets of a set, and   *)
(* an induction theorem with an operator parameter could not be applied to *)
(* it here.  Instead a set of counterexamples is given a minimal member,   *)
(* by the two lemmas that follow.                                          *)
(***************************************************************************)
EXTENDS Integers, FiniteSets, Functions, FiniteSetTheorems,
        WellFoundedInduction, TLAPS

\* The least of a set of natural numbers (WFMin for < on Nat).
LEMMA LeastNatural ==
  ASSUME NEW T \in SUBSET Nat, T # {}
  PROVE  \E m \in T : \A n \in T : m <= n
<1>1. \E m \in T : \A n \in T : ~ (<<n, m>> \in OpToRel(<, Nat))
  BY NatLessThanWellFounded, WFMin, Zenon
<1>2. \A m, n \in Nat : m <= n \/ <<n, m>> \in OpToRel(<, Nat)
  BY SMT DEF OpToRel
<1> QED BY <1>1, <1>2, Zenon

\* A family of subsets of a finite set has a member that contains no other.
LEMMA MinimalSubset ==
  ASSUME NEW S, IsFiniteSet(S), NEW T \in SUBSET SUBSET S, T # {}
  PROVE  \E m \in T : \A t \in T : t \subseteq m => t = m
<1>1. IsWellFoundedOn(StrictSubsetOrdering(S), SUBSET S)
  BY FS_StrictSubsetOrderingWellFounded, FS_FiniteSubsetsOfFinite, Zenon
<1>2. \E m \in T : \A t \in T : ~ (<<t, m>> \in StrictSubsetOrdering(S))
  BY <1>1, WFMin, Zenon
<1>3. \A m, t \in SUBSET S :
        (t \subseteq m /\ t # m) => <<t, m>> \in StrictSubsetOrdering(S)
  BY SMT DEF StrictSubsetOrdering
<1> QED BY <1>2, <1>3, Zenon

-----------------------------------------------------------------------------
(* The recursive function is there. *)

Pick(s) == CHOOSE x \in s : TRUE

SumStep(f, g, s) == IF s = {} THEN 0 ELSE f[Pick(s)] + g[s \ {Pick(s)}]

\* The function in SumFunctionOnSet(f, S).
Partial(f, S) ==
  CHOOSE g : g = [s \in SUBSET S |->
                    IF s = {} THEN 0
                    ELSE f[CHOOSE x \in s : TRUE] + g[s \ {CHOOSE x \in s : TRUE}]]

LEMMA SumIsPartial ==
  ASSUME NEW f, NEW S
  PROVE  SumFunctionOnSet(f, S) = Partial(f, S)[S]
BY Zenon DEF SumFunctionOnSet, FoldFunctionOnSet, MapThenFoldSet, Partial

LEMMA SumIsOnDomain ==
  ASSUME NEW f
  PROVE  SumFunction(f) = SumFunctionOnSet(f, DOMAIN f)
BY Zenon DEF SumFunction

LEMMA PickIsMember ==
  ASSUME NEW s, s # {}
  PROVE  Pick(s) \in s
BY Zenon DEF Pick

\* Subsets of up to n elements have a solution, for every n.
LEMMA SumExists ==
  ASSUME NEW f, NEW S, IsFiniteSet(S)
  PROVE  \E g : g = [s \in SUBSET S |-> SumStep(f, g, s)]
<1> DEFINE Small(n) == {s \in SUBSET S : Cardinality(s) <= n}
           Solved(n) == \E g : \A s \in Small(n) : g[s] = SumStep(f, g, s)
           T == {n \in Nat : ~ Solved(n)}
<1>1. \A s \in SUBSET S : IsFiniteSet(s) /\ Cardinality(s) \in Nat
  BY FS_Subset, FS_CardinalityType, Zenon
<1>2. \A s \in SUBSET S : s # {} =>
        /\ s \ {Pick(s)} \in SUBSET S
        /\ Cardinality(s \ {Pick(s)}) = Cardinality(s) - 1
  <2> SUFFICES ASSUME NEW s \in SUBSET S, s # {}
               PROVE  /\ s \ {Pick(s)} \in SUBSET S
                      /\ Cardinality(s \ {Pick(s)}) = Cardinality(s) - 1
    OBVIOUS
  <2>1. Pick(s) \in s
    BY PickIsMember
  <2> QED BY <2>1, <1>1, FS_RemoveElement
<1>3. ASSUME T # {}
      PROVE  FALSE
  <2>1. PICK m \in T : \A n \in T : m <= n
    BY <1>3, LeastNatural
  <2>2. m # 0
    <3> SUFFICES ASSUME m = 0
                 PROVE  FALSE
      OBVIOUS
    <3>1. Small(0) = {{}}
      BY <1>1, FS_EmptySet
    <3>2. [s \in SUBSET S |-> 0][{}] = SumStep(f, [s \in SUBSET S |-> 0], {})
      BY DEF SumStep
    <3>3. Solved(0)
      BY <3>1, <3>2, Zenon
    <3> QED BY <3>3, <2>1
  <2>3. m - 1 \in Nat /\ m - 1 \notin T
    BY <2>1, <2>2
  <2>4. PICK g : \A s \in Small(m - 1) : g[s] = SumStep(f, g, s)
    BY <2>3
  <2> DEFINE h == [s \in SUBSET S |-> IF s \in Small(m - 1) THEN g[s]
                                      ELSE SumStep(f, g, s)]
  <2>5. \A s \in Small(m) : h[s] = SumStep(f, h, s)
    <3> SUFFICES ASSUME NEW s \in Small(m)
                 PROVE  h[s] = SumStep(f, h, s)
      OBVIOUS
    <3>1. h[s] = SumStep(f, g, s)
      BY <2>4
    <3>2. CASE s = {}
      BY <3>1, <3>2 DEF SumStep
    <3>3. CASE s # {}
      <4> DEFINE t == s \ {Pick(s)}
      <4>1. t \in SUBSET S /\ Cardinality(t) = Cardinality(s) - 1
        BY <3>3, <1>2
      <4>2. t \in Small(m - 1)
        BY <4>1, <1>1, <2>1
      <4>3. h[t] = g[t]
        BY <4>2, <4>1
      <4> QED BY <3>1, <3>3, <4>3 DEF SumStep
    <3> QED BY <3>2, <3>3
  <2>6. Solved(m)
    BY <2>5, Zenon
  <2> QED BY <2>6, <2>1
<1>4. Cardinality(S) \in Nat /\ Small(Cardinality(S)) = SUBSET S
  BY <1>1, FS_Subset, FS_CardinalityType
<1>5. PICK g : \A s \in SUBSET S : g[s] = SumStep(f, g, s)
  BY <1>3, <1>4
<1> DEFINE h == [s \in SUBSET S |-> g[s]]
<1>6. \A s \in SUBSET S : h[s] = SumStep(f, h, s)
  <2> SUFFICES ASSUME NEW s \in SUBSET S
               PROVE  g[s] = SumStep(f, h, s)
    OBVIOUS
  <2>1. CASE s = {}
    BY <2>1, <1>5 DEF SumStep
  <2>2. CASE s # {}
    <3>1. h[s \ {Pick(s)}] = g[s \ {Pick(s)}]
      BY <1>2, <2>2
    <3> QED BY <2>2, <3>1, <1>5 DEF SumStep
  <2> QED BY <2>1, <2>2
<1>7. h = [s \in SUBSET S |-> SumStep(f, h, s)]
  BY <1>6
<1> QED BY <1>7

-----------------------------------------------------------------------------
(* What the sum is. *)

LEMMA PartialUnfolds ==
  ASSUME NEW f, NEW S, IsFiniteSet(S), NEW s \in SUBSET S
  PROVE  Partial(f, S)[s] = SumStep(f, Partial(f, S), s)
<1> DEFINE Eq(g) == g = [t \in SUBSET S |->
                    IF t = {} THEN 0
                    ELSE f[CHOOSE x \in t : TRUE] + g[t \ {CHOOSE x \in t : TRUE}]]
<1>1. \E g : Eq(g)
  <2>1. PICK g : g = [t \in SUBSET S |-> SumStep(f, g, t)]
    BY SumExists
  <2>2. Eq(g)
    BY <2>1, Zenon DEF SumStep, Pick
  <2> QED BY <2>2
<1>2. Partial(f, S) = CHOOSE g : Eq(g)
  BY Zenon DEF Partial
<1>3. Eq(Partial(f, S))
  BY <1>1, <1>2, Zenon
<1>4. Partial(f, S) = [t \in SUBSET S |-> SumStep(f, Partial(f, S), t)]
  BY <1>3, Zenon DEF SumStep, Pick
<1> HIDE DEF Eq
<1> QED BY <1>4, Zenon

\* The sum over a subset does not depend on the set it is a subset of.
LEMMA PartialsAgree ==
  ASSUME NEW f, NEW S, IsFiniteSet(S), NEW t \in SUBSET S
  PROVE  Partial(f, S)[t] = SumFunctionOnSet(f, t)
<1> DEFINE T == {s \in SUBSET t : Partial(f, S)[s] # Partial(f, t)[s]}
<1>1. ASSUME T # {}
      PROVE  FALSE
  <2>0. IsFiniteSet(t)
    BY FS_Subset
  <2>min. \E m \in T : \A s \in T : s \subseteq m => s = m
    <3>1. T \in SUBSET SUBSET t
      OBVIOUS
    <3> HIDE DEF T
    <3> QED BY <1>1, <2>0, <3>1, MinimalSubset
  <2>1. PICK m \in T : \A s \in T : s \subseteq m => s = m
    BY <2>min, Zenon
  <2>2. m \in SUBSET S /\ m \in SUBSET t
    OBVIOUS
  <2>3. Partial(f, S)[m] = SumStep(f, Partial(f, S), m)
    BY <2>2, PartialUnfolds
  <2>4. Partial(f, t)[m] = SumStep(f, Partial(f, t), m)
    BY <2>0, <2>2, PartialUnfolds
  <2>5. CASE m = {}
    BY <2>3, <2>4, <2>5 DEF SumStep
  <2>6. CASE m # {}
    <3>1. Pick(m) \in m
      BY <2>6, PickIsMember
    <3>2. m \ {Pick(m)} \in SUBSET t /\ m \ {Pick(m)} \subseteq m /\ m \ {Pick(m)} # m
      BY <3>1, <2>2
    <3>3. Partial(f, S)[m \ {Pick(m)}] = Partial(f, t)[m \ {Pick(m)}]
      BY <3>2, <2>1
    <3> QED BY <2>3, <2>4, <2>6, <3>3 DEF SumStep
  <2> QED BY <2>5, <2>6
<1>2. t \in SUBSET t
  OBVIOUS
<1>3. Partial(f, S)[t] = Partial(f, t)[t]
  BY <1>1, <1>2
<1> QED BY <1>3, SumIsPartial

\* Nothing sums to zero.
LEMMA SumOfNone ==
  ASSUME NEW f
  PROVE  SumFunctionOnSet(f, {}) = 0
<1>1. Partial(f, {})[{}] = SumStep(f, Partial(f, {}), {})
  BY PartialUnfolds, FS_EmptySet
<1> QED BY <1>1, SumIsPartial DEF SumStep

LEMMA SumUnfolds ==
  ASSUME NEW f, NEW S, IsFiniteSet(S), S # {}
  PROVE  SumFunctionOnSet(f, S) = f[Pick(S)] + SumFunctionOnSet(f, S \ {Pick(S)})
<1>1. Partial(f, S)[S] = SumStep(f, Partial(f, S), S)
  BY PartialUnfolds
<1>2. Partial(f, S)[S \ {Pick(S)}] = SumFunctionOnSet(f, S \ {Pick(S)})
  BY PartialsAgree
<1> QED BY <1>1, <1>2, SumIsPartial DEF SumStep

\* A sum of integers is an integer.
LEMMA SumIsInteger ==
  ASSUME NEW f, NEW S, IsFiniteSet(S), \A x \in S : f[x] \in Int
  PROVE  SumFunctionOnSet(f, S) \in Int
<1> DEFINE T == {s \in SUBSET S : SumFunctionOnSet(f, s) \notin Int}
<1>1. ASSUME T # {}
      PROVE  FALSE
  <2>min. \E m \in T : \A s \in T : s \subseteq m => s = m
    <3>1. T \in SUBSET SUBSET S
      OBVIOUS
    <3> HIDE DEF T
    <3> QED BY <1>1, <3>1, MinimalSubset
  <2>1. PICK m \in T : \A s \in T : s \subseteq m => s = m
    BY <2>min, Zenon
  <2>2. m # {}
    BY SumOfNone
  <2>3. Pick(m) \in m
    BY <2>2, PickIsMember
  <2>4. SumFunctionOnSet(f, m \ {Pick(m)}) \in Int
    BY <2>1, <2>3
  <2>5. SumFunctionOnSet(f, m) = f[Pick(m)] + SumFunctionOnSet(f, m \ {Pick(m)})
    BY <2>2, SumUnfolds, FS_Subset
  <2> QED BY <2>3, <2>4, <2>5
<1> QED BY <1>1

\* Any element may be taken first: the order of the fold does not matter.
LEMMA SumTakesAny ==
  ASSUME NEW f, NEW S, IsFiniteSet(S), \A x \in S : f[x] \in Int, NEW y \in S
  PROVE  SumFunctionOnSet(f, S) = f[y] + SumFunctionOnSet(f, S \ {y})
<1> DEFINE Fine(s) == \A x \in s :
                        SumFunctionOnSet(f, s) = f[x] + SumFunctionOnSet(f, s \ {x})
           T == {s \in SUBSET S : ~ Fine(s)}
<1>1. ASSUME T # {}
      PROVE  FALSE
  <2>min. \E m \in T : \A s \in T : s \subseteq m => s = m
    <3>1. T \in SUBSET SUBSET S
      OBVIOUS
    <3> HIDE DEF T
    <3> QED BY <1>1, <3>1, MinimalSubset
  <2>1. PICK m \in T : \A s \in T : s \subseteq m => s = m
    BY <2>min, Zenon
  <2>2. PICK x \in m : SumFunctionOnSet(f, m) # f[x] + SumFunctionOnSet(f, m \ {x})
    OBVIOUS
  <2> DEFINE z == Pick(m)
  <2>3. z \in m /\ m # {}
    BY PickIsMember
  <2>4. IsFiniteSet(m)
    BY FS_Subset
  <2>5. SumFunctionOnSet(f, m) = f[z] + SumFunctionOnSet(f, m \ {z})
    BY <2>3, <2>4, SumUnfolds
  <2>6. x # z
    BY <2>2, <2>5
  <2>7. Fine(m \ {z}) /\ Fine(m \ {x})
    BY <2>1, <2>3
  <2>8. SumFunctionOnSet(f, m \ {z}) = f[x] + SumFunctionOnSet(f, (m \ {z}) \ {x})
    BY <2>6, <2>7
  <2>9. SumFunctionOnSet(f, m \ {x}) = f[z] + SumFunctionOnSet(f, (m \ {x}) \ {z})
    BY <2>3, <2>6, <2>7
  <2>10. (m \ {z}) \ {x} = (m \ {x}) \ {z}
    OBVIOUS
  <2>11. SumFunctionOnSet(f, (m \ {x}) \ {z}) \in Int
    <3>1. IsFiniteSet((m \ {x}) \ {z})
      BY <2>4, FS_Subset
    <3> QED BY <3>1, SumIsInteger
  <2>12. f[x] \in Int /\ f[z] \in Int
    BY <2>3
  <2>13. SumFunctionOnSet(f, (m \ {z}) \ {x}) = SumFunctionOnSet(f, (m \ {x}) \ {z})
    BY <2>10, Zenon
  <2> DEFINE rest == SumFunctionOnSet(f, (m \ {x}) \ {z})
  <2>14. SumFunctionOnSet(f, m) = f[z] + (f[x] + rest)
    BY <2>5, <2>8, <2>13, Zenon
  <2>15. f[x] + SumFunctionOnSet(f, m \ {x}) = f[x] + (f[z] + rest)
    BY <2>9, Zenon
  <2> HIDE DEF z, rest
  <2>16. f[z] + (f[x] + rest) = f[x] + (f[z] + rest)
    BY <2>11, <2>12 DEF rest
  <2> QED BY <2>2, <2>14, <2>15, <2>16, Zenon
<1> QED BY <1>1

\* Only the values on the set matter.
LEMMA SumsAreEqual ==
  ASSUME NEW f, NEW g, NEW S, IsFiniteSet(S), \A x \in S : f[x] = g[x]
  PROVE  SumFunctionOnSet(f, S) = SumFunctionOnSet(g, S)
<1> DEFINE T == {s \in SUBSET S : SumFunctionOnSet(f, s) # SumFunctionOnSet(g, s)}
<1>1. ASSUME T # {}
      PROVE  FALSE
  <2>min. \E m \in T : \A s \in T : s \subseteq m => s = m
    <3>1. T \in SUBSET SUBSET S
      OBVIOUS
    <3> HIDE DEF T
    <3> QED BY <1>1, <3>1, MinimalSubset
  <2>1. PICK m \in T : \A s \in T : s \subseteq m => s = m
    BY <2>min, Zenon
  <2>2. m # {}
    BY SumOfNone
  <2>3. Pick(m) \in m /\ IsFiniteSet(m)
    BY <2>2, PickIsMember, FS_Subset
  <2>4. SumFunctionOnSet(f, m \ {Pick(m)}) = SumFunctionOnSet(g, m \ {Pick(m)})
    BY <2>1, <2>3
  <2>5. /\ SumFunctionOnSet(f, m) = f[Pick(m)] + SumFunctionOnSet(f, m \ {Pick(m)})
        /\ SumFunctionOnSet(g, m) = g[Pick(m)] + SumFunctionOnSet(g, m \ {Pick(m)})
    BY <2>2, <2>3, SumUnfolds
  <2> QED BY <2>3, <2>4, <2>5
<1> QED BY <1>1

\* Counted class by class: `key` sorts the rows into classes, and the sizes of
\* the classes add up to the number of rows.
LEMMA SumCountsClasses ==
  ASSUME NEW R, IsFiniteSet(R), NEW P, IsFiniteSet(P), NEW key \in [R -> P],
         NEW f, \A p \in P : f[p] = Cardinality({r \in R : key[r] = p})
  PROVE  SumFunctionOnSet(f, P) = Cardinality(R)
<1> DEFINE In(Q) == {r \in R : key[r] \in Q}
           T == {Q \in SUBSET P : SumFunctionOnSet(f, Q) # Cardinality(In(Q))}
<1>0. \A p \in P : f[p] \in Int
  <2> SUFFICES ASSUME NEW p \in P
               PROVE  f[p] \in Int
    OBVIOUS
  <2> DEFINE C == {r \in R : key[r] = p}
  <2>1. f[p] = Cardinality(C) /\ C \in SUBSET R
    OBVIOUS
  <2> HIDE DEF C
  <2>2. Cardinality(C) \in Nat
    BY <2>1, FS_Subset, FS_CardinalityType
  <2> QED BY <2>1, <2>2
<1>1. ASSUME T # {}
      PROVE  FALSE
  <2>min. \E m \in T : \A s \in T : s \subseteq m => s = m
    <3>1. T \in SUBSET SUBSET P
      OBVIOUS
    <3> HIDE DEF T
    <3> QED BY <1>1, <3>1, MinimalSubset
  <2>1. PICK m \in T : \A s \in T : s \subseteq m => s = m
    BY <2>min, Zenon
  <2>2. m # {}
    <3>1. In({}) = {}
      OBVIOUS
    <3> QED BY <3>1, SumOfNone, FS_EmptySet
  <2>3. PICK p : p \in m
    BY <2>2
  <2>4. SumFunctionOnSet(f, m \ {p}) = Cardinality(In(m \ {p}))
    BY <2>1, <2>3
  <2>5. SumFunctionOnSet(f, m) = f[p] + SumFunctionOnSet(f, m \ {p})
    <3>1. IsFiniteSet(m)
      BY FS_Subset
    <3> QED BY <2>3, <3>1, <1>0, SumTakesAny
  <2> DEFINE C == {r \in R : key[r] = p}
  <2>6. /\ IsFiniteSet(C) /\ IsFiniteSet(In(m \ {p}))
        /\ C \cap In(m \ {p}) = {} /\ C \cup In(m \ {p}) = In(m)
    <3>1. C \in SUBSET R /\ In(m \ {p}) \in SUBSET R
      OBVIOUS
    <3>2. C \cap In(m \ {p}) = {} /\ C \cup In(m \ {p}) = In(m)
      BY <2>3
    <3> QED BY <3>1, <3>2, FS_Subset
  <2>7. f[p] = Cardinality(C)
    BY <2>3
  <2>8. Cardinality(C) \in Nat /\ Cardinality(In(m \ {p})) \in Nat
    BY <2>6, FS_CardinalityType
  <2>9. Cardinality(In(m)) = Cardinality(C) + Cardinality(In(m \ {p}))
    <3> HIDE DEF C, In
    <3>1. Cardinality(C \cup In(m \ {p}))
            = Cardinality(C) + Cardinality(In(m \ {p})) - Cardinality(C \cap In(m \ {p}))
      BY <2>6, FS_Union
    <3>2. Cardinality(C \cap In(m \ {p})) = 0
      BY <2>6, FS_EmptySet
    <3>3. C \cup In(m \ {p}) = In(m)
      BY <2>6
    <3> DEFINE c == Cardinality(C)
               i == Cardinality(In(m \ {p}))
               n == Cardinality(C \cap In(m \ {p}))
    <3>4. Cardinality(In(m)) = c + i - n
      BY <3>1, <3>3, Zenon
    <3>5. c \in Nat /\ i \in Nat /\ n = 0
      BY <2>8, <3>2
    <3> HIDE DEF c, i, n
    <3>6. c + i - n = c + i
      BY <3>5
    <3> QED BY <3>4, <3>6, Zenon DEF c, i
  <2>10. SumFunctionOnSet(f, m) # Cardinality(In(m))
    OBVIOUS
  <2> HIDE DEF C, In
  <2> QED BY <2>4, <2>5, <2>7, <2>9, <2>10
<1>2. SumFunctionOnSet(f, P) = Cardinality(In(P))
  BY <1>1
<1>3. In(P) = R
  OBVIOUS
<1> QED BY <1>2, <1>3, Zenon

-----------------------------------------------------------------------------
(* Small sums and quotients. *)

LEMMA SumOfOne ==
  ASSUME NEW f, NEW x, f[x] \in Int
  PROVE  SumFunctionOnSet(f, {x}) = f[x]
<1>1. IsFiniteSet({x})
  BY FS_Singleton
<1>2. SumFunctionOnSet(f, {x}) = f[x] + SumFunctionOnSet(f, {x} \ {x})
  BY <1>1, SumTakesAny
<1>3. {x} \ {x} = {}
  OBVIOUS
<1>4. SumFunctionOnSet(f, {x}) = f[x] + 0
  BY <1>2, <1>3, SumOfNone, Zenon
<1> QED BY <1>4

\* A sum lies between so many times the least and the greatest.
LEMMA SumIsBetween ==
  ASSUME NEW f, NEW S, IsFiniteSet(S), NEW lo \in Int, NEW hi \in Int,
         \A x \in S : f[x] \in Int /\ lo <= f[x] /\ f[x] <= hi
  PROVE  /\ lo * Cardinality(S) <= SumFunctionOnSet(f, S)
         /\ SumFunctionOnSet(f, S) <= hi * Cardinality(S)
<1> DEFINE Between(s) == /\ lo * Cardinality(s) <= SumFunctionOnSet(f, s)
                         /\ SumFunctionOnSet(f, s) <= hi * Cardinality(s)
           T == {s \in SUBSET S : ~ Between(s)}
<1>1. ASSUME T # {}
      PROVE  FALSE
  <2>min. \E m \in T : \A s \in T : s \subseteq m => s = m
    <3>1. T \in SUBSET SUBSET S
      OBVIOUS
    <3> HIDE DEF T
    <3> QED BY <1>1, <3>1, MinimalSubset
  <2>1. PICK m \in T : \A s \in T : s \subseteq m => s = m
    BY <2>min, Zenon
  <2>2. m # {}
    BY SumOfNone, FS_EmptySet
  <2>3. PICK x : x \in m
    BY <2>2
  <2>4. IsFiniteSet(m) /\ IsFiniteSet(m \ {x})
    BY FS_Subset
  <2> DEFINE rest == SumFunctionOnSet(f, m \ {x})
             n == Cardinality(m \ {x})
  <2>5. lo * n <= rest /\ rest <= hi * n
    BY <2>1, <2>3
  <2>6. SumFunctionOnSet(f, m) = f[x] + rest
    BY <2>3, <2>4, SumTakesAny
  <2>7. Cardinality(m) = n + 1 /\ n \in Nat
    BY <2>3, <2>4, FS_RemoveElement, FS_CardinalityType
  <2>8. rest \in Int
    BY <2>4, SumIsInteger
  <2>9. f[x] \in Int /\ lo <= f[x] /\ f[x] <= hi
    BY <2>3
  <2> HIDE DEF rest, n
  <2>10. lo * (n + 1) = lo * n + lo /\ hi * (n + 1) = hi * n + hi
    BY <2>7
  <2>11. lo * n \in Int /\ hi * n \in Int
    BY <2>7
  <2>12. Between(m)
    <3>1. lo * (n + 1) <= f[x] + rest /\ f[x] + rest <= hi * (n + 1)
      BY <2>5, <2>8, <2>9, <2>10, <2>11
    <3> QED BY <2>6, <2>7, <3>1
  <2> QED BY <2>12
<1> QED BY <1>1

\* The greatest of a finite set of natural numbers.
LEMMA GreatestNatural ==
  ASSUME NEW S, S \subseteq Nat, IsFiniteSet(S), S # {}
  PROVE  \E m \in S : \A n \in S : n <= m
<1> DEFINE T == {s \in SUBSET S : s # {} /\ ~ \E m \in s : \A n \in s : n <= m}
<1>1. ASSUME T # {}
      PROVE  FALSE
  <2>min. \E m \in T : \A s \in T : s \subseteq m => s = m
    <3>1. T \in SUBSET SUBSET S
      OBVIOUS
    <3>2. IsFiniteSet(S)
      OBVIOUS
    <3> HIDE DEF T
    <3> QED BY ONLY <1>1, <3>1, <3>2, MinimalSubset
  <2>1. PICK u \in T : \A s \in T : s \subseteq u => s = u
    BY <2>min, Zenon
  <2>2. PICK x : x \in u
    OBVIOUS
  <2>3. u \ {x} \in SUBSET S /\ u \ {x} \notin T
    BY <2>1, <2>2
  <2>4. CASE u \ {x} = {}
    BY <2>2, <2>4
  <2>5. CASE u \ {x} # {}
    <3>1. PICK y \in u \ {x} : \A n \in u \ {x} : n <= y
      BY <2>3, <2>5
    <3>2. x \in Nat /\ y \in Nat /\ u \subseteq Nat
      BY <2>2
    <3>3. CASE x <= y
      BY <3>1, <3>2, <3>3
    <3>4. CASE ~ (x <= y)
      BY <2>2, <3>1, <3>2, <3>4
    <3> QED BY <3>3, <3>4
  <2> QED BY <2>4, <2>5
<1> QED BY <1>1
=============================================================================
