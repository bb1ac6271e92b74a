---------------------------- MODULE SumTheorems ----------------------------
(***************************************************************************)
(* What the proofs need to know of SumFunctionOnSet(f, S), the sum of f[x] *)
(* for x in a finite set S: the credits of all wallets, the bids that were *)
(* paid.  The sum is a fold, defined by recursion on the set, so every     *)
(* lemma goes by the smallest subset of S for which it would fail.         *)
(***************************************************************************)
EXTENDS Integers, Functions, FiniteSets, FiniteSetTheorems,
        WellFoundedInduction, TLAPS

Pick(s) == CHOOSE x \in s : TRUE

\* g adds up f over every subset of S
Adds(g, f, S) ==
    g = [s \in SUBSET S |-> IF s = {} THEN 0 ELSE f[Pick(s)] + g[s \ {Pick(s)}]]

Adding(f, S) == CHOOSE g : Adds(g, f, S)

\* The sum is the value at S of the function the fold recurs on.
LEMMA SumUnfolded ==
    ASSUME NEW f, NEW S
    PROVE  SumFunctionOnSet(f, S) = Adding(f, S)[S]
BY DEF SumFunctionOnSet, FoldFunctionOnSet, MapThenFoldSet, Adding, Adds, Pick

\* A collection of subsets of a finite set has one that is minimal in it.
LEMMA MinimalSubset ==
    ASSUME NEW S, IsFiniteSet(S), NEW T \in SUBSET SUBSET S, T # {}
    PROVE  \E m \in T : \A k \in T : ~ (k \subseteq m /\ k # m)
<1>1. T \subseteq FiniteSubsetsOf(S)
  BY FS_Subset DEF FiniteSubsetsOf
<1>2. \E m \in T : \A k \in T : ~ (<<k, m>> \in StrictSubsetOrdering(S))
  BY <1>1, FS_StrictSubsetOrderingWellFounded, WFMin
<1>3. QED
  BY <1>2 DEF StrictSubsetOrdering

LEMMA PickIn == ASSUME NEW s, s # {} PROVE Pick(s) \in s
BY DEF Pick

\* What a function that adds up f is, one subset at a time
LEMMA AddsAt ==
    ASSUME NEW f, NEW S, NEW g, Adds(g, f, S), NEW s \in SUBSET S
    PROVE  g[s] = IF s = {} THEN 0 ELSE f[Pick(s)] + g[s \ {Pick(s)}]
BY DEF Adds

\* Two functions that add up f agree wherever both are defined.
LEMMA AddsAgree ==
    ASSUME NEW f, NEW S1, NEW S2, NEW g1, NEW g2,
           Adds(g1, f, S1), Adds(g2, f, S2),
           NEW S \in SUBSET (S1 \cap S2), IsFiniteSet(S)
    PROVE  g1[S] = g2[S]
<1> DEFINE Bad == {s \in SUBSET S : g1[s] # g2[s]}
<1>1. SUFFICES ASSUME Bad # {} PROVE FALSE
  BY DEF Bad
<1>2. PICK m \in Bad : \A k \in Bad : ~ (k \subseteq m /\ k # m)
  <2>1. Bad \in SUBSET SUBSET S
    OBVIOUS
  <2> HIDE DEF Bad
  <2>2. QED
    BY <1>1, <2>1, MinimalSubset
<1>3. /\ g1[m] = IF m = {} THEN 0 ELSE f[Pick(m)] + g1[m \ {Pick(m)}]
      /\ g2[m] = IF m = {} THEN 0 ELSE f[Pick(m)] + g2[m \ {Pick(m)}]
  BY AddsAt
<1>4. m # {}
  BY <1>3
<1>5. m \ {Pick(m)} \in SUBSET S /\ m \ {Pick(m)} # m /\ m \ {Pick(m)} \subseteq m
  BY <1>4, PickIn
<1>6. g1[m \ {Pick(m)}] = g2[m \ {Pick(m)}]
  BY <1>2, <1>5
<1>7. QED
  BY <1>2, <1>3, <1>4, <1>6

\* The function the fold recurs on exists.
LEMMA AddingAdds ==
    ASSUME NEW f, NEW S, IsFiniteSet(S)
    PROVE  Adds(Adding(f, S), f, S)
<1> DEFINE Bad == {s \in SUBSET S : ~ \E g : Adds(g, f, s)}
<1>1. SUFFICES ASSUME Bad # {} PROVE FALSE
  BY DEF Adding
<1>2. PICK m \in Bad : \A k \in Bad : ~ (k \subseteq m /\ k # m)
  <2>1. Bad \in SUBSET SUBSET S
    OBVIOUS
  <2> HIDE DEF Bad
  <2>2. QED
    BY <1>1, <2>1, MinimalSubset
<1>3. \A t \in SUBSET m : t # m => Adds(Adding(f, t), f, t)
  BY <1>2 DEF Adding
<1> DEFINE v(s) == IF s = {} THEN 0
                   ELSE f[Pick(s)] + Adding(f, s \ {Pick(s)})[s \ {Pick(s)}]
           h == [s \in SUBSET m |-> v(s)]
<1>4. ASSUME NEW t \in SUBSET m, t # m PROVE v(t) = Adding(f, t)[t]
  <2>1. Adding(f, t)[t] = IF t = {} THEN 0 ELSE f[Pick(t)] + Adding(f, t)[t \ {Pick(t)}]
    BY <1>3, <1>4, AddsAt
  <2>2. CASE t = {}
    BY <2>1, <2>2
  <2>3. CASE t # {}
    <3> DEFINE r == t \ {Pick(t)}
    <3>1. r \in SUBSET m /\ r # m /\ r \in SUBSET (t \cap r) /\ IsFiniteSet(r)
      BY <1>4, FS_Subset
    <3>2. Adding(f, t)[r] = Adding(f, r)[r]
      BY <1>3, <1>4, <3>1, AddsAgree
    <3>3. QED
      BY <2>1, <2>3, <3>2
  <2>4. QED
    BY <2>2, <2>3
<1>5. \A s \in SUBSET m : s # {} => v(s) = f[Pick(s)] + h[s \ {Pick(s)}]
  <2>1. SUFFICES ASSUME NEW s \in SUBSET m, s # {}
                 PROVE  v(s) = f[Pick(s)] + h[s \ {Pick(s)}]
    OBVIOUS
  <2>2. s \ {Pick(s)} \in SUBSET m /\ s \ {Pick(s)} # m
    BY <2>1, PickIn
  <2>3. h[s \ {Pick(s)}] = Adding(f, s \ {Pick(s)})[s \ {Pick(s)}]
    BY <1>4, <2>2
  <2>4. QED
    BY <2>1, <2>3
<1>6. h = [s \in SUBSET m |-> IF s = {} THEN 0 ELSE f[Pick(s)] + h[s \ {Pick(s)}]]
  BY <1>5
<1>7. Adds(h, f, m)
  BY <1>6 DEF Adds
<1>8. QED
  BY <1>2, <1>7

-----------------------------------------------------------------------------

\* Nothing adds up to 0.
LEMMA SumEmpty == ASSUME NEW f PROVE SumFunctionOnSet(f, {}) = 0
<1>1. Adds(Adding(f, {}), f, {})
  BY AddingAdds, FS_EmptySet
<1>2. Adding(f, {})[{}] = 0
  BY <1>1, AddsAt
<1>3. QED
  BY <1>2, SumUnfolded

\* The sum takes one element, and then sums the rest.
LEMMA SumStep ==
    ASSUME NEW f, NEW S, IsFiniteSet(S), S # {}
    PROVE  SumFunctionOnSet(f, S) = f[Pick(S)] + SumFunctionOnSet(f, S \ {Pick(S)})
<1> DEFINE r == S \ {Pick(S)}
<1>1. IsFiniteSet(r) /\ r \in SUBSET (S \cap r)
  BY FS_Subset
<1>2. Adding(f, S)[S] = f[Pick(S)] + Adding(f, S)[r]
  <2>1. Adds(Adding(f, S), f, S)
    BY AddingAdds
  <2>2. QED
    BY <2>1, AddsAt
<1>3. Adding(f, S)[r] = Adding(f, r)[r]
  <2>1. Adds(Adding(f, S), f, S) /\ Adds(Adding(f, r), f, r)
    BY <1>1, AddingAdds
  <2> HIDE DEF r
  <2>2. QED
    BY <1>1, <2>1, AddsAgree
<1>4. QED
  BY <1>2, <1>3, SumUnfolded

\* A sum of integers is one.
LEMMA SumInt ==
    ASSUME NEW f, NEW S, IsFiniteSet(S), \A x \in S : f[x] \in Int
    PROVE  SumFunctionOnSet(f, S) \in Int
<1> DEFINE Bad == {s \in SUBSET S : SumFunctionOnSet(f, s) \notin Int}
<1>1. SUFFICES ASSUME Bad # {} PROVE FALSE
  OBVIOUS
<1>2. PICK m \in Bad : \A k \in Bad : ~ (k \subseteq m /\ k # m)
  <2>1. Bad \in SUBSET SUBSET S
    OBVIOUS
  <2> HIDE DEF Bad
  <2>2. QED
    BY <1>1, <2>1, MinimalSubset
<1>3. m # {}
  BY SumEmpty
<1>4. SumFunctionOnSet(f, m \ {Pick(m)}) \in Int
  BY <1>2, <1>3, PickIn
<1>5. f[Pick(m)] \in Int
  BY <1>3, PickIn
<1>6. SumFunctionOnSet(f, m) \in Int
  BY <1>3, <1>4, <1>5, SumStep, FS_Subset
<1>7. QED
  BY <1>2, <1>6

\* Whichever element is taken first, the sum is the same.
LEMMA SumRemove ==
    ASSUME NEW f, NEW S, IsFiniteSet(S), \A x \in S : f[x] \in Int, NEW x \in S
    PROVE  SumFunctionOnSet(f, S) = f[x] + SumFunctionOnSet(f, S \ {x})
<1> DEFINE Bad == {s \in SUBSET S : \E y \in s :
                      SumFunctionOnSet(f, s) # f[y] + SumFunctionOnSet(f, s \ {y})}
<1>1. SUFFICES ASSUME Bad # {} PROVE FALSE
  OBVIOUS
<1>2. PICK m \in Bad : \A k \in Bad : ~ (k \subseteq m /\ k # m)
  <2>1. Bad \in SUBSET SUBSET S
    OBVIOUS
  <2> HIDE DEF Bad
  <2>2. QED
    BY <1>1, <2>1, MinimalSubset
<1>3. PICK y \in m : SumFunctionOnSet(f, m) # f[y] + SumFunctionOnSet(f, m \ {y})
  BY <1>2
<1> DEFINE p == Pick(m)
<1>4. p \in m /\ m \in SUBSET S /\ IsFiniteSet(m)
  BY <1>3, PickIn, FS_Subset
<1>5. SumFunctionOnSet(f, m) = f[p] + SumFunctionOnSet(f, m \ {p})
  BY <1>3, <1>4, SumStep
<1>6. p # y
  BY <1>3, <1>5
<1> HIDE DEF p
<1>7. ASSUME NEW k \in SUBSET S, k \subseteq m, k # m, NEW z \in k
       PROVE  SumFunctionOnSet(f, k) = f[z] + SumFunctionOnSet(f, k \ {z})
  BY <1>2, <1>7
<1> HIDE DEF Bad
<1>8. SumFunctionOnSet(f, m \ {p}) = f[y] + SumFunctionOnSet(f, (m \ {p}) \ {y})
  <2>1. m \ {p} \in SUBSET S /\ m \ {p} \subseteq m /\ m \ {p} # m /\ y \in m \ {p}
    BY <1>4, <1>6
  <2>2. QED
    BY <2>1, <1>7
<1>9. SumFunctionOnSet(f, m \ {y}) = f[p] + SumFunctionOnSet(f, (m \ {y}) \ {p})
  <2>1. m \ {y} \in SUBSET S /\ m \ {y} \subseteq m /\ m \ {y} # m /\ p \in m \ {y}
    BY <1>4, <1>6
  <2>2. QED
    BY <2>1, <1>7
<1>10. SumFunctionOnSet(f, (m \ {p}) \ {y}) = SumFunctionOnSet(f, (m \ {y}) \ {p})
  <2>1. (m \ {p}) \ {y} = (m \ {y}) \ {p}
    OBVIOUS
  <2>2. QED
    BY <2>1
<1>11. /\ f[p] \in Int /\ f[y] \in Int
       /\ SumFunctionOnSet(f, (m \ {y}) \ {p}) \in Int
  BY <1>4, FS_Subset, SumInt
<1>12. QED
  BY <1>3, <1>5, <1>8, <1>9, <1>10, <1>11

\* Only the values on the set count.
LEMMA SumSame ==
    ASSUME NEW f, NEW g, NEW S, IsFiniteSet(S), \A x \in S : f[x] = g[x]
    PROVE  SumFunctionOnSet(f, S) = SumFunctionOnSet(g, S)
<1> DEFINE Bad == {s \in SUBSET S : SumFunctionOnSet(f, s) # SumFunctionOnSet(g, s)}
<1>1. SUFFICES ASSUME Bad # {} PROVE FALSE
  OBVIOUS
<1>2. PICK m \in Bad : \A k \in Bad : ~ (k \subseteq m /\ k # m)
  <2>1. Bad \in SUBSET SUBSET S
    OBVIOUS
  <2> HIDE DEF Bad
  <2>2. QED
    BY <1>1, <2>1, MinimalSubset
<1>3. m # {}
  BY SumEmpty
<1>4. SumFunctionOnSet(f, m \ {Pick(m)}) = SumFunctionOnSet(g, m \ {Pick(m)})
  BY <1>2, <1>3, PickIn
<1>5. f[Pick(m)] = g[Pick(m)]
  BY <1>3, PickIn
<1>6. SumFunctionOnSet(f, m) = SumFunctionOnSet(g, m)
  BY <1>3, <1>4, <1>5, SumStep, FS_Subset
<1>7. QED
  BY <1>2, <1>6

\* Sums add pointwise.
LEMMA SumPlus ==
    ASSUME NEW f, NEW g, NEW h, NEW S, IsFiniteSet(S),
           \A x \in S : f[x] \in Int /\ g[x] \in Int /\ h[x] = f[x] + g[x]
    PROVE  SumFunctionOnSet(h, S) = SumFunctionOnSet(f, S) + SumFunctionOnSet(g, S)
<1> DEFINE Bad == {s \in SUBSET S : SumFunctionOnSet(h, s)
                                   # SumFunctionOnSet(f, s) + SumFunctionOnSet(g, s)}
<1>1. SUFFICES ASSUME Bad # {} PROVE FALSE
  OBVIOUS
<1>2. PICK m \in Bad : \A k \in Bad : ~ (k \subseteq m /\ k # m)
  <2>1. Bad \in SUBSET SUBSET S
    OBVIOUS
  <2> HIDE DEF Bad
  <2>2. QED
    BY <1>1, <2>1, MinimalSubset
<1>3. m # {}
  <2>1. SumFunctionOnSet(h, {}) = SumFunctionOnSet(f, {}) + SumFunctionOnSet(g, {})
    BY SumEmpty
  <2>2. QED
    BY <1>2, <2>1
<1> DEFINE p == Pick(m)
           r == m \ {p}
<1>4. p \in m /\ r \in SUBSET S /\ IsFiniteSet(m) /\ IsFiniteSet(r)
  BY <1>3, PickIn, FS_Subset
<1>5. SumFunctionOnSet(h, r) = SumFunctionOnSet(f, r) + SumFunctionOnSet(g, r)
  BY <1>2, <1>4
<1>6. /\ f[p] \in Int /\ g[p] \in Int /\ h[p] = f[p] + g[p]
      /\ SumFunctionOnSet(f, r) \in Int /\ SumFunctionOnSet(g, r) \in Int
  BY <1>4, SumInt
<1>7. /\ SumFunctionOnSet(f, m) = f[p] + SumFunctionOnSet(f, r)
      /\ SumFunctionOnSet(g, m) = g[p] + SumFunctionOnSet(g, r)
      /\ SumFunctionOnSet(h, m) = h[p] + SumFunctionOnSet(h, r)
  BY <1>3, <1>4, SumStep
<1> HIDE DEF p, r
<1>8. SumFunctionOnSet(h, m) = SumFunctionOnSet(f, m) + SumFunctionOnSet(g, m)
  BY <1>5, <1>6, <1>7
<1>9. QED
  BY <1>2, <1>8

\* A sum of natural numbers is one, and at least as large as each of them.
LEMMA SumNat ==
    ASSUME NEW f, NEW S, IsFiniteSet(S), \A x \in S : f[x] \in Nat
    PROVE  /\ SumFunctionOnSet(f, S) \in Nat
           /\ \A x \in S : f[x] <= SumFunctionOnSet(f, S)
<1> DEFINE Bad == {s \in SUBSET S : SumFunctionOnSet(f, s) \notin Nat}
<1>1. Bad = {}
  <2>1. SUFFICES ASSUME Bad # {} PROVE FALSE
    OBVIOUS
  <2>2. PICK m \in Bad : \A k \in Bad : ~ (k \subseteq m /\ k # m)
    <3>1. Bad \in SUBSET SUBSET S
      OBVIOUS
    <3> HIDE DEF Bad
    <3>2. QED
      BY <2>1, <3>1, MinimalSubset
  <2>3. m # {}
    BY SumEmpty
  <2>4. SumFunctionOnSet(f, m \ {Pick(m)}) \in Nat /\ f[Pick(m)] \in Nat
    BY <2>2, <2>3, PickIn
  <2>5. SumFunctionOnSet(f, m) \in Nat
    BY <2>3, <2>4, SumStep, FS_Subset
  <2>6. QED
    BY <2>2, <2>5
<1>2. ASSUME NEW x \in S PROVE f[x] <= SumFunctionOnSet(f, S)
  <2>1. /\ f[x] \in Nat /\ SumFunctionOnSet(f, S \ {x}) \in Nat
        /\ SumFunctionOnSet(f, S) = f[x] + SumFunctionOnSet(f, S \ {x})
    BY <1>1, SumRemove
  <2>2. QED
    BY <2>1
<1>3. QED
  BY <1>1, <1>2

\* When one value changes, the sum changes by as much.
LEMMA SumChange ==
    ASSUME NEW f, NEW g, NEW S, IsFiniteSet(S), NEW x \in S,
           \A y \in S : f[y] \in Int /\ g[y] \in Int /\ (y # x => g[y] = f[y])
    PROVE  SumFunctionOnSet(g, S) = SumFunctionOnSet(f, S) + (g[x] - f[x])
<1> DEFINE r == S \ {x}
<1>1. IsFiniteSet(r)
  BY FS_Subset
<1>2. SumFunctionOnSet(g, r) = SumFunctionOnSet(f, r)
  BY <1>1, SumSame
<1>3. /\ SumFunctionOnSet(f, S) = f[x] + SumFunctionOnSet(f, r)
      /\ SumFunctionOnSet(g, S) = g[x] + SumFunctionOnSet(g, r)
  BY SumRemove
<1>4. SumFunctionOnSet(f, r) \in Int
  BY <1>1, SumInt
<1> HIDE DEF r
<1>5. QED
  BY <1>2, <1>3, <1>4

\* When every value is 0, so is the sum.
LEMMA SumZero ==
    ASSUME NEW f, NEW S, IsFiniteSet(S), \A x \in S : f[x] = 0
    PROVE  SumFunctionOnSet(f, S) = 0
<1> DEFINE Bad == {s \in SUBSET S : SumFunctionOnSet(f, s) # 0}
<1>1. SUFFICES ASSUME Bad # {} PROVE FALSE
  OBVIOUS
<1>2. PICK m \in Bad : \A k \in Bad : ~ (k \subseteq m /\ k # m)
  <2>1. Bad \in SUBSET SUBSET S
    OBVIOUS
  <2> HIDE DEF Bad
  <2>2. QED
    BY <1>1, <2>1, MinimalSubset
<1>3. m # {} /\ IsFiniteSet(m)
  BY SumEmpty, FS_Subset
<1>4. SumFunctionOnSet(f, m \ {Pick(m)}) = 0 /\ f[Pick(m)] = 0
  BY <1>2, <1>3, PickIn
<1>5. QED
  BY <1>2, <1>3, <1>4, SumStep

\* When every value but one is 0, the sum is that one.
LEMMA SumOne ==
    ASSUME NEW f, NEW S, IsFiniteSet(S), NEW x \in S, f[x] \in Int,
           \A y \in S \ {x} : f[y] = 0
    PROVE  SumFunctionOnSet(f, S) = f[x]
<1>1. SumFunctionOnSet(f, S \ {x}) = 0
  BY SumZero, FS_Subset
<1>2. \A y \in S : f[y] \in Int
  OBVIOUS
<1>3. QED
  BY <1>1, <1>2, SumRemove

\* The sum of a function is its sum over its domain.
LEMMA SumFunctionIs ==
    ASSUME NEW f, NEW S, DOMAIN f = S
    PROVE  SumFunction(f) = SumFunctionOnSet(f, S)
BY DEF SumFunction

=============================================================================
