--------------------------- MODULE CheckoutProofs ---------------------------
(***************************************************************************)
(* Proofs about Checkout: the books of the inventory balance, what a       *)
(* saga's log says of its order is so, and reserve hands out only holds    *)
(* that were live when it read the clock.                                  *)
(***************************************************************************)
EXTENDS Checkout, FiniteSetTheorems, SequenceTheorems, WellFoundedInduction, TLAPS

------------------------------------------------------------------------------
(* Sums over finite sets: SumFunctionOnSet adds up the values of a function, in  *)
(* whatever order the elements are chosen.                                       *)

Smaller == {ss \in Nat \X Nat : ss[1] < ss[2]}

\* Induction over the naturals, for a property given as the set G of the numbers
\* that have it.
LEMMA InductionOnSet ==
    ASSUME NEW G, 0 \in G, \A n \in Nat : n \in G => n + 1 \in G
    PROVE  Nat \subseteq G
<1> DEFINE B == Nat \ G
<1> SUFFICES ASSUME B # {} PROVE FALSE
  OBVIOUS
<1>1. IsWellFoundedOn(Smaller, Nat)
  BY NatLessThanWellFounded DEF OpToRel, Smaller
<1>2. PICK m \in B : \A x \in B : ~(<<x, m>> \in Smaller)
  BY <1>1, WFMin
<1>3. m \in Nat /\ m # 0 /\ m - 1 \in Nat
  OBVIOUS
<1>4. <<m - 1, m>> \in Smaller
  BY <1>3 DEF Smaller
<1>5. m - 1 \in G
  BY <1>2, <1>3, <1>4
<1> QED BY <1>3, <1>5

(* The fold's recursive function exists                                    *)

\* The element a fold takes next.
Picked(s) == CHOOSE x \in s : TRUE

\* g adds up f over each set of the family D.
Sums(g, f, D) ==
    g = [s \in D |-> IF s = {} THEN 0 ELSE f[Picked(s)] + g[s \ {Picked(s)}]]

Partial(f, D) == CHOOSE g : Sums(g, f, D)

LEMMA SumDef ==
    ASSUME NEW f, NEW S
    PROVE  SumFunctionOnSet(f, S) = Partial(f, SUBSET S)[S]
  BY DEF SumFunctionOnSet, FoldFunctionOnSet, MapThenFoldSet, Partial, Sums, Picked

\* The subsets of S with at most n elements.
UpTo(S, n) == {s \in SUBSET S : Cardinality(s) <= n}

LEMMA PickedFacts ==
    ASSUME NEW s, IsFiniteSet(s), s # {}
    PROVE  /\ Picked(s) \in s /\ IsFiniteSet(s \ {Picked(s)})
           /\ Cardinality(s) \in Nat /\ Cardinality(s \ {Picked(s)}) = Cardinality(s) - 1
<1>1. Picked(s) \in s
  BY DEF Picked
<1> QED BY <1>1, FS_RemoveElement, FS_CardinalityType

\* One more level: a g for sets of n elements gives one for sets of n + 1.
LEMMA SumsGrow ==
    ASSUME NEW f, NEW S, IsFiniteSet(S), NEW n \in Nat, NEW g, Sums(g, f, UpTo(S, n))
    PROVE  \E h : Sums(h, f, UpTo(S, n + 1))
<1> DEFINE D == UpTo(S, n + 1)
           h == [s \in D |-> IF s = {} THEN 0 ELSE f[Picked(s)] + g[s \ {Picked(s)}]]
<1>1. ASSUME NEW s \in D, s # {} PROVE h[s \ {Picked(s)}] = g[s \ {Picked(s)}]
  <2> DEFINE r == s \ {Picked(s)}
  <2>1. s \in SUBSET S /\ Cardinality(s) <= n + 1 /\ IsFiniteSet(s)
    BY FS_Subset DEF UpTo
  <2>2. r \in SUBSET S /\ IsFiniteSet(r) /\ Cardinality(r) \in Nat /\ Cardinality(r) <= n
    BY <1>1, <2>1, PickedFacts, FS_CardinalityType
  <2>3. r \in D /\ r \in UpTo(S, n)
    BY <2>2 DEF UpTo
  <2> HIDE DEF r
  <2>4. g[r] = IF r = {} THEN 0 ELSE f[Picked(r)] + g[r \ {Picked(r)}]
    BY <2>3 DEF Sums
  <2> QED BY <2>3, <2>4 DEF r
<1>2. h = [s \in D |-> IF s = {} THEN 0 ELSE f[Picked(s)] + h[s \ {Picked(s)}]]
  BY <1>1
<1> HIDE DEF h
<1> QED BY <1>2 DEF Sums

LEMMA PartialExists ==
    ASSUME NEW f, NEW S, IsFiniteSet(S)
    PROVE  Sums(Partial(f, SUBSET S), f, SUBSET S)
<1> DEFINE G == {n \in Nat : \E g : Sums(g, f, UpTo(S, n))}
<1>1. 0 \in G
  <2> DEFINE g == [s \in UpTo(S, 0) |-> 0]
  <2>1. \A s \in UpTo(S, 0) : s = {}
    BY FS_Subset, FS_EmptySet, FS_CardinalityType DEF UpTo
  <2>2. g = [s \in UpTo(S, 0) |-> IF s = {} THEN 0 ELSE f[Picked(s)] + g[s \ {Picked(s)}]]
    BY <2>1
  <2> HIDE DEF g
  <2> QED BY <2>2 DEF Sums
<1>2. \A n \in Nat : n \in G => n + 1 \in G
  BY SumsGrow
<1> HIDE DEF G
<1>3. Cardinality(S) \in G
  BY <1>1, <1>2, InductionOnSet, FS_CardinalityType
<1>4. UpTo(S, Cardinality(S)) = SUBSET S
  BY FS_Subset DEF UpTo
<1>5. \E g : Sums(g, f, SUBSET S)
  BY <1>3, <1>4 DEF G
<1> QED BY <1>5 DEF Partial
-----------------------------------------------------------------------------
(* Its value does not depend on the order                                  *)

\* p adds up f over s, given what it has for s less the element taken first.
AddsUp(p, f, s) ==
    p[s] = IF s = {} THEN 0 ELSE f[Picked(s)] + p[s \ {Picked(s)}]

\* The recursive function of the fold, on one set.
LEMMA PartialUnfold ==
    ASSUME NEW f, NEW S, IsFiniteSet(S)
    PROVE  \A s \in SUBSET S : AddsUp(Partial(f, SUBSET S), f, s)
<1> DEFINE p == Partial(f, SUBSET S)
           h == [s \in SUBSET S |->
                   IF s = {} THEN 0 ELSE f[Picked(s)] + p[s \ {Picked(s)}]]
<1>0. Sums(p, f, SUBSET S)
  BY PartialExists
<1> HIDE DEF p
<1>1. p = h
  BY ONLY <1>0, Zenon DEF Sums
<1>2. ASSUME NEW s \in SUBSET S
      PROVE  h[s] = IF s = {} THEN 0 ELSE f[Picked(s)] + p[s \ {Picked(s)}]
  OBVIOUS
<1> HIDE DEF h
<1>3. ASSUME NEW s \in SUBSET S PROVE AddsUp(p, f, s)
  <2>1. p[s] = h[s]
    BY <1>1
  <2> QED BY <1>2, <2>1 DEF AddsUp
<1> QED BY <1>3 DEF p

\* A subset with n + 1 elements, less any of them, is a subset with n.
LEMMA OneLess ==
    ASSUME NEW S, IsFiniteSet(S), NEW n \in Nat, NEW s \in UpTo(S, n + 1)
    PROVE  /\ s \in SUBSET S /\ IsFiniteSet(s)
           /\ s # {} => Picked(s) \in s
           /\ \A x \in s : s \ {x} \in UpTo(S, n) /\ s \ {x} \in SUBSET S
<1>1. s \in SUBSET S /\ Cardinality(s) <= n + 1 /\ IsFiniteSet(s) /\ Cardinality(s) \in Nat
  BY FS_Subset, FS_CardinalityType DEF UpTo
<1>2. ASSUME NEW x \in s PROVE s \ {x} \in UpTo(S, n)
  <2>1. Cardinality(s \ {x}) = Cardinality(s) - 1
    BY <1>1, FS_RemoveElement
  <2> QED BY <1>1, <2>1 DEF UpTo
<1> QED BY <1>1, <1>2 DEF Picked

LEMMA NoneUpToZero ==
    ASSUME NEW S, IsFiniteSet(S), NEW s \in UpTo(S, 0)
    PROVE  s = {}
  BY FS_Subset, FS_EmptySet, FS_CardinalityType DEF UpTo

LEMMA AllUpToSize ==
    ASSUME NEW S, IsFiniteSet(S)
    PROVE  Cardinality(S) \in Nat /\ UpTo(S, Cardinality(S)) = SUBSET S
  BY FS_Subset, FS_CardinalityType DEF UpTo

LEMMA PartialInt ==
    ASSUME NEW f, NEW S, IsFiniteSet(S), \A x \in S : f[x] \in Int
    PROVE  \A s \in SUBSET S : Partial(f, SUBSET S)[s] \in Int
<1> DEFINE p == Partial(f, SUBSET S)
           G == {n \in Nat : \A s \in UpTo(S, n) : p[s] \in Int}
<1>0. \A s \in SUBSET S : AddsUp(p, f, s)
  BY PartialUnfold
<1> HIDE DEF p
<1>1. 0 \in G
  <2>1. AddsUp(p, f, {})
    BY <1>0
  <2> QED BY <2>1, NoneUpToZero DEF AddsUp
<1>2. ASSUME NEW n \in Nat, n \in G PROVE n + 1 \in G
  <2> SUFFICES ASSUME NEW s \in UpTo(S, n + 1) PROVE p[s] \in Int
    OBVIOUS
  <2>0. AddsUp(p, f, s)
    BY <1>0, OneLess
  <2>1. CASE s = {}
    BY <2>0, <2>1 DEF AddsUp
  <2>2. CASE s # {}
    <3>1. Picked(s) \in S /\ s \ {Picked(s)} \in UpTo(S, n)
      BY <2>2, OneLess
    <3>2. p[s \ {Picked(s)}] \in Int /\ f[Picked(s)] \in Int
      BY <1>2, <3>1
    <3> QED BY <2>0, <2>2, <3>2 DEF AddsUp
  <2> QED BY <2>1, <2>2
<1> HIDE DEF G
<1>3. Cardinality(S) \in G
  BY <1>1, <1>2, InductionOnSet, AllUpToSize
<1> QED BY <1>3, AllUpToSize DEF G, p

\* Any element may be taken first.
LEMMA PartialTakes ==
    ASSUME NEW f, NEW S, IsFiniteSet(S), \A x \in S : f[x] \in Int
    PROVE  \A s \in SUBSET S : \A x \in s :
              Partial(f, SUBSET S)[s] = f[x] + Partial(f, SUBSET S)[s \ {x}]
<1> DEFINE p == Partial(f, SUBSET S)
           G == {n \in Nat : \A s \in UpTo(S, n) : \A x \in s : p[s] = f[x] + p[s \ {x}]}
<1>0. (\A s \in SUBSET S : AddsUp(p, f, s)) /\ (\A s \in SUBSET S : p[s] \in Int)
  BY PartialUnfold, PartialInt
<1> HIDE DEF p
<1>1. 0 \in G
  BY NoneUpToZero
<1>2. ASSUME NEW n \in Nat, n \in G PROVE n + 1 \in G
  <2> SUFFICES ASSUME NEW s \in UpTo(S, n + 1), NEW x \in s PROVE p[s] = f[x] + p[s \ {x}]
    OBVIOUS
  <2> DEFINE y == Picked(s)
  <2>1. /\ s \in SUBSET S /\ y \in s
        /\ \A z \in s : s \ {z} \in UpTo(S, n) /\ s \ {z} \in SUBSET S
    BY OneLess
  <2>2. p[s] = f[y] + p[s \ {y}]
    <3>1. AddsUp(p, f, s) /\ s # {}
      BY <1>0, <2>1
    <3> QED BY <3>1 DEF AddsUp
  <2> HIDE DEF y
  <2>3. CASE x = y
    BY <2>2, <2>3
  <2>4. CASE x # y
    <3>1. p[s \ {y}] = f[x] + p[(s \ {y}) \ {x}]
      BY <1>2, <2>1, <2>4
    <3>2. p[s \ {x}] = f[y] + p[(s \ {x}) \ {y}]
      BY <1>2, <2>1, <2>4
    <3>3. (s \ {y}) \ {x} = (s \ {x}) \ {y}
      OBVIOUS
    <3>4. f[x] \in Int /\ f[y] \in Int /\ p[(s \ {x}) \ {y}] \in Int
      BY <1>0, <2>1
    <3> DEFINE r == p[(s \ {x}) \ {y}]
               a == f[x]
               b == f[y]
    <3>5. p[s] = b + (a + r) /\ p[s \ {x}] = b + r
      BY <2>2, <3>1, <3>2, <3>3
    <3>6. a \in Int /\ b \in Int /\ r \in Int
      BY <3>4
    <3> HIDE DEF a, b, r
    <3>7. p[s] = a + p[s \ {x}]
      BY <3>5, <3>6
    <3> QED BY <3>7 DEF a
  <2> QED BY <2>3, <2>4
<1> HIDE DEF G
<1>3. Cardinality(S) \in G
  BY <1>1, <1>2, InductionOnSet, AllUpToSize
<1> QED BY <1>3, AllUpToSize DEF G, p

\* The sum over a set depends on the function's values there only.
LEMMA PartialSame ==
    ASSUME NEW f, NEW g, NEW S, IsFiniteSet(S), NEW R, IsFiniteSet(R), S \subseteq R,
           \A x \in S : f[x] = g[x]
    PROVE  \A s \in SUBSET S : Partial(f, SUBSET S)[s] = Partial(g, SUBSET R)[s]
<1> DEFINE p == Partial(f, SUBSET S)
           q == Partial(g, SUBSET R)
           G == {n \in Nat : \A s \in UpTo(S, n) : p[s] = q[s]}
<1>0. (\A s \in SUBSET S : AddsUp(p, f, s)) /\ (\A s \in SUBSET R : AddsUp(q, g, s))
  BY PartialUnfold
<1> HIDE DEF p, q
<1>1. 0 \in G
  <2>1. AddsUp(p, f, {}) /\ AddsUp(q, g, {})
    BY <1>0
  <2> QED BY <2>1, NoneUpToZero DEF AddsUp
<1>2. ASSUME NEW n \in Nat, n \in G PROVE n + 1 \in G
  <2> SUFFICES ASSUME NEW s \in UpTo(S, n + 1) PROVE p[s] = q[s]
    OBVIOUS
  <2>1. AddsUp(p, f, s) /\ AddsUp(q, g, s)
    BY <1>0, OneLess
  <2>2. CASE s = {}
    BY <2>1, <2>2 DEF AddsUp
  <2>3. CASE s # {}
    <3>1. Picked(s) \in S /\ s \ {Picked(s)} \in UpTo(S, n)
      BY <2>3, OneLess
    <3>2. p[s \ {Picked(s)}] = q[s \ {Picked(s)}] /\ f[Picked(s)] = g[Picked(s)]
      BY <1>2, <3>1
    <3> QED BY <2>1, <2>3, <3>2 DEF AddsUp
  <2> QED BY <2>2, <2>3
<1> HIDE DEF G
<1>3. Cardinality(S) \in G
  BY <1>1, <1>2, InductionOnSet, AllUpToSize
<1> QED BY <1>3, AllUpToSize DEF G, p, q

-----------------------------------------------------------------------------
(* What a specification needs to know of a sum                             *)

\* The sum over no elements is 0.
LEMMA SumOfNone == ASSUME NEW f PROVE SumFunctionOnSet(f, {}) = 0
<1>1. AddsUp(Partial(f, SUBSET {}), f, {})
  BY FS_EmptySet, PartialUnfold
<1> QED BY <1>1, SumDef DEF AddsUp

\* A sum of integers is an integer.
LEMMA SumIsInt ==
    ASSUME NEW f, NEW S, IsFiniteSet(S), \A x \in S : f[x] \in Int
    PROVE  SumFunctionOnSet(f, S) \in Int
  BY SumDef, PartialInt

\* One element more adds its value.
LEMMA SumAdds ==
    ASSUME NEW f, NEW S, IsFiniteSet(S), NEW x, x \notin S, \A y \in S \cup {x} : f[y] \in Int
    PROVE  SumFunctionOnSet(f, S \cup {x}) = f[x] + SumFunctionOnSet(f, S)
<1> DEFINE R == S \cup {x}
<1>1. IsFiniteSet(R) /\ R \in SUBSET R /\ S \in SUBSET R /\ x \in R /\ R \ {x} = S
  BY FS_AddElement
<1>2. \A y \in R : f[y] \in Int
  OBVIOUS
<1> HIDE DEF R
<1>3. Partial(f, SUBSET R)[R] = f[x] + Partial(f, SUBSET R)[S]
  BY <1>1, <1>2, PartialTakes
<1>4. Partial(f, SUBSET S)[S] = Partial(f, SUBSET R)[S]
  BY <1>1, PartialSame
<1> QED BY <1>3, <1>4, SumDef DEF R

\* Functions that agree on a set have the same sum over it.
LEMMA SumSame ==
    ASSUME NEW f, NEW g, NEW S, IsFiniteSet(S), \A x \in S : f[x] = g[x]
    PROVE  SumFunctionOnSet(f, S) = SumFunctionOnSet(g, S)
<1>1. Partial(f, SUBSET S)[S] = Partial(g, SUBSET S)[S]
  BY PartialSame
<1> QED BY <1>1, SumDef

\* A sum is the sum over a part and the sum over the rest.
LEMMA SumSplits ==
    ASSUME NEW f, NEW S, IsFiniteSet(S), \A y \in S : f[y] \in Int, NEW R \in SUBSET S
    PROVE  SumFunctionOnSet(f, S) = SumFunctionOnSet(f, R) + SumFunctionOnSet(f, S \ R)
<1> DEFINE Splits(r) ==
             SumFunctionOnSet(f, S) = SumFunctionOnSet(f, r) + SumFunctionOnSet(f, S \ r)
           G == {n \in Nat : \A r \in UpTo(S, n) : Splits(r)}
<1>0. \A r \in SUBSET S : IsFiniteSet(r) /\ SumFunctionOnSet(f, r) \in Int
  BY FS_Subset, SumIsInt
<1>1. 0 \in G
  <2>1. Splits({})
    <3>1. S \ {} = S /\ S \in SUBSET S
      OBVIOUS
    <3> QED BY <1>0, <3>1, SumOfNone
  <2> HIDE DEF Splits
  <2> QED BY <2>1, NoneUpToZero
<1>2. ASSUME NEW n \in Nat, n \in G PROVE n + 1 \in G
  <2> SUFFICES ASSUME NEW r \in UpTo(S, n + 1) PROVE Splits(r)
    OBVIOUS
  <2>1. CASE r = {}
    BY <1>1, <2>1, FS_EmptySet DEF UpTo
  <2>2. CASE r # {}
    <3> DEFINE x == Picked(r)
               q == r \ {x}
               rest == S \ r
    <3>1. r \in SUBSET S /\ x \in r /\ q \in UpTo(S, n) /\ q \in SUBSET S
      BY <2>2, OneLess
    <3>2. Splits(q)
      BY <1>2, <3>1
    <3>3. r = q \cup {x} /\ S \ q = rest \cup {x} /\ x \notin q /\ x \notin rest /\ rest \in SUBSET S
      BY <3>1
    <3> HIDE DEF q, rest, x
    <3>4. SumFunctionOnSet(f, r) = f[x] + SumFunctionOnSet(f, q)
      BY <1>0, <3>1, <3>3, SumAdds
    <3>5. SumFunctionOnSet(f, S \ q) = f[x] + SumFunctionOnSet(f, rest)
      BY <1>0, <3>1, <3>3, SumAdds
    <3>6. /\ SumFunctionOnSet(f, q) \in Int /\ SumFunctionOnSet(f, rest) \in Int
          /\ f[x] \in Int
      BY <1>0, <3>1, <3>3
    <3>7. SumFunctionOnSet(f, S) = SumFunctionOnSet(f, q) + SumFunctionOnSet(f, S \ q)
      BY <3>2
    <3>8. SumFunctionOnSet(f, S) = SumFunctionOnSet(f, r) + SumFunctionOnSet(f, rest)
      BY <3>4, <3>5, <3>6, <3>7
    <3> QED BY <3>8 DEF rest
  <2> QED BY <2>1, <2>2
<1> HIDE DEF G, Splits
<1>3. Cardinality(S) \in G
  BY <1>1, <1>2, InductionOnSet, AllUpToSize
<1>4. Splits(R)
  BY <1>3, AllUpToSize DEF G
<1> QED BY <1>4 DEF Splits

\* A sum of naturals is a natural.
LEMMA SumIsNat ==
    ASSUME NEW f, NEW S, IsFiniteSet(S), \A y \in S : f[y] \in Nat
    PROVE  SumFunctionOnSet(f, S) \in Nat
<1> DEFINE G == {n \in Nat : \A r \in UpTo(S, n) : SumFunctionOnSet(f, r) \in Nat}
<1>1. 0 \in G
  <2>1. \A r \in UpTo(S, 0) : r = {}
    BY NoneUpToZero
  <2>2. SumFunctionOnSet(f, {}) \in Nat
    BY SumOfNone
  <2> QED BY <2>1, <2>2
<1>2. ASSUME NEW n \in Nat, n \in G PROVE n + 1 \in G
  <2> SUFFICES ASSUME NEW r \in UpTo(S, n + 1) PROVE SumFunctionOnSet(f, r) \in Nat
    OBVIOUS
  <2>1. CASE r = {}
    BY <2>1, SumOfNone
  <2>2. CASE r # {}
    <3> DEFINE x == Picked(r)
               q == r \ {x}
    <3>1. r \in SUBSET S /\ x \in r /\ q \in UpTo(S, n) /\ q \in SUBSET S
      BY <2>2, OneLess
    <3>2. r = q \cup {x} /\ x \notin q /\ IsFiniteSet(q)
      BY <3>1, FS_Subset
    <3>3. SumFunctionOnSet(f, q) \in Nat /\ f[x] \in Nat
      BY <1>2, <3>1
    <3>4. \A y \in q \cup {x} : f[y] \in Int
      BY <3>1
    <3> HIDE DEF q, x
    <3>5. SumFunctionOnSet(f, r) = f[x] + SumFunctionOnSet(f, q)
      BY <3>2, <3>4, SumAdds
    <3> QED BY <3>3, <3>5
  <2> QED BY <2>1, <2>2
<1> HIDE DEF G
<1>3. Cardinality(S) \in G
  BY <1>1, <1>2, InductionOnSet, AllUpToSize
<1> QED BY <1>3, AllUpToSize DEF G

-----------------------------------------------------------------------------
(* A table of holds                                                        *)

\* The units of k in the orders of the holds of h.
Column(h, k) == [i \in DOMAIN h |-> Lines[h[i].order][k]]

In(h, states) == {i \in DOMAIN h : h[i].state \in states}

\* The units of k in the holds of h that are in the state st.
Total(h, st, k) == SumFunctionOnSet(Column(h, k), In(h, {st}))

\* h with the holds numbered ids moved to the state st.
Moved(h, ids, st) ==
    [i \in DOMAIN h |-> IF i \in ids THEN [h[i] EXCEPT !.state = st] ELSE h[i]]

\* The reserved units, and the units on hand, after that.
ReservedAfter(res, h, ids) ==
    [k \in Skus |-> res[k] - SumFunction([i \in ids |-> Lines[h[i].order][k]])]
OnHandAfter(on, h, ids, st) ==
    [k \in Skus |-> IF st = "committed"
                      THEN on[k] - SumFunction([i \in ids |-> Lines[h[i].order][k]])
                      ELSE on[k]]

\* h2 continues h: a hold keeps its order and, once it is not held, its state.
Continues(h, h2) ==
    /\ Len(h) <= Len(h2)
    /\ \A i \in DOMAIN h :
          /\ i \in DOMAIN h2
          /\ h2[i].order = h[i].order
          /\ h[i].state # "held" => h2[i].state = h[i].state

LEMMA TableFacts ==
    ASSUME NEW h \in Seq(Hold)
    PROVE  /\ Len(h) \in Nat /\ DOMAIN h = 1..Len(h) /\ IsFiniteSet(DOMAIN h)
           /\ \A i \in DOMAIN h : h[i] \in Hold
           /\ \A ids \in SUBSET DOMAIN h : IsFiniteSet(ids)
           /\ \A states : IsFiniteSet(In(h, states)) /\ In(h, states) \subseteq DOMAIN h
<1>1. Len(h) \in Nat /\ DOMAIN h = 1..Len(h) /\ \A i \in DOMAIN h : h[i] \in Hold
  BY LenProperties, ElementOfSeq
<1>2. IsFiniteSet(DOMAIN h)
  BY <1>1, FS_Interval
<1>3. \A ids \in SUBSET DOMAIN h : IsFiniteSet(ids)
  BY <1>2, FS_Subset
<1>4. \A states : In(h, states) \subseteq DOMAIN h
  BY DEF In
<1> QED BY <1>1, <1>2, <1>3, <1>4

LEMMA ColumnFacts ==
    ASSUME NEW h \in Seq(Hold), NEW k \in Skus
    PROVE  \A i \in DOMAIN h : Column(h, k)[i] \in Nat /\ Column(h, k)[i] \in Int
<1>1. \A i \in DOMAIN h : h[i].order \in Orders
  BY TableFacts DEF Hold
<1>2. \A i \in DOMAIN h : Lines[h[i].order][k] \in Nat
  BY <1>1, InventoryAssumption
<1> QED BY <1>2 DEF Column

\* What the holds ids stand for is the sum over them of the column.
LEMMA UnitsAreSums ==
    ASSUME NEW h \in Seq(Hold), NEW ids \in SUBSET DOMAIN h, NEW k \in Skus
    PROVE  /\ SumFunction([i \in ids |-> Lines[h[i].order][k]])
                 = SumFunctionOnSet(Column(h, k), ids)
           /\ SumFunctionOnSet(Column(h, k), ids) \in Nat
<1> DEFINE f == [i \in ids |-> Lines[h[i].order][k]]
           c == Column(h, k)
<1>1. IsFiniteSet(ids) /\ DOMAIN f = ids
  BY TableFacts
<1>2. \A i \in ids : f[i] = c[i]
  BY DEF Column
<1>3. \A i \in ids : c[i] \in Nat
  BY ColumnFacts
<1> HIDE DEF f, c
<1>4. SumFunctionOnSet(f, ids) = SumFunctionOnSet(c, ids)
  BY <1>1, <1>2, SumSame
<1>5. SumFunctionOnSet(c, ids) \in Nat
  BY <1>1, <1>3, SumIsNat
<1>6. SumFunction(f) = SumFunctionOnSet(f, ids)
  BY <1>1 DEF SumFunction
<1> QED BY <1>4, <1>5, <1>6 DEF f, c

LEMMA TotalIsNat ==
    ASSUME NEW h \in Seq(Hold), NEW k \in Skus, NEW st
    PROVE  Total(h, st, k) \in Nat
<1>1. In(h, {st}) \in SUBSET DOMAIN h
  BY DEF In
<1> QED BY <1>1, UnitsAreSums DEF Total

\* Holds that leave the state held take their units with them, and bring them
\* to the state they are moved to.
LEMMA MovedFacts ==
    ASSUME NEW h \in Seq(Hold), NEW ids \in SUBSET In(h, {"held"}),
           NEW st \in HoldState, st # "held"
    PROVE  /\ Moved(h, ids, st) \in Seq(Hold)
           /\ Len(Moved(h, ids, st)) = Len(h) /\ DOMAIN Moved(h, ids, st) = DOMAIN h
           /\ \A i \in DOMAIN h :
                 /\ Moved(h, ids, st)[i].order = h[i].order
                 /\ Moved(h, ids, st)[i].expiresAt = h[i].expiresAt
                 /\ Moved(h, ids, st)[i].state = IF i \in ids THEN st ELSE h[i].state
<1> DEFINE m == Moved(h, ids, st)
<1>1. Len(h) \in Nat /\ DOMAIN h = 1..Len(h) /\ \A i \in DOMAIN h : h[i] \in Hold
  BY TableFacts
<1>2. \A i \in DOMAIN h :
          /\ [h[i] EXCEPT !.state = st] \in Hold
          /\ [h[i] EXCEPT !.state = st].order = h[i].order
          /\ [h[i] EXCEPT !.state = st].expiresAt = h[i].expiresAt
          /\ [h[i] EXCEPT !.state = st].state = st
  BY <1>1 DEF Hold
<1>3. m \in [1..Len(h) -> Hold]
  BY <1>1, <1>2 DEF Moved
<1>4. m \in Seq(Hold) /\ DOMAIN m = DOMAIN h
  BY <1>1, <1>3, SeqDef
<1>5. Len(m) = Len(h)
  BY <1>1, <1>4, LenProperties
<1>6. \A i \in DOMAIN h : m[i] = IF i \in ids THEN [h[i] EXCEPT !.state = st] ELSE h[i]
  BY DEF Moved
<1> QED BY <1>2, <1>4, <1>5, <1>6

LEMMA MovedTotals ==
    ASSUME NEW h \in Seq(Hold), NEW ids \in SUBSET In(h, {"held"}),
           NEW st \in HoldState, st # "held", NEW k \in Skus
    PROVE  LET u == SumFunction([i \in ids |-> Lines[h[i].order][k]])
           IN  /\ u \in Nat
               /\ Total(Moved(h, ids, st), "held", k) = Total(h, "held", k) - u
               /\ Total(Moved(h, ids, st), st, k) = Total(h, st, k) + u
               /\ \A x : x # "held" /\ x # st => Total(Moved(h, ids, st), x, k) = Total(h, x, k)
<1> DEFINE m == Moved(h, ids, st)
           c == Column(h, k)
           u == SumFunction([i \in ids |-> Lines[h[i].order][k]])
           held == In(h, {"held"})
           there == In(h, {st})
<1>0. /\ DOMAIN m = DOMAIN h
      /\ \A i \in DOMAIN h : /\ m[i].order = h[i].order
                             /\ m[i].state = IF i \in ids THEN st ELSE h[i].state
  BY MovedFacts
<1> HIDE DEF m
<1>1. Column(m, k) = c
  BY <1>0 DEF Column
<1>2. ids \in SUBSET DOMAIN h
  BY DEF In
<1>3. u = SumFunctionOnSet(c, ids) /\ u \in Nat
  BY <1>2, UnitsAreSums
<1>4. In(m, {"held"}) = held \ ids
  BY <1>0 DEF In
<1>5. In(m, {st}) = there \cup ids
  BY <1>0, <1>2 DEF In
<1>6. (there \cup ids) \ ids = there
  BY DEF In
<1>7. \A x : x # "held" /\ x # st => In(m, {x}) = In(h, {x})
  BY <1>0 DEF In
<1>8. /\ IsFiniteSet(held) /\ IsFiniteSet(there \cup ids)
      /\ \A i \in held : c[i] \in Int
      /\ \A i \in there \cup ids : c[i] \in Int
  <2>1. held \in SUBSET DOMAIN h /\ there \cup ids \in SUBSET DOMAIN h
    BY <1>2 DEF In
  <2> QED BY <2>1, TableFacts, ColumnFacts
<1> HIDE DEF u, c, held, there
<1>9. SumFunctionOnSet(c, held) = SumFunctionOnSet(c, ids) + SumFunctionOnSet(c, held \ ids)
  <2>1. ids \in SUBSET held
    BY DEF held
  <2> QED BY <1>8, <2>1, SumSplits
<1>10. SumFunctionOnSet(c, there \cup ids) = SumFunctionOnSet(c, ids) + SumFunctionOnSet(c, there)
  BY <1>6, <1>8, SumSplits
<1>11. /\ Total(h, "held", k) = SumFunctionOnSet(c, held)
       /\ Total(h, st, k) = SumFunctionOnSet(c, there)
       /\ Total(m, "held", k) = SumFunctionOnSet(c, held \ ids)
       /\ Total(m, st, k) = SumFunctionOnSet(c, there \cup ids)
  BY <1>1, <1>4, <1>5 DEF Total, c, held, there
<1>12. Total(m, "held", k) \in Int /\ Total(h, st, k) \in Int
  <2>1. m \in Seq(Hold)
    BY MovedFacts DEF m
  <2> QED BY <2>1, TotalIsNat
<1>13. \A x : x # "held" /\ x # st => Total(m, x, k) = Total(h, x, k)
  BY <1>1, <1>7 DEF Total, c
<1>14. /\ Total(m, "held", k) = Total(h, "held", k) - u
       /\ Total(m, st, k) = Total(h, st, k) + u
  BY <1>3, <1>9, <1>10, <1>11, <1>12
<1> QED BY <1>3, <1>13, <1>14 DEF m, u

\* A hold placed at the end adds its units to what is held.
LEMMA AppendFacts ==
    ASSUME NEW h \in Seq(Hold), NEW e \in Hold
    PROVE  /\ Append(h, e) \in Seq(Hold) /\ Len(Append(h, e)) = Len(h) + 1
           /\ DOMAIN Append(h, e) = DOMAIN h \cup {Len(h) + 1}
           /\ Len(h) + 1 \notin DOMAIN h
           /\ Append(h, e)[Len(h) + 1] = e
           /\ \A i \in DOMAIN h : Append(h, e)[i] = h[i]
<1> DEFINE a == Append(h, e)
<1>1. Len(h) \in Nat /\ DOMAIN h = 1..Len(h)
  BY TableFacts
<1>2. /\ a \in Seq(Hold) /\ Len(a) = Len(h) + 1
      /\ a[Len(h) + 1] = e /\ \A i \in 1..Len(h) : a[i] = h[i]
  BY AppendProperties
<1>3. DOMAIN a = 1..(Len(h) + 1)
  BY <1>2, TableFacts
<1> QED BY <1>1, <1>2, <1>3

LEMMA AppendTotals ==
    ASSUME NEW h \in Seq(Hold), NEW e \in Hold, e.state = "held", NEW k \in Skus
    PROVE  /\ Total(Append(h, e), "held", k) = Total(h, "held", k) + Lines[e.order][k]
           /\ Total(Append(h, e), "committed", k) = Total(h, "committed", k)
<1> DEFINE a == Append(h, e)
           n == Len(h) + 1
           c == Column(h, k)
           d == Column(a, k)
           held == In(h, {"held"})
           sold == In(h, {"committed"})
<1>1. /\ a \in Seq(Hold) /\ DOMAIN a = DOMAIN h \cup {n} /\ n \notin DOMAIN h
      /\ a[n] = e /\ \A i \in DOMAIN h : a[i] = h[i]
  BY AppendFacts
<1> HIDE DEF a, n
<1>2. In(a, {"held"}) = held \cup {n} /\ In(a, {"committed"}) = sold
  BY <1>1 DEF In
<1>3. d[n] = Lines[e.order][k] /\ \A i \in DOMAIN h : d[i] = c[i]
  BY <1>1 DEF Column
<1>4. \A i \in DOMAIN a : d[i] \in Int
  BY <1>1, ColumnFacts
<1>5. IsFiniteSet(held) /\ IsFiniteSet(sold) /\ held \subseteq DOMAIN h /\ sold \subseteq DOMAIN h
  BY TableFacts
<1> HIDE DEF c, d, held, sold
<1>6. SumFunctionOnSet(d, held \cup {n}) = d[n] + SumFunctionOnSet(d, held)
  <2>1. n \notin held /\ \A y \in held \cup {n} : d[y] \in Int
    BY <1>1, <1>4, <1>5
  <2> QED BY <1>5, <2>1, SumAdds
<1>7. SumFunctionOnSet(d, held) = SumFunctionOnSet(c, held)
  BY <1>3, <1>5, SumSame
<1>8. SumFunctionOnSet(d, sold) = SumFunctionOnSet(c, sold)
  BY <1>3, <1>5, SumSame
<1>9. /\ Total(a, "held", k) = SumFunctionOnSet(d, held \cup {n})
      /\ Total(a, "committed", k) = SumFunctionOnSet(d, sold)
      /\ Total(h, "held", k) = SumFunctionOnSet(c, held)
      /\ Total(h, "committed", k) = SumFunctionOnSet(c, sold)
  BY <1>2 DEF Total, c, d, held, sold
<1>10. Total(h, "held", k) \in Int /\ d[n] \in Int
  BY <1>1, <1>4, TotalIsNat
<1> QED BY <1>3, <1>6, <1>7, <1>8, <1>9, <1>10 DEF a

-----------------------------------------------------------------------------
(* Books: a table of holds, the index of orders and the stock table agree  *)

Books(h, by, res, on, rec) ==
    /\ h \in Seq(Hold)
    /\ by \in [Orders -> 0..Len(h)]
    /\ res \in [Skus -> Int] /\ on \in [Skus -> Int] /\ rec \in [Skus -> Nat]
    /\ \A k \in Skus : /\ res[k] = Total(h, "held", k)
                       /\ on[k] = rec[k] - Total(h, "committed", k)
                       /\ res[k] <= on[k]
    /\ \A i \in DOMAIN h : IsLive(h[i]) => by[h[i].order] = i
    /\ \A o \in Orders : by[o] # 0 => h[by[o]].order = o

\* Holds that expire, are released or are committed.
LEMMA BooksMove ==
    ASSUME NEW h, NEW by, NEW res, NEW on, NEW rec, Books(h, by, res, on, rec),
           NEW ids \in SUBSET In(h, {"held"}), NEW st \in HoldState, st # "held"
    PROVE  /\ Books(Moved(h, ids, st), by, ReservedAfter(res, h, ids), OnHandAfter(on, h, ids, st), rec)
           /\ Continues(h, Moved(h, ids, st))
<1> DEFINE m == Moved(h, ids, st)
           U(k) == SumFunction([i \in ids |-> Lines[h[i].order][k]])
           res2 == ReservedAfter(res, h, ids)
           on2 == OnHandAfter(on, h, ids, st)
<1>1. /\ h \in Seq(Hold) /\ by \in [Orders -> 0..Len(h)]
      /\ res \in [Skus -> Int] /\ on \in [Skus -> Int] /\ rec \in [Skus -> Nat]
      /\ \A i \in DOMAIN h : IsLive(h[i]) => by[h[i].order] = i
      /\ \A o \in Orders : by[o] # 0 => h[by[o]].order = o
  BY DEF Books
<1>2. /\ m \in Seq(Hold) /\ Len(m) = Len(h) /\ DOMAIN m = DOMAIN h
      /\ \A i \in DOMAIN h : /\ m[i].order = h[i].order
                             /\ m[i].state = IF i \in ids THEN st ELSE h[i].state
  BY <1>1, MovedFacts
<1>3. \A k \in Skus :
          /\ U(k) \in Nat
          /\ Total(m, "held", k) = Total(h, "held", k) - U(k)
          /\ Total(m, st, k) = Total(h, st, k) + U(k)
          /\ \A x : x # "held" /\ x # st => Total(m, x, k) = Total(h, x, k)
  BY <1>1, MovedTotals
<1>4. DOMAIN h = 1..Len(h) /\ Len(h) \in Nat /\ ids \subseteq DOMAIN h
      /\ \A i \in ids : h[i].state = "held"
  BY <1>1, TableFacts DEF In
<1>11. /\ res2 = [k \in Skus |-> res[k] - U(k)]
       /\ on2 = [k \in Skus |-> IF st = "committed" THEN on[k] - U(k) ELSE on[k]]
  BY DEF ReservedAfter, OnHandAfter
<1> HIDE DEF m, U, res2, on2
<1>5. ASSUME NEW k \in Skus
      PROVE  /\ res2[k] = Total(m, "held", k)
             /\ on2[k] = rec[k] - Total(m, "committed", k)
             /\ res2[k] <= on2[k]
  <2>1. /\ res[k] = Total(h, "held", k) /\ on[k] = rec[k] - Total(h, "committed", k)
        /\ res[k] <= on[k]
    BY DEF Books
  <2>2. Total(h, "held", k) \in Nat /\ Total(h, "committed", k) \in Nat /\ rec[k] \in Nat
    BY <1>1, TotalIsNat
  <2>3. U(k) \in Nat /\ Total(m, "held", k) = Total(h, "held", k) - U(k)
    BY <1>3
  <2>4. res2[k] = res[k] - U(k) /\ on2[k] = IF st = "committed" THEN on[k] - U(k) ELSE on[k]
    BY <1>11
  <2>5. st = "committed" => on2[k] = on[k] - U(k)
    BY <2>4
  <2>6. CASE st = "committed"
    <3>1. Total(m, "committed", k) = Total(h, "committed", k) + U(k)
      BY <1>3, <2>6
    <3> QED BY <2>1, <2>2, <2>3, <2>4, <2>5, <2>6, <3>1
  <2>7. CASE st # "committed"
    <3>1. Total(m, "committed", k) = Total(h, "committed", k)
      BY <1>3, <2>7
    <3> QED BY <2>1, <2>2, <2>3, <2>4, <2>5, <2>7, <3>1
  <2> QED BY <2>6, <2>7
<1>6. res2 \in [Skus -> Int] /\ on2 \in [Skus -> Int]
  <2>1. \A k \in Skus : res[k] - U(k) \in Int /\ on[k] - U(k) \in Int /\ on[k] \in Int
    BY <1>1, <1>3
  <2> QED BY <1>11, <2>1
<1>7. \A i \in DOMAIN m : IsLive(m[i]) => by[m[i].order] = i
  BY <1>1, <1>2, <1>4 DEF IsLive
<1>8. \A o \in Orders : by[o] # 0 => m[by[o]].order = o
  <2>1. \A o \in Orders : by[o] # 0 => by[o] \in DOMAIN h
    BY <1>1, <1>4
  <2> QED BY <1>1, <1>2, <2>1
<1>9. Books(m, by, res2, on2, rec)
  BY <1>1, <1>2, <1>5, <1>6, <1>7, <1>8 DEF Books
<1>10. Continues(h, m)
  BY <1>2, <1>4 DEF Continues
<1> QED BY <1>9, <1>10 DEF m, res2, on2

\* A hold for an order that has none in force, within what is available.
LEMMA BooksAppend ==
    ASSUME NEW h, NEW by, NEW res, NEW on, NEW rec, Books(h, by, res, on, rec),
           NEW e \in Hold, e.state = "held",
           by[e.order] # 0 => ~IsLive(h[by[e.order]]),
           \A k \in Skus : Lines[e.order][k] <= on[k] - res[k]
    PROVE  /\ Books(Append(h, e), [by EXCEPT ![e.order] = Len(h) + 1],
                    [k \in Skus |-> res[k] + Lines[e.order][k]], on, rec)
           /\ Continues(h, Append(h, e))
<1> DEFINE a == Append(h, e)
           o == e.order
           by2 == [by EXCEPT ![o] = Len(h) + 1]
           res2 == [k \in Skus |-> res[k] + Lines[o][k]]
<1>1. /\ h \in Seq(Hold) /\ by \in [Orders -> 0..Len(h)]
      /\ res \in [Skus -> Int] /\ on \in [Skus -> Int] /\ rec \in [Skus -> Nat]
      /\ \A i \in DOMAIN h : IsLive(h[i]) => by[h[i].order] = i
      /\ \A x \in Orders : by[x] # 0 => h[by[x]].order = x
  BY DEF Books
<1>2. /\ a \in Seq(Hold) /\ Len(a) = Len(h) + 1
      /\ DOMAIN a = DOMAIN h \cup {Len(h) + 1} /\ Len(h) + 1 \notin DOMAIN h
      /\ a[Len(h) + 1] = e /\ \A i \in DOMAIN h : a[i] = h[i]
  BY <1>1, AppendFacts
<1>3. /\ Len(h) \in Nat /\ DOMAIN h = 1..Len(h) /\ o \in Orders
      /\ \A i \in DOMAIN h : h[i].order \in Orders
  BY <1>1, TableFacts DEF Hold
<1>4. /\ by2 \in [Orders -> 0..Len(a)] /\ by2[o] = Len(h) + 1
      /\ \A x \in Orders : x # o => by2[x] = by[x]
  BY <1>1, <1>2, <1>3
<1>5. ASSUME NEW k \in Skus
      PROVE  /\ res2[k] \in Int
             /\ res2[k] = Total(a, "held", k)
             /\ on[k] = rec[k] - Total(a, "committed", k)
             /\ res2[k] <= on[k]
  <2>1. /\ Total(a, "held", k) = Total(h, "held", k) + Lines[o][k]
        /\ Total(a, "committed", k) = Total(h, "committed", k)
    BY <1>1, AppendTotals
  <2>2. res[k] = Total(h, "held", k) /\ on[k] = rec[k] - Total(h, "committed", k)
    BY DEF Books
  <2>3. Lines[o][k] \in Nat /\ Lines[o][k] <= on[k] - res[k]
    BY <1>3, InventoryAssumption
  <2>4. res[k] \in Int /\ on[k] \in Int
    BY <1>1
  <2> QED BY <2>1, <2>2, <2>3, <2>4
<1>6. res2 \in [Skus -> Int]
  BY <1>5
<1> HIDE DEF a, o, by2, res2
<1>7. \A i \in DOMAIN a : IsLive(a[i]) => by2[a[i].order] = i
  <2> SUFFICES ASSUME NEW i \in DOMAIN a, IsLive(a[i]) PROVE by2[a[i].order] = i
    OBVIOUS
  <2>1. CASE i = Len(h) + 1
    BY <1>2, <1>4, <2>1 DEF o
  <2>2. CASE i \in DOMAIN h
    <3>1. a[i] = h[i] /\ h[i].order \in Orders /\ by[h[i].order] = i /\ i # 0
      BY <1>1, <1>2, <1>3, <2>2
    <3>2. h[i].order # o
      BY <1>2, <2>2, <3>1 DEF o
    <3> QED BY <1>4, <3>1, <3>2
  <2> QED BY <1>2, <2>1, <2>2
<1>8. \A x \in Orders : by2[x] # 0 => a[by2[x]].order = x
  <2> SUFFICES ASSUME NEW x \in Orders, by2[x] # 0 PROVE a[by2[x]].order = x
    OBVIOUS
  <2>1. CASE x = o
    BY <1>2, <1>4, <2>1 DEF o
  <2>2. CASE x # o
    <3>1. by2[x] = by[x] /\ by[x] \in DOMAIN h
      BY <1>1, <1>3, <1>4, <2>2
    <3> QED BY <1>1, <1>2, <3>1
  <2> QED BY <2>1, <2>2
<1>9. Books(a, by2, res2, on, rec)
  BY <1>1, <1>2, <1>4, <1>5, <1>6, <1>7, <1>8 DEF Books
<1>10. Continues(h, a)
  BY <1>2, <1>3 DEF Continues
<1> QED BY <1>9, <1>10 DEF a, o, by2, res2

-----------------------------------------------------------------------------
(* The operations of the service keep the books                            *)

BooksBalance == Books(holds, byOrder, reserved, onHand, received) /\ now \in Nat

\* What the rest of the system sees of a step of the service: holds it knew
\* continue, and no sale appears but of the holds sold.
Served(sold) ==
    /\ BooksBalance' /\ Continues(holds, holds') /\ now <= now'
    /\ \A i \in DOMAIN holds' :
          holds'[i].state = "committed"
             => i \in sold \/ (i \in DOMAIN holds /\ holds[i].state = "committed")

\* The books as the sweep leaves them.
LEMMA SweepFacts ==
    ASSUME BooksBalance, NEW at
    PROVE  /\ Lapsed(at) \in SUBSET In(holds, {"held"})
           /\ SweptHolds(at) = Moved(holds, Lapsed(at), "expired")
           /\ Books(SweptHolds(at), byOrder, SweptReserved(at), onHand, received)
           /\ Continues(holds, SweptHolds(at))
           /\ Len(SweptHolds(at)) = Len(holds) /\ DOMAIN SweptHolds(at) = DOMAIN holds
           /\ \A i \in DOMAIN holds :
                 /\ SweptHolds(at)[i].order = holds[i].order
                 /\ SweptHolds(at)[i].expiresAt = holds[i].expiresAt
                 /\ SweptHolds(at)[i].state = IF i \in Lapsed(at) THEN "expired" ELSE holds[i].state
<1>1. Lapsed(at) \in SUBSET In(holds, {"held"})
  BY DEF Lapsed, In
<1>2. SweptHolds(at) = Moved(holds, Lapsed(at), "expired")
  BY DEF SweptHolds, WithState, Moved
<1>3. SweptReserved(at) = ReservedAfter(reserved, holds, Lapsed(at))
  BY DEF SweptReserved, WithoutUnits, Units, ReservedAfter
<1>4. holds \in Seq(Hold) /\ onHand \in [Skus -> Int]
  BY DEF BooksBalance, Books
<1>5. "expired" \in HoldState /\ "expired" # "held" /\ "expired" # "committed"
  BY DEF HoldState
<1>6. /\ Books(Moved(holds, Lapsed(at), "expired"), byOrder, SweptReserved(at), onHand, received)
      /\ Continues(holds, Moved(holds, Lapsed(at), "expired"))
  <2>1. Books(holds, byOrder, reserved, onHand, received)
    BY DEF BooksBalance
  <2>2. OnHandAfter(onHand, holds, Lapsed(at), "expired") = onHand
    BY <1>4, <1>5 DEF OnHandAfter
  <2> QED BY <1>1, <1>3, <1>5, <2>1, <2>2, BooksMove
<1>7. /\ Len(Moved(holds, Lapsed(at), "expired")) = Len(holds)
      /\ DOMAIN Moved(holds, Lapsed(at), "expired") = DOMAIN holds
      /\ \A i \in DOMAIN holds :
            /\ Moved(holds, Lapsed(at), "expired")[i].order = holds[i].order
            /\ Moved(holds, Lapsed(at), "expired")[i].expiresAt = holds[i].expiresAt
            /\ Moved(holds, Lapsed(at), "expired")[i].state
                  = IF i \in Lapsed(at) THEN "expired" ELSE holds[i].state
  BY <1>1, <1>4, <1>5, MovedFacts
<1> QED BY <1>1, <1>2, <1>6, <1>7

LEMMA SweepServes ==
    ASSUME BooksBalance, NEW at, holds' = SweptHolds(at), reserved' = SweptReserved(at),
           UNCHANGED <<now, onHand, byOrder, received>>
    PROVE  Served({})
<1>1. Books(holds', byOrder', reserved', onHand', received') /\ now' \in Nat /\ now <= now'
  BY SweepFacts DEF BooksBalance
<1>2. \A i \in DOMAIN holds' : holds'[i].state = "committed"
          => i \in DOMAIN holds /\ holds[i].state = "committed"
  BY SweepFacts
<1>3. Continues(holds, holds')
  BY SweepFacts
<1> QED BY <1>1, <1>2, <1>3 DEF Served, BooksBalance

LEMMA AgainServes ==
    ASSUME BooksBalance, NEW o \in Orders, NEW at, ReserveAgain(o, at)
    PROVE  Served({}) /\ byOrder'[o] # 0
<1>1. Served({})
  BY SweepServes DEF ReserveAgain
<1>2. byOrder[o] # 0 /\ byOrder' = byOrder
  BY DEF ReserveAgain, LiveHold
<1> QED BY <1>1, <1>2

LEMMA ShortServes ==
    ASSUME BooksBalance, NEW o \in Orders, NEW at, ReserveShort(o, at)
    PROVE  Served({})
  BY SweepServes DEF ReserveShort

LEMMA FreshServes ==
    ASSUME BooksBalance, NEW o \in Orders, NEW at \in Nat, ReserveFresh(o, at)
    PROVE  /\ Served({}) /\ byOrder'[o] = Len(holds) + 1 /\ byOrder'[o] # 0
           /\ holds'[byOrder'[o]] = [order |-> o, expiresAt |-> at + HoldTtl, state |-> "held"]
           /\ \A i \in DOMAIN holds : holds'[i] = SweptHolds(at)[i]
<1> DEFINE e == [order |-> o, expiresAt |-> at + HoldTtl, state |-> "held"]
<1>1. /\ e \in Hold /\ e.order = o /\ e.state = "held"
  <2>1. at + HoldTtl \in Nat
    BY InventoryAssumption
  <2> QED BY <2>1 DEF Hold, HoldState
<1>2. /\ holds' = Append(SweptHolds(at), e)
      /\ reserved' = [k \in Skus |-> SweptReserved(at)[k] + Lines[e.order][k]]
      /\ byOrder' = [byOrder EXCEPT ![e.order] = Len(SweptHolds(at)) + 1]
      /\ UNCHANGED <<now, onHand, received>>
  BY SweepFacts DEF ReserveFresh
<1>3. byOrder[e.order] # 0 => ~IsLive(SweptHolds(at)[byOrder[e.order]])
  BY DEF ReserveFresh, LiveHold
<1>4. \A k \in Skus : Lines[e.order][k] <= onHand[k] - SweptReserved(at)[k]
  BY DEF ReserveFresh, Enough
<1> HIDE DEF e
<1>5. Books(SweptHolds(at), byOrder, SweptReserved(at), onHand, received) /\ Continues(holds, SweptHolds(at))
  BY SweepFacts
<1>6. /\ Books(holds', byOrder', reserved', onHand', received')
      /\ Continues(SweptHolds(at), holds')
  BY <1>1, <1>2, <1>3, <1>4, <1>5, BooksAppend
<1>7. /\ SweptHolds(at) \in Seq(Hold) /\ DOMAIN SweptHolds(at) = DOMAIN holds
      /\ Len(SweptHolds(at)) = Len(holds) /\ Len(holds) \in Nat
      /\ \A i \in DOMAIN holds : SweptHolds(at)[i].state = "committed" => holds[i].state = "committed"
  <2>1. holds \in Seq(Hold) /\ SweptHolds(at) \in Seq(Hold)
    BY <1>5 DEF BooksBalance, Books
  <2> QED BY <2>1, SweepFacts, TableFacts
<1>8. /\ DOMAIN holds' = DOMAIN holds \cup {Len(holds) + 1}
      /\ holds'[Len(holds) + 1] = e
      /\ \A i \in DOMAIN holds : holds'[i] = SweptHolds(at)[i]
  BY <1>1, <1>2, <1>7, AppendFacts
<1>9. \A i \in DOMAIN holds' : holds'[i].state = "committed"
          => i \in DOMAIN holds /\ holds[i].state = "committed"
  BY <1>1, <1>7, <1>8
<1>10. Len(holds') \in Nat /\ Len(holds) <= Len(holds')
  BY <1>5, <1>6 DEF Continues
<1>11. Continues(holds, holds')
  BY <1>5, <1>7, <1>8, <1>10 DEF Continues
<1>12. byOrder'[o] = Len(holds) + 1
  <2>1. byOrder \in [Orders -> 0..Len(holds)]
    BY DEF BooksBalance, Books
  <2> QED BY <1>1, <1>2, <1>7, <2>1
<1>13. now' \in Nat /\ now <= now'
  BY <1>2 DEF BooksBalance
<1> QED BY <1>6, <1>7, <1>8, <1>9, <1>11, <1>12, <1>13 DEF Served, BooksBalance, e

LEMMA CommitServes ==
    ASSUME BooksBalance, NEW i \in DOMAIN holds, Commit(i)
    PROVE  Served({i}) /\ i \in DOMAIN holds' /\ holds'[i].state = "committed"
<1> DEFINE sold == {i} \ {j \in {i} : holds[j].state = "committed"}
<1>1. /\ IsLive(holds[i])
      /\ onHand' = [k \in Skus |-> onHand[k] - Units(sold, k)]
      /\ reserved' = WithoutUnits(sold) /\ holds' = WithState(sold, "committed")
      /\ UNCHANGED <<now, byOrder, received>>
  BY DEF Commit, CanCommit
<1>2. sold \in SUBSET In(holds, {"held"}) /\ sold \subseteq {i}
  BY <1>1 DEF IsLive, In
<1>3. i \notin sold => holds[i].state = "committed"
  OBVIOUS
<1> HIDE DEF sold
<1>4. /\ holds' = Moved(holds, sold, "committed")
      /\ reserved' = ReservedAfter(reserved, holds, sold)
      /\ onHand' = OnHandAfter(onHand, holds, sold, "committed")
  BY <1>1 DEF WithState, Moved, WithoutUnits, Units, ReservedAfter, OnHandAfter
<1>5. /\ Books(holds, byOrder, reserved, onHand, received)
      /\ holds \in Seq(Hold) /\ onHand \in [Skus -> Int] /\ now \in Nat
  BY DEF BooksBalance, Books
<1>7. "committed" \in HoldState /\ "committed" # "held"
  BY DEF HoldState
<1>8. /\ Books(Moved(holds, sold, "committed"), byOrder,
               ReservedAfter(reserved, holds, sold),
               OnHandAfter(onHand, holds, sold, "committed"), received)
      /\ Continues(holds, Moved(holds, sold, "committed"))
  BY <1>2, <1>5, <1>7, BooksMove
<1>9. Books(holds', byOrder', reserved', onHand', received') /\ Continues(holds, holds')
  BY <1>1, <1>4, <1>8
<1>10. /\ DOMAIN holds' = DOMAIN holds
       /\ \A j \in DOMAIN holds :
             holds'[j].state = IF j \in sold THEN "committed" ELSE holds[j].state
  BY <1>2, <1>4, <1>5, <1>7, MovedFacts
<1>11. now' \in Nat /\ now <= now'
  BY <1>1, <1>5
<1>12. \A j \in DOMAIN holds' : holds'[j].state = "committed"
          => j \in {i} \/ (j \in DOMAIN holds /\ holds[j].state = "committed")
  BY <1>2, <1>10
<1>13. holds'[i].state = "committed"
  BY <1>3, <1>10
<1> QED BY <1>9, <1>10, <1>11, <1>12, <1>13 DEF Served, BooksBalance

LEMMA ReleaseServes ==
    ASSUME BooksBalance, NEW i \in DOMAIN holds, Release(i)
    PROVE  Served({}) /\ i \in DOMAIN holds' /\ holds'[i].state # "held"
<1> DEFINE returned == {j \in {i} : holds[j].state = "held"}
<1>1. /\ reserved' = WithoutUnits(returned) /\ holds' = WithState(returned, "released")
      /\ UNCHANGED <<now, onHand, byOrder, received>>
  BY DEF Release
<1>2. returned \in SUBSET In(holds, {"held"})
  BY DEF In
<1>3. i \notin returned => holds[i].state # "held"
  OBVIOUS
<1> HIDE DEF returned
<1>4. /\ holds' = Moved(holds, returned, "released")
      /\ reserved' = ReservedAfter(reserved, holds, returned)
  BY <1>1 DEF WithState, Moved, WithoutUnits, Units, ReservedAfter
<1>5. /\ Books(holds, byOrder, reserved, onHand, received)
      /\ holds \in Seq(Hold) /\ onHand \in [Skus -> Int] /\ now \in Nat
  BY DEF BooksBalance, Books
<1>6. "released" \in HoldState /\ "released" # "held" /\ "released" # "committed"
  BY DEF HoldState
<1>7. /\ Books(Moved(holds, returned, "released"), byOrder,
               ReservedAfter(reserved, holds, returned), onHand, received)
      /\ Continues(holds, Moved(holds, returned, "released"))
  <2>1. OnHandAfter(onHand, holds, returned, "released") = onHand
    BY <1>5, <1>6 DEF OnHandAfter
  <2> QED BY <1>2, <1>5, <1>6, <2>1, BooksMove
<1>8. Books(holds', byOrder', reserved', onHand', received') /\ Continues(holds, holds')
  BY <1>1, <1>4, <1>7
<1>9. /\ DOMAIN holds' = DOMAIN holds
      /\ \A j \in DOMAIN holds :
            holds'[j].state = IF j \in returned THEN "released" ELSE holds[j].state
  BY <1>2, <1>4, <1>5, <1>6, MovedFacts
<1>10. now' \in Nat /\ now <= now'
  BY <1>1, <1>5
<1>11. holds'[i].state # "held"
  BY <1>3, <1>6, <1>9
<1>12. \A j \in DOMAIN holds' : holds'[j].state = "committed"
          => j \in DOMAIN holds /\ holds[j].state = "committed"
  BY <1>6, <1>9
<1> QED BY <1>8, <1>9, <1>10, <1>11, <1>12 DEF Served, BooksBalance

LEMMA InventoryServes ==
    ASSUME BooksBalance, Inventory
    PROVE  Served({})
<1>0. /\ Books(holds, byOrder, reserved, onHand, received) /\ now \in Nat
      /\ holds \in Seq(Hold) /\ Len(holds) \in Nat
      /\ onHand \in [Skus -> Int] /\ received \in [Skus -> Nat]
  BY TableFacts DEF BooksBalance, Books
<1>1. Continues(holds, holds)
  BY <1>0 DEF Continues
<1>2. CASE Expire
  BY <1>2, SweepServes DEF Expire
<1>3. ASSUME NEW k \in Skus, StockIn(k) PROVE Served({})
  <2>1. /\ onHand' = [onHand EXCEPT ![k] = @ + 1]
        /\ received' = [received EXCEPT ![k] = @ + 1]
        /\ UNCHANGED <<now, reserved, holds, byOrder>>
    BY <1>3 DEF StockIn
  <2>2. onHand' \in [Skus -> Int] /\ received' \in [Skus -> Nat]
    BY <1>0, <2>1
  <2>3. \A x \in Skus : Total(holds, "committed", x) \in Nat /\ reserved[x] \in Int
    BY <1>0, TotalIsNat DEF Books
  <2>4. \A x \in Skus : /\ onHand'[x] = received'[x] - Total(holds, "committed", x)
                        /\ reserved[x] <= onHand'[x]
    <3> SUFFICES ASSUME NEW x \in Skus
                 PROVE  /\ onHand'[x] = received'[x] - Total(holds, "committed", x)
                        /\ reserved[x] <= onHand'[x]
      OBVIOUS
    <3>1. /\ onHand[x] = received[x] - Total(holds, "committed", x)
          /\ reserved[x] <= onHand[x]
      BY <1>0 DEF Books
    <3>2. \/ onHand'[x] = onHand[x] /\ received'[x] = received[x]
          \/ onHand'[x] = onHand[x] + 1 /\ received'[x] = received[x] + 1
      BY <1>0, <2>1
    <3>3. onHand[x] \in Int /\ received[x] \in Nat
      BY <1>0
    <3> QED BY <2>3, <3>1, <3>2, <3>3
  <2>5. Books(holds, byOrder, reserved, onHand', received')
    BY <1>0, <2>2, <2>4 DEF Books
  <2> QED BY <1>0, <1>1, <2>1, <2>5 DEF Served, BooksBalance
<1>4. CASE Tick
  BY <1>0, <1>1, <1>4 DEF Tick, Served, BooksBalance
<1> QED BY <1>2, <1>3, <1>4 DEF Inventory

LEMMA IdleServes ==
    ASSUME BooksBalance, UNCHANGED inventoryVars
    PROVE  Served({})
<1>1. holds \in Seq(Hold) /\ Len(holds) \in Nat
  BY TableFacts DEF BooksBalance, Books
<1>2. Continues(holds, holds)
  BY <1>1 DEF Continues
<1> QED BY <1>1, <1>2 DEF Served, BooksBalance, inventoryVars

-----------------------------------------------------------------------------
(* The steps of a saga                                                     *)

\* What a thread's place in its saga implies.  A log is written in the order
\* of the steps, and not reversed once the charge is in it.
SagaShape(t) ==
    /\ state[t] = "none" => done[t] = {} /\ pc[t] = "idle" /\ reservationId[t] = 0
    /\ state[t] \in {"none", "running"} => undone[t] = {}
    /\ pc[t] # "idle" => state[t] \in {"running", "compensating"}
    /\ state[t] # "none" => orderOf[t] \in Orders
    /\ \A i, j \in Step : i < j /\ j \in done[t] => i \in done[t]
    /\ 2 \in done[t] => state[t] \notin {"compensating", "compensated"}

\* The call of step i of t to its service has been made.
Called(t, i) == i \in done[t] \/ (Runs(t, i) /\ pc[t] \in {"inAction", "acted"})

\* The stock of t has been given back, or there was none.
GaveBack(t) ==
    \/ state[t] = "compensated"
    \/ /\ state[t] = "compensating"
       /\ 1 \notin done[t] \/ 1 \in undone[t] \/ pc[t] \in {"inAction", "acted"}

\* What has been called is so in the services.
SagaCalls(t) ==
    /\ reservationId[t] # 0 => holds[reservationId[t]].order = orderOf[t]
    /\ Called(t, 1) => reservationId[t] # 0
    /\ Called(t, 2) => orderOf[t] \in charged
    /\ Called(t, 3) => holds[reservationId[t]].state = "committed"
    /\ \A i \in Step : i \in done[t] \/ (Runs(t, i) /\ pc[t] = "acted")
          => Event(t, Topic[i]) \in outbox
    /\ GaveBack(t) /\ reservationId[t] # 0 => holds[reservationId[t]].state # "held"

SagaFine(t) == SagaShape(t) /\ SagaCalls(t)

CheckoutTypes ==
    /\ orderOf \in [Sagas -> Orders \cup {NoOrder}]
    /\ reservationId \in [Sagas -> 0..Len(holds)]
    /\ charged \subseteq Orders
    /\ \A e \in outbox :
          e.order \in Orders /\ e.topic \in {Topic[i] : i \in Step} \cup {"order-cancelled"}

\* A reading of the clock is of the present or the past.
ReadingsPast == reading \in [Sagas -> NoReading..now]

SoldIsPaid == \A i \in In(holds, {"committed"}) : holds[i].order \in charged

\* The inductive invariant.
Inv ==
    /\ BooksBalance /\ SagaTypeOK /\ CheckoutTypes
    /\ \A t \in Sagas : SagaFine(t)
    /\ SoldIsPaid /\ ReadingsPast

LEMMA StepFacts ==
    /\ Step = 1..4 /\ Undoable = {1, 2}
    /\ Kind[1] # "retriable" /\ Kind[2] # "retriable"
  BY CheckoutAssumption
     DEF Step, Kinds, WithCompensation, reserve_inventory, charge_payment

LEMMA MinOfSteps ==
    ASSUME NEW S \in SUBSET (1..4), S # {}
    PROVE  Min(S) \in S /\ \A x \in S : Min(S) <= x
<1>1. \E x \in S : \A y \in S : x <= y
  <2>1. CASE 1 \in S
    BY <2>1
  <2>2. CASE 1 \notin S /\ 2 \in S
    BY <2>2
  <2>3. CASE 1 \notin S /\ 2 \notin S /\ 3 \in S
    BY <2>3
  <2>4. CASE 1 \notin S /\ 2 \notin S /\ 3 \notin S /\ 4 \in S
    BY <2>4
  <2>5. PICK z : z \in S
    OBVIOUS
  <2>6. z = 1 \/ z = 2 \/ z = 3 \/ z = 4
    BY <2>5
  <2> QED BY <2>1, <2>2, <2>3, <2>4, <2>5, <2>6
<1> QED BY <1>1 DEF Min

LEMMA MaxOfOne == ASSUME NEW n \in Nat PROVE Max({n}) = n
  BY DEF Max

\* Which step is at hand.
LEMMA AtFacts ==
    ASSUME SagaTypeOK, NEW t \in Sagas, SagaShape(t)
    PROVE  /\ \A i : Runs(t, i) =>
                 /\ state[t] = "running" /\ i \in Step
                 /\ \A j \in Step : j \in done[t] <=> j < i
           /\ \A i : Undoes(t, i) =>
                 /\ state[t] = "compensating" /\ i = 1
                 /\ 1 \in done[t] /\ 1 \notin undone[t]
           /\ state[t] = "compensating" /\ (\A i \in Step : ~At(t, i))
                 => 1 \notin done[t] \/ 1 \in undone[t]
           /\ \A i, j : Runs(t, i) /\ Runs(t, j) => i = j
           /\ \A i, j : Runs(t, i) => ~Undoes(t, j)
<1>0. done[t] \in SUBSET (1..4) /\ undone[t] \in SUBSET (1..4)
  BY StepFacts DEF SagaTypeOK
<1>1. ASSUME NEW i, Runs(t, i)
      PROVE  /\ state[t] = "running" /\ i \in Step
             /\ \A j \in Step : j \in done[t] <=> j < i
  <2>1. state[t] = "running" /\ Forward(t) # {} /\ i = Min(Forward(t))
    BY <1>1 DEF Runs
  <2>2. Forward(t) \in SUBSET (1..4)
    BY StepFacts DEF Forward
  <2>3. i \in Forward(t) /\ \A x \in Forward(t) : i <= x
    BY <2>1, <2>2, MinOfSteps
  <2>4. \A x \in Step : x \in Forward(t) <=> x \notin done[t]
    BY DEF Forward
  <2>5. \A x, j \in Step : x < j /\ j \in done[t] => x \in done[t]
    BY DEF SagaShape
  <2>6. ASSUME NEW j \in Step PROVE j \in done[t] <=> j < i
    <3>1. i \in 1..4 /\ j \in 1..4 /\ i \notin done[t]
      BY <2>2, <2>3, <2>4, StepFacts
    <3>2. j \notin done[t] => i <= j
      BY <2>3, <2>4
    <3>3. j \in done[t] => ~(i < j)
      BY <2>5, <3>1, StepFacts
    <3> QED BY <3>1, <3>2, <3>3
  <2> QED BY <2>1, <2>2, <2>3, <2>6, StepFacts
<1>2. state[t] = "compensating" /\ ToUndo(t) # {}
         => ToUndo(t) = {1} /\ 1 \in done[t] /\ 1 \notin undone[t]
  BY StepFacts DEF ToUndo, SagaShape
<1>3. ASSUME NEW i, Undoes(t, i)
      PROVE  state[t] = "compensating" /\ i = 1 /\ 1 \in done[t] /\ 1 \notin undone[t]
  BY <1>2, <1>3, MaxOfOne DEF Undoes
<1>4. ASSUME state[t] = "compensating", \A i \in Step : ~At(t, i), 1 \in done[t], 1 \notin undone[t]
      PROVE  FALSE
  <2>1. ToUndo(t) # {}
    BY <1>4, StepFacts DEF ToUndo
  <2>2. Undoes(t, 1)
    BY <1>2, <1>4, <2>1, MaxOfOne DEF Undoes
  <2> QED BY <1>4, <2>2, StepFacts DEF At
<1>5. \A i, j : Runs(t, i) /\ Runs(t, j) => i = j
  BY DEF Runs
<1> QED BY <1>1, <1>3, <1>4, <1>5

LEMMA SameSteps ==
    ASSUME NEW t, state'[t] = state[t], done'[t] = done[t]
    PROVE  \A i : Runs(t, i)' <=> Runs(t, i)
  BY DEF Runs, Forward

\* What other sagas, the sweeper and deaths do to t, and what a retry does.
LEMMA SagaStays ==
    ASSUME Inv, NEW t \in Sagas, Continues(holds, holds'),
           charged \subseteq charged', outbox \subseteq outbox',
           state'[t] = state[t], done'[t] = done[t], undone'[t] = undone[t],
           orderOf'[t] = orderOf[t], reservationId'[t] = reservationId[t],
           pc'[t] \in {pc[t], "idle", "try"},
           pc'[t] # "idle" => state[t] \in {"running", "compensating"}
    PROVE  SagaFine(t)'
<1>1. SagaShape(t) /\ SagaCalls(t)
  BY DEF Inv, SagaFine
<1>2. \A i : Runs(t, i)' <=> Runs(t, i)
  BY SameSteps
<1>3. SagaShape(t)'
  BY <1>1 DEF SagaShape
<1>4. \A i : Called(t, i)' => Called(t, i)
  BY <1>2 DEF Called
<1>5. GaveBack(t)' => GaveBack(t)
  BY DEF GaveBack
<1>6. ASSUME reservationId[t] # 0
      PROVE  LET h == holds[reservationId[t]]
                 h2 == holds'[reservationId'[t]]
             IN  h2.order = h.order /\ (h.state # "held" => h2.state = h.state)
  <2>1. reservationId[t] \in 0..Len(holds) /\ holds \in Seq(Hold)
    BY DEF Inv, CheckoutTypes, BooksBalance, Books
  <2>2. reservationId[t] \in DOMAIN holds
    BY <1>6, <2>1, TableFacts
  <2> QED BY <2>2 DEF Continues
<1>7. \A x : Event(t, x)' = Event(t, x)
  BY DEF Event
<1>8. Called(t, 3) => reservationId[t] # 0
  <2>1. Called(t, 3) => 1 \in done[t]
    <3>1. 3 \in done[t] => 1 \in done[t]
      BY <1>1, StepFacts DEF SagaShape
    <3>2. Runs(t, 3) => 1 \in done[t]
      BY <1>1, AtFacts, StepFacts DEF Inv
    <3> QED BY <3>1, <3>2 DEF Called
  <2> QED BY <1>1, <2>1 DEF SagaCalls, Called
<1>9. SagaCalls(t)'
  <2>1. (reservationId[t] # 0 => holds[reservationId[t]].order = orderOf[t])'
    BY <1>1, <1>6 DEF SagaCalls
  <2>2. (Called(t, 1) => reservationId[t] # 0)' /\ (Called(t, 2) => orderOf[t] \in charged)'
    BY <1>1, <1>4 DEF SagaCalls
  <2>3. (Called(t, 3) => holds[reservationId[t]].state = "committed")'
    BY <1>1, <1>4, <1>6, <1>8 DEF SagaCalls
  <2>4. (\A i \in Step : i \in done[t] \/ (Runs(t, i) /\ pc[t] = "acted")
            => Event(t, Topic[i]) \in outbox)'
    BY <1>1, <1>2, <1>7 DEF SagaCalls
  <2>5. (GaveBack(t) /\ reservationId[t] # 0 => holds[reservationId[t]].state # "held")'
    BY <1>1, <1>5, <1>6 DEF SagaCalls
  <2> QED BY <2>1, <2>2, <2>3, <2>4, <2>5 DEF SagaCalls
<1> QED BY <1>3, <1>9 DEF SagaFine

\* A thread whose call to the service of step i returns.
LEMMA SagaActs ==
    ASSUME Inv, NEW t \in Sagas, NEW i, Acts(t, i), Continues(holds, holds'),
           charged \subseteq charged', outbox' = outbox, orderOf'[t] = orderOf[t],
           reservationId'[t] # 0 => holds'[reservationId'[t]].order = orderOf[t],
           Runs(t, i) /\ i = 1 => reservationId'[t] # 0,
           ~(Runs(t, i) /\ i = 1) => reservationId'[t] = reservationId[t],
           Runs(t, i) /\ i = 2 => orderOf[t] \in charged',
           Runs(t, i) /\ i = 3 => holds'[reservationId'[t]].state = "committed",
           Undoes(t, i) /\ reservationId[t] # 0 => holds'[reservationId[t]].state # "held"
    PROVE  SagaFine(t)'
<1>1. SagaShape(t) /\ SagaCalls(t) /\ SagaTypeOK
  BY DEF Inv, SagaFine
<1>2. /\ At(t, i) /\ state' = state /\ done' = done /\ undone' = undone
      /\ pc'[t] = "inAction" /\ state[t] \in {"running", "compensating"}
  <2>1. state[t] \in {"running", "compensating"}
    BY DEF Acts, At, Runs, Undoes
  <2> QED BY <1>1, <2>1 DEF Acts, SagaTypeOK
<1>3. /\ Runs(t, i) => state[t] = "running" /\ i \in Step /\ \A j \in Step : j \in done[t] <=> j < i
      /\ Undoes(t, i) => state[t] = "compensating"
      /\ \A j : Runs(t, i) /\ Runs(t, j) => i = j
      /\ \A j : Undoes(t, i) => ~Runs(t, j)
  BY <1>1, AtFacts
<1>4. \A j : Runs(t, j)' <=> Runs(t, j)
  BY <1>2, SameSteps
<1>5. SagaShape(t)'
  <2>1. Runs(t, i) \/ Undoes(t, i)
    BY <1>2 DEF At
  <2>2. state[t] # "none"
    BY <1>2
  <2> QED BY <1>1, <1>2, <2>2 DEF SagaShape
<1>6. \A j : Called(t, j)' => j \in done[t] \/ (Runs(t, i) /\ i = j)
  BY <1>2, <1>3, <1>4 DEF Called, At
<1>7. \A j : j \in done[t] => Called(t, j)
  BY DEF Called
<1>8. ASSUME reservationId[t] # 0
      PROVE  /\ holds'[reservationId[t]].order = holds[reservationId[t]].order
             /\ holds[reservationId[t]].state # "held"
                   => holds'[reservationId[t]].state = holds[reservationId[t]].state
  <2>1. reservationId[t] \in 0..Len(holds) /\ holds \in Seq(Hold)
    BY DEF Inv, CheckoutTypes, BooksBalance, Books
  <2>2. reservationId[t] \in DOMAIN holds
    BY <1>8, <2>1, TableFacts
  <2> QED BY <2>2 DEF Continues
<1>9. \A x : Event(t, x)' = Event(t, x)
  BY DEF Event
<1>10. (Called(t, 1) => reservationId[t] # 0)' /\ (Called(t, 2) => orderOf[t] \in charged)'
  <2>1. 1 \in done[t] => reservationId[t] # 0 /\ ~(Runs(t, i) /\ i = 1)
    BY <1>1, <1>3, <1>7, StepFacts DEF SagaCalls
  <2>2. 2 \in done[t] => orderOf[t] \in charged
    BY <1>1, <1>7 DEF SagaCalls
  <2> QED BY <1>6, <2>1, <2>2
<1>11. (Called(t, 3) => holds[reservationId[t]].state = "committed")'
  <2>1. ASSUME 3 \in done[t]
        PROVE  /\ holds[reservationId[t]].state = "committed" /\ reservationId[t] # 0
               /\ reservationId'[t] = reservationId[t]
    <3>1. 1 \in done[t]
      BY <1>1, <2>1, StepFacts DEF SagaShape
    <3>2. ~(Runs(t, i) /\ i = 1)
      BY <1>3, <3>1, StepFacts
    <3> QED BY <1>1, <1>7, <2>1, <3>1, <3>2 DEF SagaCalls
  <2>2. 3 \in done[t] => holds'[reservationId'[t]].state = "committed"
    BY <1>8, <2>1
  <2> QED BY <1>6, <2>2
<1>12. (\A j \in Step : j \in done[t] \/ (Runs(t, j) /\ pc[t] = "acted")
            => Event(t, Topic[j]) \in outbox)'
  BY <1>1, <1>2, <1>9 DEF SagaCalls
<1>13. (GaveBack(t) /\ reservationId[t] # 0 => holds[reservationId[t]].state # "held")'
  <2> SUFFICES ASSUME GaveBack(t)', reservationId'[t] # 0
               PROVE  holds'[reservationId'[t]].state # "held"
    OBVIOUS
  <2>1. state[t] = "compensating"
    BY <1>2 DEF GaveBack
  <2>2. Undoes(t, i)
    BY <1>2, <1>3, <2>1 DEF At
  <2> QED BY <1>3, <2>1, <2>2
<1>14. SagaCalls(t)'
  BY <1>10, <1>11, <1>12, <1>13 DEF SagaCalls
<1> QED BY <1>5, <1>14 DEF SagaFine

\* Its action returns.
LEMMA SagaReturns ==
    ASSUME Inv, NEW t \in Sagas, NEW i \in Step, ActionReturns(t, i)
    PROVE  SagaFine(t)'
<1>1. SagaShape(t) /\ SagaCalls(t) /\ SagaTypeOK
  BY DEF Inv, SagaFine
<1>2. /\ At(t, i) /\ pc[t] = "inAction" /\ pc'[t] = "acted"
      /\ state' = state /\ done' = done /\ undone' = undone
      /\ outbox' = outbox \cup {Appended(t, i)}
      /\ holds' = holds /\ orderOf' = orderOf
      /\ reservationId' = reservationId /\ charged' = charged
  BY <1>1 DEF ActionReturns, Returns, SagaTypeOK, inventoryVars
<1>3. \A j : Runs(t, j)' <=> Runs(t, j)
  BY <1>2, SameSteps
<1>4. /\ \A j : Runs(t, j) => ~Undoes(t, i) /\ (At(t, i) => i = j)
  BY <1>1, AtFacts DEF At
<1>5. SagaShape(t)'
  BY <1>1, <1>2 DEF SagaShape
<1>6. \A j : Called(t, j)' <=> Called(t, j)
  BY <1>2, <1>3 DEF Called
<1>7. GaveBack(t)' <=> GaveBack(t)
  BY <1>2 DEF GaveBack
<1>8. \A x : Event(t, x)' = Event(t, x)
  BY <1>2 DEF Event
<1>9. (\A j \in Step : j \in done[t] \/ (Runs(t, j) /\ pc[t] = "acted")
            => Event(t, Topic[j]) \in outbox)'
  <2>1. \A j \in Step : j \in done[t] => Event(t, Topic[j]) \in outbox
    BY <1>1 DEF SagaCalls
  <2>2. \A j \in Step : Runs(t, j) => Event(t, Topic[j]) \in outbox'
    BY <1>2, <1>4 DEF Appended
  <2> QED BY <1>2, <1>3, <1>8, <2>1, <2>2
<1>10. SagaCalls(t)'
  BY <1>1, <1>2, <1>6, <1>7, <1>9 DEF SagaCalls
<1> QED BY <1>5, <1>10 DEF SagaFine

\* Its entry is written.
LEMMA SagaLogs ==
    ASSUME Inv, NEW t \in Sagas, NEW i \in Step, Logs(t, i),
           UNCHANGED <<inventoryVars, orderOf, reservationId, charged, outbox>>
    PROVE  SagaFine(t)'
<1>1. SagaShape(t) /\ SagaCalls(t) /\ SagaTypeOK
  BY DEF Inv, SagaFine
<1>2. /\ At(t, i) /\ pc[t] = "acted" /\ pc'[t] = "try" /\ state' = state
      /\ done'[t] = IF Runs(t, i) THEN done[t] \cup {i} ELSE done[t]
      /\ undone'[t] = IF Undoes(t, i) THEN undone[t] \cup {i} ELSE undone[t]
      /\ holds' = holds /\ orderOf' = orderOf /\ outbox' = outbox
      /\ reservationId' = reservationId /\ charged' = charged
  BY <1>1 DEF Logs, SagaTypeOK, inventoryVars
<1>3. /\ Runs(t, i) => state[t] = "running" /\ \A j \in Step : j \in done[t] <=> j < i
      /\ Undoes(t, i) => state[t] = "compensating" /\ i = 1
      /\ Runs(t, i) => ~Undoes(t, i)
      /\ state[t] \in {"running", "compensating"}
  <2>1. state[t] \in {"running", "compensating"}
    BY <1>2 DEF At, Runs, Undoes
  <2> QED BY <1>1, <2>1, AtFacts
<1>4. SagaShape(t)'
  <2>1. \A x, j \in Step : x < j /\ j \in done'[t] => x \in done'[t]
    <3>1. CASE Runs(t, i)
      <4>1. \A j \in Step : j \in done'[t] <=> j < i \/ j = i
        BY <1>2, <1>3, <3>1
      <4> QED BY <4>1, StepFacts
    <3>2. CASE ~Runs(t, i)
      BY <1>1, <1>2, <3>2 DEF SagaShape
    <3> QED BY <3>1, <3>2
  <2>2. 2 \in done'[t] => state[t] \notin {"compensating", "compensated"}
    BY <1>1, <1>2, <1>3 DEF SagaShape
  <2>3. state[t] = "running" => undone'[t] = {}
    BY <1>1, <1>2, <1>3 DEF SagaShape
  <2> QED BY <1>1, <1>2, <1>3, <2>1, <2>2, <2>3 DEF SagaShape
<1>5. \A j : Called(t, j)' => Called(t, j)
  BY <1>2 DEF Called
<1>6. GaveBack(t)' => GaveBack(t)
  BY <1>2 DEF GaveBack
<1>7. \A x : Event(t, x)' = Event(t, x)
  BY <1>2 DEF Event
<1>8. \A j : j \in done'[t] => j \in done[t] \/ (Runs(t, j) /\ pc[t] = "acted")
  BY <1>2
<1>9. (\A j \in Step : j \in done[t] \/ (Runs(t, j) /\ pc[t] = "acted")
            => Event(t, Topic[j]) \in outbox)'
  BY <1>1, <1>2, <1>7, <1>8 DEF SagaCalls
<1>10. SagaCalls(t)'
  BY <1>1, <1>2, <1>5, <1>6, <1>9 DEF SagaCalls
<1> QED BY <1>4, <1>10 DEF SagaFine

\* It turns round at a step that failed for good, holding no stock if that is
\* the first.
LEMMA SagaTurns ==
    ASSUME Inv, NEW t \in Sagas, NEW i \in {1, 2}, Runs(t, i), GivesUp(t, i),
           done' = done, undone' = undone, Continues(holds, holds'),
           charged \subseteq charged', UNCHANGED <<orderOf, reservationId, outbox>>,
           i = 1 /\ reservationId[t] # 0 => holds'[reservationId[t]].state # "held"
    PROVE  SagaFine(t)'
<1>1. SagaShape(t) /\ SagaCalls(t) /\ SagaTypeOK
  BY DEF Inv, SagaFine
<1>2. /\ state[t] = "running" /\ ~Undoes(t, i)
      /\ \A j \in Step : j \in done[t] <=> j < i
  BY <1>1, AtFacts
<1>3. state'[t] = "compensating" /\ pc'[t] = "try"
  <2>1. AfterFailure(t, i) = "compensating"
    BY <1>2, StepFacts DEF AfterFailure
  <2> QED BY <1>1, <2>1 DEF GivesUp, SagaTypeOK
<1>4. undone[t] = {} /\ 2 \notin done[t] /\ (1 \notin done[t] => i = 1) /\ 3 \notin done[t]
  BY <1>1, <1>2, StepFacts DEF SagaShape
<1>5. SagaShape(t)'
  BY <1>1, <1>2, <1>3, <1>4 DEF SagaShape
<1>6. \A j : Called(t, j)' => j \in done[t]
  BY <1>3 DEF Called
<1>7. \A x : Event(t, x)' = Event(t, x)
  BY DEF Event
<1>8. \A j : j \in done[t] => Called(t, j)
  BY DEF Called
<1>9. reservationId[t] # 0 => holds'[reservationId[t]].order = orderOf[t]
  <2>1. reservationId[t] \in 0..Len(holds) /\ holds \in Seq(Hold)
    BY DEF Inv, CheckoutTypes, BooksBalance, Books
  <2>2. reservationId[t] # 0 => reservationId[t] \in DOMAIN holds
    BY <2>1, TableFacts
  <2> QED BY <1>1, <2>2 DEF Continues, SagaCalls
<1>10. GaveBack(t)' => i = 1
  BY <1>3, <1>4 DEF GaveBack
<1>11. (\A j \in Step : j \in done[t] \/ (Runs(t, j) /\ pc[t] = "acted")
            => Event(t, Topic[j]) \in outbox)'
  BY <1>1, <1>3, <1>7 DEF SagaCalls
<1>12. (Called(t, 1) => reservationId[t] # 0)' /\ (Called(t, 2) => orderOf[t] \in charged)'
       /\ ~Called(t, 3)'
  BY <1>1, <1>4, <1>6, <1>8 DEF SagaCalls
<1>13. (GaveBack(t) /\ reservationId[t] # 0 => holds[reservationId[t]].state # "held")'
  BY <1>10
<1>14. SagaCalls(t)'
  BY <1>9, <1>11, <1>12, <1>13 DEF SagaCalls
<1> QED BY <1>5, <1>14 DEF SagaFine

\* It ends.
LEMMA SagaFinishes ==
    ASSUME Inv, NEW t \in Sagas, Finish(t),
           UNCHANGED <<inventoryVars, orderOf, reservationId, charged, outbox>>
    PROVE  SagaFine(t)'
<1>1. SagaShape(t) /\ SagaCalls(t) /\ SagaTypeOK
  BY DEF Inv, SagaFine
<1>2. /\ pc[t] = "try" /\ pc'[t] = "idle" /\ done' = done /\ undone' = undone
      /\ state'[t] = IF state[t] = "running" THEN "completed" ELSE "compensated"
      /\ \A i \in Step : ~At(t, i)
      /\ holds' = holds /\ orderOf' = orderOf /\ outbox' = outbox
      /\ reservationId' = reservationId /\ charged' = charged
  BY <1>1 DEF Finish, SagaTypeOK, inventoryVars
<1>3. state[t] \in {"running", "compensating"}
  BY <1>1, <1>2 DEF SagaShape
<1>4. state[t] = "compensating" => 1 \notin done[t] \/ 1 \in undone[t]
  BY <1>1, <1>2, AtFacts
<1>5. SagaShape(t)'
  BY <1>1, <1>2, <1>3 DEF SagaShape
<1>6. \A j : Called(t, j)' => Called(t, j)
  BY <1>2 DEF Called
<1>7. GaveBack(t)' => GaveBack(t)
  BY <1>2, <1>3, <1>4 DEF GaveBack
<1>8. \A x : Event(t, x)' = Event(t, x)
  BY <1>2 DEF Event
<1>9. (\A j \in Step : j \in done[t] \/ (Runs(t, j) /\ pc[t] = "acted")
            => Event(t, Topic[j]) \in outbox)'
  BY <1>1, <1>2, <1>8 DEF SagaCalls
<1>10. SagaCalls(t)'
  BY <1>1, <1>2, <1>6, <1>7, <1>9 DEF SagaCalls
<1> QED BY <1>5, <1>10 DEF SagaFine

\* It starts, for the order o.
LEMMA SagaStarts ==
    ASSUME Inv, NEW t \in Sagas, NEW o \in Orders, StartCheckout(t, o)
    PROVE  SagaFine(t)'
<1>1. SagaShape(t) /\ SagaCalls(t) /\ SagaTypeOK
  BY DEF Inv, SagaFine
<1>2. /\ state[t] = "none" /\ state'[t] = "running" /\ pc'[t] = "try"
      /\ done' = done /\ undone' = undone /\ orderOf'[t] = o
      /\ reservationId' = reservationId
  BY <1>1 DEF StartCheckout, Start, SagaTypeOK, Inv, CheckoutTypes
<1>3. done[t] = {} /\ reservationId[t] = 0
  BY <1>1, <1>2 DEF SagaShape
<1>4. SagaShape(t)'
  BY <1>1, <1>2, <1>3 DEF SagaShape
<1>5. SagaCalls(t)'
  BY <1>2, <1>3 DEF SagaCalls, Called, GaveBack
<1> QED BY <1>4, <1>5 DEF SagaFine

-----------------------------------------------------------------------------
(* The actions keep the invariant                                          *)

LEMMA SagaTypesKept ==
    ASSUME SagaTypeOK, NEW s \in Sagas
    PROVE  /\ Start(s) => SagaTypeOK'
           /\ Resume(s) => SagaTypeOK'
           /\ Finish(s) => SagaTypeOK'
           /\ Crash(s) => SagaTypeOK'
           /\ \A i : Acts(s, i) => SagaTypeOK'
           /\ \A i : Returns(s, i) => SagaTypeOK'
           /\ \A i \in Step : Logs(s, i) => SagaTypeOK'
           /\ \A i : Fails(s, i) => SagaTypeOK'
           /\ \A i : TimesOut(s, i) => SagaTypeOK'
           /\ \A i : Raises(s, i) => SagaTypeOK'
<1> USE SagaAssumption DEF SagaTypeOK, Pc
<1>1. Start(s) => SagaTypeOK'
  BY DEF Start
<1>2. Resume(s) => SagaTypeOK'
  BY DEF Resume
<1>3. Finish(s) => SagaTypeOK'
  BY DEF Finish
<1>4. Crash(s) => SagaTypeOK'
  BY DEF Crash
<1>5. ASSUME NEW i PROVE Acts(s, i) => SagaTypeOK'
  BY DEF Acts
<1>6. ASSUME NEW i PROVE Returns(s, i) => SagaTypeOK'
  BY DEF Returns
<1>7. ASSUME NEW i \in Step PROVE Logs(s, i) => SagaTypeOK'
  BY DEF Logs
<1>8. ASSUME NEW i PROVE Fails(s, i) => SagaTypeOK'
  BY DEF Fails, GivesUp, AfterFailure
<1>9. ASSUME NEW i, TimesOut(s, i) PROVE SagaTypeOK'
  <2>1. CASE attempt[s] < MaxAttempts
    <3>1. attempt' = [attempt EXCEPT ![s] = @ + 1] /\ UNCHANGED <<state, pc, done, undone, crashes>>
      BY <1>9, <2>1 DEF TimesOut
    <3>2. attempt[s] + 1 \in 1..MaxAttempts
      BY <2>1
    <3> QED BY <3>1, <3>2
  <2>2. CASE ~(attempt[s] < MaxAttempts)
    <3>1. GivesUp(s, i) /\ UNCHANGED <<done, undone, crashes>>
      BY <1>9, <2>2 DEF TimesOut
    <3>2. AfterFailure(s, i) \in {"stuck", "compensating"}
      BY DEF AfterFailure
    <3>3. state' = [state EXCEPT ![s] = AfterFailure(s, i)] /\ attempt' = [attempt EXCEPT ![s] = 1]
      BY <3>1 DEF GivesUp
    <3>4. \/ pc' = [pc EXCEPT ![s] = "idle"]
          \/ pc' = [pc EXCEPT ![s] = "try"]
      BY <3>1 DEF GivesUp
    <3>5. 1 \in 1..MaxAttempts
      OBVIOUS
    <3> HIDE DEF AfterFailure
    <3> QED BY <3>1, <3>2, <3>3, <3>4, <3>5
  <2> QED BY <2>1, <2>2
<1>10. ASSUME NEW i PROVE Raises(s, i) => SagaTypeOK'
  BY DEF Raises
<1> QED BY <1>1, <1>2, <1>3, <1>4, <1>5, <1>6, <1>7, <1>8, <1>9, <1>10

\* What a step of the saga s leaves alone: the other sagas.
OthersStay(s) ==
    \A t \in Sagas \ {s} :
        /\ state'[t] = state[t] /\ done'[t] = done[t] /\ undone'[t] = undone[t]
        /\ pc'[t] = pc[t]
        /\ orderOf'[t] = orderOf[t] /\ reservationId'[t] = reservationId[t]

LEMMA SagaOthers ==
    ASSUME SagaTypeOK, NEW s \in Sagas
    PROVE  LET Stay == \A t \in Sagas \ {s} :
                          /\ state'[t] = state[t] /\ done'[t] = done[t]
                          /\ undone'[t] = undone[t] /\ pc'[t] = pc[t]
           IN  /\ (Start(s) => Stay) /\ (Resume(s) => Stay) /\ (Finish(s) => Stay)
               /\ Crash(s) => Stay
               /\ \A i : Acts(s, i) => Stay
               /\ \A i : Returns(s, i) => Stay
               /\ \A i : Logs(s, i) => Stay
               /\ \A i : Fails(s, i) => Stay
               /\ \A i : TimesOut(s, i) => Stay
               /\ \A i : Raises(s, i) => Stay
  BY DEF SagaTypeOK, Start, Resume, Finish, Crash, Acts, Returns, Logs, Fails, TimesOut,
         GivesUp, Raises

\* A step of s reads the clock, ends a call of reserve, or does neither.
ReadingMoves(s) ==
    \/ reading' = reading
    \/ reading' = [reading EXCEPT ![s] = NoReading]
    \/ reading' = [reading EXCEPT ![s] = now]

LEMMA ReadingsKept ==
    ASSUME Inv, NEW s \in Sagas, NEW sold, Served(sold), ReadingMoves(s)
    PROVE  ReadingsPast'
<1>1. now \in Nat /\ now' \in Nat /\ now <= now' /\ reading \in [Sagas -> -1..now]
  BY DEF Inv, ReadingsPast, NoReading, Served, BooksBalance
<1>2. -1..now \subseteq -1..now' /\ -1 \in -1..now' /\ now \in -1..now'
  BY <1>1
<1>3. reading' \in [Sagas -> -1..now']
  <2>1. reading \in [Sagas -> -1..now']
    BY <1>1, <1>2
  <2> QED BY <1>2, <2>1 DEF ReadingMoves, NoReading
<1> QED BY <1>3 DEF ReadingsPast, NoReading

\* A step of s keeps the invariant when it keeps the books, the types and what
\* concerns s.
LEMMA StepKeeps ==
    ASSUME Inv, NEW s \in Sagas, NEW sold, Served(sold),
           \A i \in sold : i \in DOMAIN holds /\ holds[i].order \in charged,
           SagaTypeOK', CheckoutTypes', OthersStay(s),
           charged \subseteq charged', outbox \subseteq outbox', ReadingMoves(s), SagaFine(s)'
    PROVE  Inv'
<1>1. BooksBalance' /\ Continues(holds, holds')
  BY DEF Served
<1>2. ASSUME NEW t \in Sagas PROVE SagaFine(t)'
  <2>1. CASE t = s
    BY <2>1
  <2>2. CASE t # s
    <3>1. /\ state'[t] = state[t] /\ done'[t] = done[t] /\ undone'[t] = undone[t]
          /\ pc'[t] = pc[t]
          /\ orderOf'[t] = orderOf[t] /\ reservationId'[t] = reservationId[t]
      BY <2>2 DEF OthersStay
    <3>2. pc[t] # "idle" => state[t] \in {"running", "compensating"}
      BY DEF Inv, SagaFine, SagaShape
    <3> QED BY <1>1, <3>1, <3>2, SagaStays
  <2> QED BY <2>1, <2>2
<1>3. SoldIsPaid'
  <2> SUFFICES ASSUME NEW i \in DOMAIN holds', holds'[i].state = "committed"
               PROVE  holds'[i].order \in charged'
    BY DEF SoldIsPaid, In
  <2>1. i \in DOMAIN holds /\ (i \in sold \/ holds[i].state = "committed")
    BY DEF Served
  <2>2. holds[i].order \in charged
    BY <2>1 DEF Inv, SoldIsPaid, In
  <2> QED BY <1>1, <2>1, <2>2 DEF Continues
<1>4. ReadingsPast'
  BY ReadingsKept
<1> QED BY <1>1, <1>2, <1>3, <1>4 DEF Inv

LEMMA NumbersFit ==
    ASSUME Inv, NEW sold, Served(sold)
    PROVE  /\ Len(holds) \in Nat /\ Len(holds') \in Nat /\ Len(holds) <= Len(holds')
           /\ DOMAIN holds = 1..Len(holds)
           /\ \A s \in Sagas : reservationId[s] \in 0..Len(holds)
           /\ \A s \in Sagas : reservationId[s] # 0 => reservationId[s] \in DOMAIN holds
           /\ reservationId \in [Sagas -> 0..Len(holds')]
<1>1. holds \in Seq(Hold) /\ holds' \in Seq(Hold)
  BY DEF Inv, Served, BooksBalance, Books
<1>2. /\ Len(holds) \in Nat /\ Len(holds') \in Nat /\ Len(holds) <= Len(holds')
      /\ DOMAIN holds = 1..Len(holds)
  BY <1>1, TableFacts DEF Served, Continues
<1>3. reservationId \in [Sagas -> 0..Len(holds)]
  BY DEF Inv, CheckoutTypes
<1>4. \A s \in Sagas : reservationId[s] \in 0..Len(holds)
  BY <1>3
<1>5. \A s \in Sagas : reservationId[s] # 0 => reservationId[s] \in DOMAIN holds
  BY <1>2, <1>4
<1>6. 0..Len(holds) \subseteq 0..Len(holds')
  BY <1>2
<1>7. reservationId \in [Sagas -> 0..Len(holds')]
  BY <1>3, <1>6
<1> QED BY <1>2, <1>4, <1>5, <1>7

LEMMA CheckoutTypesKept ==
    ASSUME Inv, NEW sold, Served(sold), UNCHANGED <<orderOf, reservationId, outbox>>,
           charged' \subseteq Orders
    PROVE  CheckoutTypes'
<1>1. reservationId \in [Sagas -> 0..Len(holds')]
  BY NumbersFit
<1> QED BY <1>1 DEF Inv, CheckoutTypes

LEMMA DrivenHasOrder ==
    ASSUME Inv, NEW s \in Sagas, NEW i, At(s, i)
    PROVE  orderOf[s] \in Orders /\ SagaShape(s) /\ SagaCalls(s) /\ SagaTypeOK
<1>1. state[s] # "none"
  BY DEF At, Runs, Undoes
<1> QED BY <1>1 DEF Inv, SagaFine, SagaShape

\* The clock as a call of reserve has read it.
LEMMA ReadingFacts ==
    ASSUME Inv, NEW s \in Sagas, reading[s] # NoReading
    PROVE  reading[s] \in Nat /\ now \in Nat /\ reading[s] <= now
<1>1. reading[s] \in -1..now /\ reading[s] # -1 /\ now \in Nat
  BY DEF Inv, ReadingsPast, NoReading, BooksBalance
<1> QED BY <1>1

LEMMA ReserveInventoryKeeps ==
    ASSUME Inv, NEW s \in Sagas, ReserveInventory(s)
    PROVE  Inv'
<1> DEFINE o == orderOf[s]
           at == reading[s]
<1>1. /\ Runs(s, 1) /\ Acts(s, 1) /\ At(s, 1)
      /\ reservationId' = [reservationId EXCEPT ![s] = byOrder'[o]]
      /\ UNCHANGED <<orderOf, charged, outbox>>
      /\ ReserveAgain(o, at) \/ ReserveFresh(o, at)
  BY DEF ReserveInventory, reserve_inventory, At
<1>2. o \in Orders /\ SagaShape(s) /\ SagaTypeOK /\ BooksBalance /\ at \in Nat /\ ReadingMoves(s)
  BY <1>1, DrivenHasOrder, ReadingFacts DEF Inv, ReserveInventory, EndsReserve, ReadingMoves
<1> HIDE DEF o, at
<1>3. Served({}) /\ byOrder'[o] # 0
  BY <1>1, <1>2, AgainServes, FreshServes
<1>4. byOrder' \in [Orders -> 0..Len(holds')] /\ holds'[byOrder'[o]].order = o
  BY <1>2, <1>3 DEF Served, BooksBalance, Books
<1>5. reservationId \in [Sagas -> 0..Len(holds')]
  BY <1>3, NumbersFit
<1>6. reservationId' \in [Sagas -> 0..Len(holds')] /\ reservationId'[s] = byOrder'[o]
  BY <1>1, <1>2, <1>4, <1>5
<1>7. CheckoutTypes'
  BY <1>1, <1>6 DEF Inv, CheckoutTypes
<1>8. SagaTypeOK' /\ OthersStay(s)
  <2>1. \A t \in Sagas \ {s} : reservationId'[t] = reservationId[t]
    BY <1>1, <1>5
  <2> QED BY <1>1, <1>2, <2>1, SagaTypesKept, SagaOthers DEF OthersStay
<1>9. ~Undoes(s, 1)
  BY <1>1, <1>2, AtFacts
<1>10. SagaFine(s)'
  <2>1. Continues(holds, holds')
    BY <1>3 DEF Served
  <2>2. reservationId'[s] # 0 /\ holds'[reservationId'[s]].order = orderOf[s]
    BY <1>3, <1>4, <1>6 DEF o
  <2> QED BY <1>1, <1>9, <2>1, <2>2, SagaActs
<1> QED BY <1>1, <1>2, <1>3, <1>7, <1>8, <1>10, StepKeeps

\* Once reserve is refused no hold of the order is held.
LEMMA ShortLeavesNone ==
    ASSUME BooksBalance, NEW o \in Orders, NEW at, ReserveShort(o, at),
           NEW i \in DOMAIN holds, holds[i].order = o
    PROVE  holds'[i].state # "held"
<1>1. holds' = SweptHolds(at) /\ byOrder' = byOrder
      /\ (byOrder[o] # 0 => ~IsLive(SweptHolds(at)[byOrder[o]]))
  BY DEF ReserveShort, LiveHold
<1>2. holds'[i].order = o /\ i \in DOMAIN holds'
  BY <1>1, SweepFacts
<1>3. IsLive(holds'[i]) => byOrder[o] = i
  BY <1>1, <1>2, SweepFacts DEF Books
<1>4. i # 0
  BY TableFacts DEF BooksBalance, Books
<1> QED BY <1>1, <1>3, <1>4 DEF IsLive

LEMMA ReserveFailsKeeps ==
    ASSUME Inv, NEW s \in Sagas, ReserveFails(s)
    PROVE  Inv'
<1> DEFINE at == reading[s]
<1>1. /\ Runs(s, 1) /\ Fails(s, 1) /\ At(s, 1) /\ ReserveShort(orderOf[s], at)
      /\ UNCHANGED <<orderOf, reservationId, charged, outbox>> /\ ReadingMoves(s)
  BY DEF ReserveFails, reserve_inventory, At, EndsReserve, ReadingMoves
<1> HIDE DEF at
<1>2. orderOf[s] \in Orders /\ SagaCalls(s) /\ SagaTypeOK /\ BooksBalance
  BY <1>1, DrivenHasOrder DEF Inv
<1>3. Served({})
  BY <1>1, <1>2, ShortServes
<1>4. CheckoutTypes'
  BY <1>1, <1>3, CheckoutTypesKept DEF Inv, CheckoutTypes
<1>5. SagaTypeOK' /\ OthersStay(s)
  BY <1>1, <1>2, SagaTypesKept, SagaOthers DEF OthersStay
<1>6. SagaFine(s)'
  <2>1. GivesUp(s, 1) /\ done' = done /\ undone' = undone
    BY <1>1 DEF Fails
  <2>2. reservationId[s] # 0 => holds'[reservationId[s]].state # "held"
    BY <1>1, <1>2, <1>3, NumbersFit, ShortLeavesNone DEF SagaCalls
  <2>3. Continues(holds, holds')
    BY <1>3 DEF Served
  <2> QED BY <1>1, <2>1, <2>2, <2>3, SagaTurns
<1> QED BY <1>1, <1>3, <1>4, <1>5, <1>6, StepKeeps

LEMMA ReleaseInventoryKeeps ==
    ASSUME Inv, NEW s \in Sagas, ReleaseInventory(s)
    PROVE  Inv'
<1> DEFINE r == reservationId[s]
<1>1. /\ Undoes(s, 1) /\ Acts(s, 1) /\ At(s, 1) /\ Release(r)
      /\ UNCHANGED <<orderOf, reservationId, charged, outbox>> /\ ReadingMoves(s)
  BY DEF ReleaseInventory, reserve_inventory, At, checkoutVars, ReadingMoves
<1>2. SagaShape(s) /\ SagaCalls(s) /\ SagaTypeOK /\ BooksBalance
  BY <1>1, DrivenHasOrder DEF Inv
<1>3. /\ r \in DOMAIN holds /\ holds[r].order = orderOf[s] /\ r # 0
      /\ ~Runs(s, 1)
  <2>1. 1 \in done[s] /\ ~Runs(s, 1)
    BY <1>1, <1>2, AtFacts
  <2>2. r # 0 /\ holds[r].order = orderOf[s]
    BY <1>2, <2>1 DEF SagaCalls, Called
  <2>3. r \in 0..Len(holds) /\ DOMAIN holds = 1..Len(holds) /\ Len(holds) \in Nat
    BY TableFacts DEF Inv, CheckoutTypes, BooksBalance, Books
  <2> QED BY <2>1, <2>2, <2>3
<1> HIDE DEF r
<1>4. Served({}) /\ holds'[r].state # "held"
  BY <1>1, <1>2, <1>3, ReleaseServes
<1>5. CheckoutTypes'
  BY <1>1, <1>4, CheckoutTypesKept DEF Inv, CheckoutTypes
<1>6. SagaTypeOK' /\ OthersStay(s)
  BY <1>1, <1>2, SagaTypesKept, SagaOthers DEF OthersStay
<1>7. SagaFine(s)'
  <2>1. Continues(holds, holds')
    BY <1>4 DEF Served
  <2>2. holds'[reservationId'[s]].order = orderOf[s]
    BY <1>1, <1>3, <2>1 DEF Continues, r
  <2> QED BY <1>1, <1>3, <1>4, <2>1, <2>2, SagaActs DEF r
<1> QED BY <1>1, <1>4, <1>5, <1>6, <1>7, StepKeeps

\* A thread that stops or tries again changes nothing but its own place.
LEMMA PauseKeeps ==
    ASSUME Inv, NEW s \in Sagas, UNCHANGED <<inventoryVars, state, done, undone>>,
           UNCHANGED <<orderOf, reservationId, outbox>>, ReadingMoves(s),
           charged \subseteq charged', charged' \subseteq Orders,
           SagaTypeOK', \A t \in Sagas \ {s} : pc'[t] = pc[t],
           pc'[s] \in {"idle", "try"},
           pc'[s] = "try" => state[s] \in {"running", "compensating"}
    PROVE  Inv'
<1>1. Served({})
  BY IdleServes DEF Inv
<1>2. CheckoutTypes'
  BY <1>1, CheckoutTypesKept
<1>3. OthersStay(s)
  BY DEF OthersStay
<1>4. SagaFine(s)'
  BY <1>1, SagaStays DEF Served
<1> QED BY <1>1, <1>2, <1>3, <1>4, StepKeeps

LEMMA RaisesKeeps ==
    ASSUME Inv, NEW s \in Sagas, NEW i, Raises(s, i), UNCHANGED <<inventoryVars, checkoutVars>>
    PROVE  Inv'
<1>1. SagaTypeOK /\ charged \subseteq Orders
  BY DEF Inv, CheckoutTypes
<1>2. /\ UNCHANGED <<inventoryVars, state, done, undone>>
      /\ UNCHANGED <<orderOf, reservationId, outbox, charged>>
      /\ pc'[s] = "idle" /\ ReadingMoves(s)
  BY <1>1 DEF Raises, checkoutVars, SagaTypeOK, ReadingMoves
<1>3. SagaTypeOK' /\ \A t \in Sagas \ {s} : pc'[t] = pc[t]
  BY <1>1, SagaTypesKept, SagaOthers
<1> QED BY <1>1, <1>2, <1>3, PauseKeeps

LEMMA ReserveStartKeeps ==
    ASSUME Inv, NEW s \in Sagas, ReserveStart(s)
    PROVE  Inv'
<1>1. SagaTypeOK /\ charged \subseteq Orders
  BY DEF Inv, CheckoutTypes
<1>2. /\ UNCHANGED <<inventoryVars, state, pc, done, undone, attempt, crashes>>
      /\ UNCHANGED <<orderOf, reservationId, outbox, charged>>
      /\ pc[s] = "try" /\ state[s] = "running" /\ ReadingMoves(s)
  BY DEF ReserveStart, Runs, sagaVars, ReadingMoves
<1>3. SagaTypeOK'
  BY <1>1, <1>2 DEF SagaTypeOK
<1> QED BY <1>1, <1>2, <1>3, PauseKeeps

LEMMA ChargePaymentKeeps ==
    ASSUME Inv, NEW s \in Sagas, ChargePayment(s)
    PROVE  Inv'
<1>1. /\ Runs(s, 2) /\ Acts(s, 2) /\ At(s, 2) /\ charged' = charged \cup {orderOf[s]}
      /\ UNCHANGED <<inventoryVars, orderOf, reservationId, outbox>> /\ ReadingMoves(s)
  BY DEF ChargePayment, charge_payment, At, ReadingMoves
<1>2. orderOf[s] \in Orders /\ SagaShape(s) /\ SagaCalls(s) /\ SagaTypeOK
  BY <1>1, DrivenHasOrder
<1>3. Served({})
  BY <1>1, IdleServes DEF Inv
<1>4. CheckoutTypes'
  BY <1>1, <1>2, <1>3, CheckoutTypesKept DEF Inv, CheckoutTypes
<1>5. SagaTypeOK' /\ OthersStay(s)
  BY <1>1, <1>2, SagaTypesKept, SagaOthers DEF OthersStay
<1>6. ~Undoes(s, 2)
  BY <1>1, <1>2, AtFacts
<1>7. SagaFine(s)'
  <2>1. Continues(holds, holds') /\ holds' = holds
    BY <1>1, <1>3 DEF Served, inventoryVars
  <2>2. reservationId'[s] # 0 => holds'[reservationId'[s]].order = orderOf[s]
    BY <1>1, <1>2, <2>1 DEF SagaCalls
  <2> QED BY <1>1, <1>6, <2>1, <2>2, SagaActs
<1> QED BY <1>1, <1>3, <1>4, <1>5, <1>7, StepKeeps

\* The charge is refused, or times out for good.
LEMMA ChargeGivesUpKeeps ==
    ASSUME Inv, NEW s \in Sagas, Runs(s, 2), GivesUp(s, 2), SagaTypeOK', OthersStay(s),
           done' = done, undone' = undone,
           UNCHANGED <<inventoryVars, orderOf, reservationId, outbox>>, ReadingMoves(s),
           charged \subseteq charged', charged' \subseteq Orders
    PROVE  Inv'
<1>1. Served({})
  BY IdleServes DEF Inv
<1>2. CheckoutTypes'
  BY <1>1, CheckoutTypesKept
<1>3. Continues(holds, holds')
  BY <1>1 DEF Served
<1>4. SagaFine(s)'
  BY <1>3, SagaTurns
<1> QED BY <1>1, <1>2, <1>4, StepKeeps

LEMMA ChargeDeclinedKeeps ==
    ASSUME Inv, NEW s \in Sagas, ChargeDeclined(s)
    PROVE  Inv'
<1>1. /\ Runs(s, 2) /\ Fails(s, 2)
      /\ UNCHANGED <<inventoryVars, orderOf, reservationId, charged, outbox>> /\ ReadingMoves(s)
  BY DEF ChargeDeclined, charge_payment, checkoutVars, ReadingMoves
<1>2. SagaTypeOK /\ charged \subseteq Orders
  BY DEF Inv, CheckoutTypes
<1>3. SagaTypeOK' /\ OthersStay(s)
  BY <1>1, <1>2, SagaTypesKept, SagaOthers DEF OthersStay
<1>4. GivesUp(s, 2) /\ done' = done /\ undone' = undone
  BY <1>1 DEF Fails
<1> QED BY <1>1, <1>2, <1>3, <1>4, ChargeGivesUpKeeps

LEMMA ChargeTimesOutKeeps ==
    ASSUME Inv, NEW s \in Sagas, ChargeTimesOut(s)
    PROVE  Inv'
<1>1. /\ Runs(s, 2) /\ TimesOut(s, 2) /\ At(s, 2)
      /\ charged' \in {charged, charged \cup {orderOf[s]}}
      /\ UNCHANGED <<inventoryVars, orderOf, reservationId, outbox>> /\ ReadingMoves(s)
  BY DEF ChargeTimesOut, charge_payment, At, ReadingMoves
<1>2. orderOf[s] \in Orders /\ SagaTypeOK /\ charged \subseteq Orders
  BY <1>1, DrivenHasOrder DEF Inv, CheckoutTypes
<1>3. SagaTypeOK' /\ OthersStay(s)
  BY <1>1, <1>2, SagaTypesKept, SagaOthers DEF OthersStay
<1>4. charged \subseteq charged' /\ charged' \subseteq Orders
  BY <1>1, <1>2
<1>5. CASE attempt[s] < MaxAttempts
  <2>1. UNCHANGED <<state, pc, done, undone>> /\ pc[s] = "try" /\ state[s] = "running"
    BY <1>1, <1>5 DEF TimesOut, Runs
  <2> QED BY <1>1, <1>3, <1>4, <2>1, PauseKeeps
<1>6. CASE ~(attempt[s] < MaxAttempts)
  <2>1. GivesUp(s, 2) /\ done' = done /\ undone' = undone
    BY <1>1, <1>6 DEF TimesOut
  <2> QED BY <1>1, <1>3, <1>4, <2>1, ChargeGivesUpKeeps
<1> QED BY <1>5, <1>6

\* A thread at the commit has its order reserved and paid.
LEMMA AtCommit ==
    ASSUME Inv, NEW s \in Sagas, At(s, 3)
    PROVE  /\ Runs(s, 3) /\ ~Undoes(s, 3)
           /\ reservationId[s] \in DOMAIN holds
           /\ holds[reservationId[s]].order = orderOf[s] /\ orderOf[s] \in charged
<1>1. SagaShape(s) /\ SagaCalls(s) /\ SagaTypeOK
  BY DrivenHasOrder
<1>2. Runs(s, 3) /\ ~Undoes(s, 3)
  BY <1>1, AtFacts DEF At
<1>3. 1 \in done[s] /\ 2 \in done[s]
  BY <1>1, <1>2, AtFacts, StepFacts
<1>4. /\ reservationId[s] # 0 /\ holds[reservationId[s]].order = orderOf[s]
      /\ orderOf[s] \in charged
  BY <1>1, <1>3 DEF SagaCalls, Called
<1>5. reservationId[s] \in 0..Len(holds) /\ DOMAIN holds = 1..Len(holds) /\ Len(holds) \in Nat
  BY TableFacts DEF Inv, CheckoutTypes, BooksBalance, Books
<1> QED BY <1>2, <1>4, <1>5

LEMMA CommitInventoryKeeps ==
    ASSUME Inv, NEW s \in Sagas, CommitInventory(s)
    PROVE  Inv'
<1> DEFINE r == reservationId[s]
<1>1. /\ Acts(s, 3) /\ At(s, 3) /\ Commit(r)
      /\ UNCHANGED <<orderOf, reservationId, charged, outbox>> /\ ReadingMoves(s)
  BY DEF CommitInventory, commit_inventory, checkoutVars, Acts, ReadingMoves
<1>2. /\ Runs(s, 3) /\ ~Undoes(s, 3) /\ r \in DOMAIN holds
      /\ holds[r].order = orderOf[s] /\ orderOf[s] \in charged
  BY <1>1, AtCommit
<1> HIDE DEF r
<1>3. Served({r}) /\ holds'[r].state = "committed"
  BY <1>1, <1>2, CommitServes DEF Inv
<1>4. CheckoutTypes' /\ SagaTypeOK
  BY <1>1, <1>3, CheckoutTypesKept DEF Inv, CheckoutTypes
<1>5. SagaTypeOK' /\ OthersStay(s)
  BY <1>1, <1>4, SagaTypesKept, SagaOthers DEF OthersStay
<1>6. SagaFine(s)'
  <2>1. Continues(holds, holds')
    BY <1>3 DEF Served
  <2>2. holds'[reservationId'[s]].order = orderOf[s]
    BY <1>1, <1>2, <2>1 DEF Continues, r
  <2>3. holds'[reservationId'[s]].state = "committed"
    BY <1>1, <1>3 DEF r
  <2> QED BY <1>1, <1>2, <2>1, <2>2, <2>3, SagaActs
<1> QED BY <1>1, <1>2, <1>3, <1>4, <1>5, <1>6, StepKeeps

LEMMA CreateShipmentKeeps ==
    ASSUME Inv, NEW s \in Sagas, CreateShipment(s)
    PROVE  Inv'
<1>1. /\ Acts(s, 4) /\ At(s, 4) /\ ReadingMoves(s)
      /\ UNCHANGED <<inventoryVars, orderOf, reservationId, charged, outbox>>
  BY DEF CreateShipment, create_shipment, checkoutVars, Acts, ReadingMoves
<1>2. SagaShape(s) /\ SagaCalls(s) /\ SagaTypeOK
  BY <1>1, DrivenHasOrder
<1>3. Served({})
  BY <1>1, IdleServes DEF Inv
<1>4. CheckoutTypes'
  BY <1>1, <1>3, CheckoutTypesKept DEF Inv, CheckoutTypes
<1>5. SagaTypeOK' /\ OthersStay(s)
  BY <1>1, <1>2, SagaTypesKept, SagaOthers DEF OthersStay
<1>6. ~Undoes(s, 4)
  BY <1>2, AtFacts
<1>7. SagaFine(s)'
  <2>1. Continues(holds, holds') /\ holds' = holds
    BY <1>1, <1>3 DEF Served, inventoryVars
  <2>2. reservationId'[s] # 0 => holds'[reservationId'[s]].order = orderOf[s]
    BY <1>1, <1>2, <2>1 DEF SagaCalls
  <2> QED BY <1>1, <1>6, <2>1, <2>2, SagaActs
<1> QED BY <1>1, <1>3, <1>4, <1>5, <1>7, StepKeeps

LEMMA ActionReturnsKeeps ==
    ASSUME Inv, NEW s \in Sagas, NEW i \in Step, ActionReturns(s, i)
    PROVE  Inv'
<1>1. /\ Returns(s, i) /\ At(s, i) /\ outbox' = outbox \cup {Appended(s, i)}
      /\ UNCHANGED <<inventoryVars, orderOf, reservationId, charged>> /\ ReadingMoves(s)
  BY DEF ActionReturns, Returns, ReadingMoves
<1>2. orderOf[s] \in Orders /\ SagaTypeOK
  BY <1>1, DrivenHasOrder
<1>3. Served({})
  BY <1>1, IdleServes DEF Inv
<1>4. reservationId' \in [Sagas -> 0..Len(holds')]
  BY <1>1, <1>3, NumbersFit
<1>5. CheckoutTypes'
  <2>1. /\ Appended(s, i).order \in Orders
        /\ Appended(s, i).topic \in {Topic[j] : j \in Step} \cup {"order-cancelled"}
    BY <1>2 DEF Appended, Event
  <2> QED BY <1>1, <1>4, <2>1 DEF Inv, CheckoutTypes
<1>6. SagaTypeOK' /\ OthersStay(s)
  BY <1>1, <1>2, SagaTypesKept, SagaOthers DEF OthersStay
<1>7. SagaFine(s)'
  BY SagaReturns
<1> QED BY <1>1, <1>3, <1>5, <1>6, <1>7, StepKeeps

\* What the orchestrator does between two calls.
LEMMA LogKeeps ==
    ASSUME Inv, NEW s \in Sagas, ReadingMoves(s),
           UNCHANGED <<inventoryVars, orderOf, reservationId, charged, outbox>>,
           Resume(s) \/ (\E i \in Step : Logs(s, i)) \/ Finish(s) \/ Crash(s)
    PROVE  Inv'
<1>1. SagaTypeOK /\ charged \subseteq Orders
  BY DEF Inv, CheckoutTypes
<1>2. UNCHANGED <<orderOf, reservationId, charged, outbox>>
  OBVIOUS
<1>3. Served({})
  BY IdleServes DEF Inv
<1>4. CheckoutTypes'
  BY <1>1, <1>2, <1>3, CheckoutTypesKept
<1>5. CASE Resume(s)
  <2>1. /\ UNCHANGED <<state, done, undone>> /\ pc'[s] = "try"
        /\ state[s] \in {"running", "compensating"}
    BY <1>1, <1>5 DEF Resume, SagaTypeOK
  <2>2. SagaTypeOK' /\ \A t \in Sagas \ {s} : pc'[t] = pc[t]
    BY <1>1, <1>5, SagaTypesKept, SagaOthers
  <2> QED BY <1>1, <1>2, <2>1, <2>2, PauseKeeps
<1>6. CASE Crash(s)
  <2>1. UNCHANGED <<state, done, undone>> /\ pc'[s] = "idle"
    BY <1>1, <1>6 DEF Crash, SagaTypeOK
  <2>2. SagaTypeOK' /\ \A t \in Sagas \ {s} : pc'[t] = pc[t]
    BY <1>1, <1>6, SagaTypesKept, SagaOthers
  <2> QED BY <1>1, <1>2, <2>1, <2>2, PauseKeeps
<1>7. ASSUME NEW i \in Step, Logs(s, i) PROVE Inv'
  <2>1. SagaTypeOK' /\ OthersStay(s)
    BY <1>1, <1>2, <1>7, SagaTypesKept, SagaOthers DEF OthersStay
  <2>2. SagaFine(s)'
    BY <1>7, SagaLogs
  <2> QED BY <1>2, <1>3, <1>4, <2>1, <2>2, StepKeeps
<1>8. CASE Finish(s)
  <2>1. SagaTypeOK' /\ OthersStay(s)
    BY <1>1, <1>2, <1>8, SagaTypesKept, SagaOthers DEF OthersStay
  <2>2. SagaFine(s)'
    BY <1>8, SagaFinishes
  <2> QED BY <1>2, <1>3, <1>4, <2>1, <2>2, StepKeeps
<1> QED BY <1>5, <1>6, <1>7, <1>8

LEMMA StartCheckoutKeeps ==
    ASSUME Inv, NEW s \in Sagas, NEW o \in Orders, StartCheckout(s, o)
    PROVE  Inv'
<1>1. /\ Start(s) /\ orderOf' = [orderOf EXCEPT ![s] = o]
      /\ UNCHANGED <<inventoryVars, reservationId, charged, outbox>> /\ ReadingMoves(s)
  BY DEF StartCheckout, ReadingMoves
<1>2. SagaTypeOK /\ orderOf \in [Sagas -> Orders \cup {NoOrder}]
  BY DEF Inv, CheckoutTypes
<1>3. Served({})
  BY <1>1, IdleServes DEF Inv
<1>4. reservationId' \in [Sagas -> 0..Len(holds')]
  BY <1>1, <1>3, NumbersFit
<1>5. CheckoutTypes'
  BY <1>1, <1>2, <1>4 DEF Inv, CheckoutTypes
<1>6. SagaTypeOK' /\ OthersStay(s)
  BY <1>1, <1>2, SagaTypesKept, SagaOthers DEF OthersStay
<1>7. SagaFine(s)'
  BY SagaStarts
<1> QED BY <1>1, <1>3, <1>5, <1>6, <1>7, StepKeeps

LEMMA InventoryKeeps ==
    ASSUME Inv, Inventory, UNCHANGED <<sagaVars, checkoutVars>>
    PROVE  Inv'
<1>1. Served({})
  BY InventoryServes DEF Inv
<1>2. /\ UNCHANGED <<state, done, undone, pc>>
      /\ UNCHANGED <<orderOf, reading, reservationId, charged, outbox>>
  BY DEF sagaVars, checkoutVars
<1>3. SagaTypeOK'
  BY DEF Inv, SagaTypeOK, sagaVars
<1>4. CheckoutTypes'
  BY <1>1, <1>2, CheckoutTypesKept DEF Inv, CheckoutTypes
<1>5. BooksBalance' /\ Continues(holds, holds')
  BY <1>1 DEF Served
<1>6. ASSUME NEW t \in Sagas PROVE SagaFine(t)'
  <2>1. pc[t] # "idle" => state[t] \in {"running", "compensating"}
    BY DEF Inv, SagaFine, SagaShape
  <2> QED BY <1>2, <1>5, <2>1, SagaStays
<1>7. SoldIsPaid'
  <2> SUFFICES ASSUME NEW i \in DOMAIN holds', holds'[i].state = "committed"
               PROVE  holds'[i].order \in charged'
    BY DEF SoldIsPaid, In
  <2>1. i \in DOMAIN holds /\ holds[i].state = "committed"
    BY <1>1 DEF Served
  <2>2. holds[i].order \in charged
    BY <2>1 DEF Inv, SoldIsPaid, In
  <2> QED BY <1>2, <1>5, <2>1, <2>2 DEF Continues
<1>8. ReadingsPast'
  <2>1. now \in Nat /\ now' \in Nat /\ now <= now' /\ reading \in [Sagas -> -1..now]
    BY <1>1 DEF Inv, ReadingsPast, NoReading, Served, BooksBalance
  <2>2. -1..now \subseteq -1..now'
    BY <2>1
  <2> QED BY <1>2, <2>1, <2>2 DEF ReadingsPast, NoReading
<1> QED BY <1>3, <1>4, <1>5, <1>6, <1>7, <1>8 DEF Inv

-----------------------------------------------------------------------------
(* The theorems                                                            *)

LEMMA InitInv == Init => Inv
<1> SUFFICES ASSUME Init PROVE Inv
  OBVIOUS
<1>1. /\ now = 0 /\ onHand = InitialStock /\ received = InitialStock
      /\ reserved = [k \in Skus |-> 0] /\ holds = << >>
      /\ byOrder = [o \in Orders |-> 0]
  BY DEF Init, InventoryInit
<1>2. /\ state = [s \in Sagas |-> "none"] /\ done = [s \in Sagas |-> {}]
      /\ undone = [s \in Sagas |-> {}] /\ pc = [s \in Sagas |-> "idle"]
      /\ orderOf = [s \in Sagas |-> NoOrder] /\ reservationId = [s \in Sagas |-> 0]
      /\ charged = {} /\ outbox = {}
  BY DEF Init, SagaInit
<1>3. holds \in Seq(Hold) /\ Len(holds) = 0 /\ DOMAIN holds = {}
  <2>1. holds \in Seq(Hold) /\ Len(holds) = 0
    BY <1>1, EmptySeq
  <2> QED BY <2>1, TableFacts
<1>4. \A k \in Skus : Total(holds, "held", k) = 0 /\ Total(holds, "committed", k) = 0
  <2>1. In(holds, {"held"}) = {} /\ In(holds, {"committed"}) = {}
    BY <1>3 DEF In
  <2> QED BY <2>1, SumOfNone DEF Total
<1>5. \A k \in Skus : InitialStock[k] \in Nat /\ InitialStock[k] \in Int
  BY InventoryAssumption
<1>6. BooksBalance
  <2>1. /\ byOrder \in [Orders -> 0..Len(holds)]
        /\ reserved \in [Skus -> Int] /\ onHand \in [Skus -> Int] /\ received \in [Skus -> Nat]
    BY <1>1, <1>3, InventoryAssumption
  <2>2. \A k \in Skus : /\ reserved[k] = Total(holds, "held", k)
                        /\ onHand[k] = received[k] - Total(holds, "committed", k)
                        /\ reserved[k] <= onHand[k]
    BY <1>1, <1>4, <1>5
  <2> QED BY <1>1, <1>3, <2>1, <2>2 DEF BooksBalance, Books
<1>7. SagaTypeOK
  BY SagaAssumption DEF Init, SagaInit, SagaTypeOK, Pc
<1>8. CheckoutTypes
  BY <1>2, <1>3 DEF CheckoutTypes
<1>9. ASSUME NEW t \in Sagas PROVE SagaFine(t)
  <2>1. /\ state[t] = "none" /\ done[t] = {} /\ undone[t] = {} /\ pc[t] = "idle"
        /\ reservationId[t] = 0
    BY <1>2
  <2>2. SagaShape(t)
    BY <2>1 DEF SagaShape
  <2>3. SagaCalls(t)
    BY <2>1 DEF SagaCalls, Called, GaveBack
  <2> QED BY <2>2, <2>3 DEF SagaFine
<1>10. SoldIsPaid
  BY <1>3 DEF SoldIsPaid, In
<1>11. ReadingsPast
  <2>1. reading = [s \in Sagas |-> -1] /\ -1 \in -1..now
    BY <1>1 DEF Init, NoReading
  <2> QED BY <2>1 DEF ReadingsPast, NoReading
<1> QED BY <1>6, <1>7, <1>8, <1>9, <1>10, <1>11 DEF Inv

LEMMA InvKept == Inv /\ [Next]_vars => Inv'
<1> SUFFICES ASSUME Inv, [Next]_vars PROVE Inv'
  OBVIOUS
<1>1. ASSUME NEW s \in Sagas, Calls(s) PROVE Inv'
  <2>1. CASE ReleaseRaises(s)
    <3>1. Raises(s, 1) /\ UNCHANGED <<inventoryVars, checkoutVars>>
      BY <2>1 DEF ReleaseRaises, reserve_inventory
    <3> QED BY <3>1, RaisesKeeps
  <2>2. CASE CommitRaises(s)
    <3>1. Raises(s, 3) /\ UNCHANGED <<inventoryVars, checkoutVars>>
      BY <2>2 DEF CommitRaises, commit_inventory
    <3> QED BY <3>1, RaisesKeeps
  <2> QED BY <1>1, <2>1, <2>2, ReserveStartKeeps, ReserveInventoryKeeps, ReserveFailsKeeps, ReleaseInventoryKeeps,
             ChargePaymentKeeps, ChargeDeclinedKeeps, ChargeTimesOutKeeps,
             CommitInventoryKeeps, CreateShipmentKeeps DEF Calls
<1>2. ASSUME NEW s \in Sagas, Drive(s) PROVE Inv'
  <2>1. CASE /\ Resume(s) \/ (\E i \in Step : Logs(s, i)) \/ Finish(s)
             /\ UNCHANGED <<inventoryVars, checkoutVars>>
    BY <2>1, LogKeeps DEF checkoutVars, ReadingMoves
  <2> QED BY <1>1, <1>2, <2>1, ActionReturnsKeeps DEF Drive
<1>3. ASSUME NEW s \in Sagas, Dies(s) PROVE Inv'
  BY <1>3, LogKeeps DEF Dies, EndsReserve, ReadingMoves
<1>4. CASE UNCHANGED vars
  <2>1. UNCHANGED inventoryVars /\ UNCHANGED <<state, done, undone, pc, attempt, crashes>>
        /\ UNCHANGED <<orderOf, reading, reservationId, charged, outbox>>
    BY <1>4 DEF vars, sagaVars, checkoutVars
  <2>2. UNCHANGED <<now, onHand, reserved, holds, byOrder, received>>
    BY <2>1 DEF inventoryVars
  <2>3. Served({})
    BY <2>1, IdleServes DEF Inv
  <2>4. BooksBalance' /\ Continues(holds, holds')
    BY <2>3 DEF Served
  <2>5. ASSUME NEW t \in Sagas PROVE SagaFine(t)'
    <3>1. pc[t] # "idle" => state[t] \in {"running", "compensating"}
      BY DEF Inv, SagaFine, SagaShape
    <3> QED BY <2>1, <2>4, <3>1, SagaStays
  <2>6. SagaTypeOK'
    BY <2>1 DEF Inv, SagaTypeOK
  <2>7. CheckoutTypes'
    BY <2>1, <2>3, CheckoutTypesKept DEF Inv, CheckoutTypes
  <2>8. SoldIsPaid'
    BY <2>1, <2>2 DEF Inv, SoldIsPaid, In
  <2>9. ReadingsPast'
    BY <2>1, <2>2 DEF Inv, ReadingsPast
  <2> QED BY <2>4, <2>5, <2>6, <2>7, <2>8, <2>9 DEF Inv
<1> QED BY <1>2, <1>3, <1>4, StartCheckoutKeeps, InventoryKeeps DEF Next

LEMMA InvHolds == Spec => []Inv
  BY InitInv, InvKept, PTL DEF Spec

LEMMA InvStock == Inv => StockInv
<1> SUFFICES ASSUME Inv PROVE StockInv
  OBVIOUS
<1>1. /\ holds \in Seq(Hold) /\ byOrder \in [Orders -> 0..Len(holds)]
      /\ reserved \in [Skus -> Int] /\ onHand \in [Skus -> Int] /\ received \in [Skus -> Nat]
      /\ now \in Nat
      /\ \A k \in Skus : /\ reserved[k] = Total(holds, "held", k)
                         /\ onHand[k] = received[k] - Total(holds, "committed", k)
                         /\ reserved[k] <= onHand[k]
      /\ \A i \in DOMAIN holds : IsLive(holds[i]) => byOrder[holds[i].order] = i
  BY DEF Inv, BooksBalance, Books
<1>2. TypeOK
  BY <1>1 DEF Inv, CheckoutTypes, ReadingsPast, TypeOK, InventoryTypeOK
<1>3. \A i \in DOMAIN holds : holds[i].order \in Orders
  BY <1>1, TableFacts DEF Hold
<1>4. \A states : InState(Orders, states) = In(holds, states)
  BY <1>3 DEF InState, In
<1>5. ASSUME NEW st, NEW k \in Skus PROVE Units(InState(Orders, {st}), k) = Total(holds, st, k)
  <2>1. In(holds, {st}) \in SUBSET DOMAIN holds
    BY DEF In
  <2> QED BY <1>1, <1>4, <2>1, UnitsAreSums DEF Units, Total
<1>6. StockAddsUp
  BY <1>1, <1>5 DEF StockAddsUp
<1>7. NeverOversold
  <2>1. \A k \in Skus : Total(holds, "held", k) \in Nat
    BY <1>1, TotalIsNat
  <2> QED BY <1>1, <2>1 DEF NeverOversold
<1>8. OneLiveHoldPerOrder
  BY <1>1 DEF OneLiveHoldPerOrder, InState, IsLive
<1> QED BY <1>2, <1>6, <1>7, <1>8 DEF StockInv

LEMMA InvSaga == Inv => SagaInv
<1> SUFFICES ASSUME Inv PROVE SagaInv
  OBVIOUS
<1>1. \A t \in Sagas : SagaShape(t) /\ SagaCalls(t)
  BY DEF Inv, SagaFine
<1>2. CompensatedHoldsNothing
  BY <1>1 DEF CompensatedHoldsNothing, SagaCalls, GaveBack
<1>3. PivotIsFinal
  BY <1>1 DEF PivotIsFinal, SagaShape, charge_payment
<1>4. \A i \in InState(Orders, {"committed"}) : holds[i].order \in charged
  BY DEF Inv, SoldIsPaid, InState, In
<1>5. ASSUME NEW t \in Sagas
      PROVE  /\ commit_inventory \in done[t] => holds[reservationId[t]].state = "committed"
             /\ \A i \in done[t] : Event(t, Topic[i]) \in outbox
  <2>1. done[t] \subseteq Step
    BY DEF Inv, SagaTypeOK
  <2> QED BY <1>1, <2>1 DEF SagaCalls, Called, commit_inventory
<1> QED BY <1>2, <1>3, <1>4, <1>5 DEF SagaInv, DoneIsDone

\* reserve answers with a sale, or with a hold whose time was not up when it
\* read the clock.
LEMMA ReserveHandsOutLive ==
    ASSUME Inv, NEW s \in Sagas, ReserveInventory(s)
    PROVE  HandsOutLive(s)
<1> DEFINE o == orderOf[s]
           at == reading[s]
<1>1. /\ Runs(s, 1) /\ At(s, 1) /\ reservationId' = [reservationId EXCEPT ![s] = byOrder'[o]]
      /\ ReserveAgain(o, at) \/ ReserveFresh(o, at)
  BY DEF ReserveInventory, reserve_inventory, At
<1>2. o \in Orders /\ BooksBalance /\ at \in Nat
  BY <1>1, DrivenHasOrder, ReadingFacts DEF Inv, ReserveInventory
<1>3. reservationId'[s] = byOrder'[o]
  BY <1>1 DEF Inv, CheckoutTypes
<1> HIDE DEF o, at
<1>4. CASE ReserveFresh(o, at)
  <2>1. holds'[byOrder'[o]] = [order |-> o, expiresAt |-> at + HoldTtl, state |-> "held"]
    BY <1>2, <1>4, FreshServes
  <2>2. at + HoldTtl > at
    BY <1>2, InventoryAssumption
  <2> QED BY <1>3, <2>1, <2>2 DEF HandsOutLive, at
<1>5. CASE ReserveAgain(o, at)
  <2>1. /\ byOrder' = byOrder /\ holds' = SweptHolds(at)
        /\ byOrder[o] # 0 /\ IsLive(SweptHolds(at)[byOrder[o]])
    BY <1>5 DEF ReserveAgain, LiveHold
  <2>2. byOrder[o] \in DOMAIN holds
    <3>1. /\ byOrder[o] \in 0..Len(holds) /\ DOMAIN holds = 1..Len(holds) /\ Len(holds) \in Nat
          /\ byOrder[o] # 0
      BY <1>2, <2>1, TableFacts DEF BooksBalance, Books
    <3> QED BY <3>1
  <2>3. /\ SweptHolds(at)[byOrder[o]].expiresAt = holds[byOrder[o]].expiresAt
        /\ SweptHolds(at)[byOrder[o]].state
              = IF byOrder[o] \in Lapsed(at) THEN "expired" ELSE holds[byOrder[o]].state
    BY <1>2, <2>2, SweepFacts
  <2>4. byOrder[o] \notin Lapsed(at)
    BY <2>1, <2>3 DEF IsLive
  <2>5. holds[byOrder[o]].state = "held" => ~(holds[byOrder[o]].expiresAt <= at)
    BY <2>2, <2>4 DEF Lapsed
  <2>6. holds[byOrder[o]].expiresAt \in Nat
    <3>1. holds \in Seq(Hold)
      BY <1>2 DEF BooksBalance, Books
    <3> QED BY <2>2, <3>1, TableFacts DEF Hold
  <2>7. holds[byOrder[o]].state = "held" => holds[byOrder[o]].expiresAt > at
    BY <1>2, <2>5, <2>6
  <2> QED BY <1>3, <2>1, <2>3, <2>4, <2>7 DEF IsLive, HandsOutLive, at
<1> QED BY <1>1, <1>4, <1>5

\* A sweep by a reading that is not ahead of the clock expires holds whose
\* time is up.
LEMMA SweepIsNotEarly ==
    ASSUME BooksBalance, NEW at \in Nat, at <= now, NEW i \in DOMAIN holds,
           SweptHolds(at)[i].state = "expired", holds[i].state # "expired"
    PROVE  holds[i].expiresAt <= now
<1>1. i \in Lapsed(at)
  BY SweepFacts
<1>2. holds[i].expiresAt <= at
  BY <1>1 DEF Lapsed
<1>3. holds[i].expiresAt \in Nat /\ now \in Nat
  <2>1. holds \in Seq(Hold) /\ now \in Nat
    BY DEF BooksBalance, Books
  <2> QED BY <2>1, TableFacts DEF Hold
<1> QED BY <1>2, <1>3

\* The table of holds is as a sweep by a reading that is not ahead of the
\* clock leaves it, but for holds that are added.
SweptBy(at) ==
    /\ at \in Nat /\ at <= now
    /\ \A i \in DOMAIN holds : holds'[i] = SweptHolds(at)[i]

\* Which steps change the holds there are.
LEMMA HoldsMove ==
    ASSUME Inv, [Next]_vars
    PROVE  \/ holds' = holds
           \/ \E at : SweptBy(at)
           \/ \E ids, st : st # "expired" /\ holds' = WithState(ids, st)
<1>0. BooksBalance /\ now \in Nat
  BY DEF Inv, BooksBalance
<1>1. ASSUME NEW s \in Sagas, ReserveInventory(s) PROVE \E at : SweptBy(at)
  <2> DEFINE o == orderOf[s]
             at == reading[s]
  <2>1. /\ Runs(s, 1) /\ At(s, 1) /\ at # NoReading
        /\ ReserveAgain(o, at) \/ ReserveFresh(o, at)
    BY <1>1 DEF ReserveInventory, reserve_inventory, At
  <2>2. o \in Orders /\ at \in Nat /\ at <= now
    BY <2>1, DrivenHasOrder, ReadingFacts
  <2> HIDE DEF o, at
  <2>3. \A i \in DOMAIN holds : holds'[i] = SweptHolds(at)[i]
    BY <1>0, <2>1, <2>2, FreshServes DEF ReserveAgain
  <2> QED BY <2>2, <2>3 DEF SweptBy
<1>2. ASSUME NEW s \in Sagas, ReserveFails(s) PROVE \E at : SweptBy(at)
  <2>1. reading[s] # NoReading /\ holds' = SweptHolds(reading[s])
    BY <1>2 DEF ReserveFails, ReserveShort
  <2>2. reading[s] \in Nat /\ reading[s] <= now
    BY <2>1, ReadingFacts
  <2> QED BY <2>1, <2>2 DEF SweptBy
<1>3. ASSUME NEW s \in Sagas, ReleaseInventory(s)
      PROVE  \E ids, st : st # "expired" /\ holds' = WithState(ids, st)
  <2>1. Release(reservationId[s])
    BY <1>3 DEF ReleaseInventory
  <2> QED BY <2>1 DEF Release
<1>4. ASSUME NEW s \in Sagas, CommitInventory(s)
      PROVE  \E ids, st : st # "expired" /\ holds' = WithState(ids, st)
  <2>1. Commit(reservationId[s])
    BY <1>4 DEF CommitInventory
  <2> QED BY <2>1 DEF Commit
<1>5. CASE Inventory
  <2>1. CASE Expire
    <3>1. holds' = SweptHolds(now) /\ now <= now
      BY <1>0, <2>1 DEF Expire
    <3> QED BY <1>0, <3>1 DEF SweptBy
  <2>2. CASE ~Expire
    BY <1>5, <2>2 DEF Inventory, StockIn, Tick
  <2> QED BY <2>1, <2>2
<1>6. ASSUME NEW s \in Sagas,
             \/ ReserveStart(s) \/ ReleaseRaises(s) \/ ChargePayment(s) \/ ChargeDeclined(s)
             \/ ChargeTimesOut(s) \/ CommitRaises(s) \/ CreateShipment(s) \/ Dies(s)
             \/ \E i \in Step : ActionReturns(s, i)
             \/ \E o \in Orders : StartCheckout(s, o)
             \/ UNCHANGED inventoryVars
      PROVE  holds' = holds
  BY <1>6 DEF ReserveStart, ReleaseRaises, ChargePayment, ChargeDeclined, ChargeTimesOut,
              CommitRaises, CreateShipment, Dies, ActionReturns, StartCheckout, inventoryVars
<1>7. ASSUME UNCHANGED vars PROVE holds' = holds
  BY <1>7 DEF vars, inventoryVars
<1> QED BY <1>1, <1>2, <1>3, <1>4, <1>5, <1>6, <1>7 DEF Next, Drive, Calls

LEMMA NoneIsSweptEarly ==
    ASSUME Inv, [Next]_vars
    PROVE  SweepsNoneEarly
<1> SUFFICES ASSUME NEW i \in DOMAIN holds, holds'[i].state = "expired", holds[i].state # "expired"
             PROVE  holds[i].expiresAt <= now
  BY DEF SweepsNoneEarly
<1>1. CASE holds' = holds
  BY <1>1
<1>2. ASSUME NEW at, SweptBy(at) PROVE holds[i].expiresAt <= now
  BY <1>2, SweepIsNotEarly DEF SweptBy, Inv
<1>3. ASSUME NEW ids, NEW st, st # "expired", holds' = WithState(ids, st) PROVE FALSE
  <2>1. holds'[i].state \in {st, holds[i].state}
    <3>1. holds \in Seq(Hold)
      BY DEF Inv, BooksBalance, Books
    <3>2. holds[i] \in Hold
      BY <3>1, TableFacts
    <3> QED BY <1>3, <3>2 DEF WithState, Hold
  <2> QED BY <1>3, <2>1
<1> QED BY <1>1, <1>2, <1>3, HoldsMove

\* The books of the inventory balance: what is reserved is what the holds in
\* force stand for, what left is what was committed, nothing is oversold and an
\* order has one hold in force.
THEOREM StockIsRight == Spec => []StockInv
  BY InvHolds, InvStock, PTL

\* A saga that ended compensated holds no stock, one whose charge is in the log
\* is not reversed, and what the log calls done is done and announced.
THEOREM SagasTellTheTruth == Spec => []SagaInv
  BY InvHolds, InvSaga, PTL

\* reserve answers with a sale, or with a hold whose time was not up when it
\* read the clock, before it took the lock; and no sweep, by a new or an old
\* reading, ends a hold before its time.
THEOREM HandedOutHoldsAreLive == Spec => HandedOutIsLive
<1> DEFINE Live == (\A s \in Sagas : ReserveInventory(s) => HandsOutLive(s)) /\ SweepsNoneEarly
<1>1. Inv /\ [Next]_vars => Live
  BY ReserveHandsOutLive, NoneIsSweptEarly
<1> HIDE DEF Live
<1>2. Inv /\ [Next]_vars => [Live]_vars
  BY <1>1
<1>3. Spec => [][Live]_vars
  BY <1>2, InvHolds, PTL DEF Spec
<1> QED BY <1>3 DEF HandedOutIsLive, Live
=============================================================================
