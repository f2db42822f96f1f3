------------------------------ MODULE StoreProofs ------------------------------
(***************************************************************************)
(* TLAPS proofs about what stores and hands out data: KVCluster, for every *)
(* ring, every N, W and R and any number of clients, writes and failures;  *)
(* FencingLock with its FencedStore, for every set of owners and           *)
(* resources, every TTL and any length of the clock and number of grants;  *)
(* MiniKafka, for any number of partitions, producers and members, any     *)
(* number of attempts, records and rebalances, and both reset policies.    *)
(***************************************************************************)
EXTENDS KVCluster, FencingLock, MiniKafka, FiniteSetTheorems, WellFoundedInduction, TLAPS

------------------------------------------------------------------------------
(* Finite sets *)

\* The pairs D are a strict partial order on S.
StrictlyOrders(D, S) ==
    /\ \A x \in S : <<x, x>> \notin D
    /\ \A x, y, z \in S : <<x, y>> \in D /\ <<y, z>> \in D => <<x, z>> \in D

\* u is maximal in S, and is v or above it.
Tops(u, v, D, S) ==
    /\ u = v \/ <<v, u>> \in D
    /\ \A w \in S : <<u, w>> \notin D

\* In a finite set with a strict partial order every element is maximal or has a
\* maximal element above it.
LEMMA MaximalAbove ==
    ASSUME NEW S, IsFiniteSet(S), NEW v \in S, NEW D, StrictlyOrders(D, S)
    PROVE  \E u \in S : Tops(u, v, D, S)
<1> DEFINE Above(u) == {w \in S : <<u, w>> \in D}
           Seen == {v} \cup Above(v)
           Sets == {Above(u) : u \in Seen}
<1>1. Sets \subseteq FiniteSubsetsOf(S) /\ Sets # {}
  <2>1. Above(v) \in Sets
    OBVIOUS
  <2>2. ASSUME NEW B \in Sets PROVE B \in SUBSET S
    <3>1. PICK u \in Seen : B = Above(u)
      OBVIOUS
    <3> QED BY <3>1
  <2> HIDE DEF Sets
  <2> QED BY <2>1, <2>2, FS_Subset DEF FiniteSubsetsOf
<1>2. PICK A \in Sets : \A B \in Sets : ~(<<B, A>> \in StrictSubsetOrdering(S))
  <2> HIDE DEF Sets
  <2> QED BY <1>1, FS_StrictSubsetOrderingWellFounded, WFMin
<1>3. PICK u \in Seen : A = Above(u)
  BY <1>2
<1>4. ASSUME NEW w \in S, <<u, w>> \in D PROVE FALSE
  <2>1. w \in Seen
    BY <1>3, <1>4 DEF StrictlyOrders
  <2>2. Above(w) \subseteq Above(u)
    BY <1>3, <1>4 DEF StrictlyOrders
  <2>3. w \in Above(u) /\ w \notin Above(w)
    BY <1>4 DEF StrictlyOrders
  <2>4. Above(w) \in SUBSET S /\ Above(u) \in SUBSET S
    OBVIOUS
  <2>5. <<Above(w), Above(u)>> \in StrictSubsetOrdering(S)
    <3> HIDE DEF Above
    <3> QED BY <2>2, <2>3, <2>4 DEF StrictSubsetOrdering
  <2>6. Above(w) \in Sets
    <3> HIDE DEF Above, Seen
    <3> QED BY <2>1
  <2> HIDE DEF Above, Sets
  <2> QED BY <1>2, <1>3, <2>5, <2>6
<1> QED BY <1>3, <1>4 DEF Tops

\* A finite set of naturals that is not empty has a greatest element, and Max is it.
LEMMA MaxFacts ==
    ASSUME NEW S \in SUBSET Nat, IsFiniteSet(S), S # {}
    PROVE  Max(S) \in S /\ \A x \in S : Max(S) >= x
<1> DEFINE D == {p \in Nat \X Nat : p[1] < p[2]}
<1>1. PICK v \in S : TRUE
  OBVIOUS
<1>2. StrictlyOrders(D, S)
  BY DEF StrictlyOrders
<1>3. PICK u \in S : Tops(u, v, D, S)
  <2> HIDE DEF D
  <2> QED BY <1>1, <1>2, MaximalAbove
<1>4. \A w \in S : u >= w
  <2>1. \A w \in S : ~(u < w)
    BY <1>3 DEF Tops
  <2> QED BY <2>1
<1> QED BY <1>4 DEF Max

\* It has a least element too, and Min is it.
LEMMA MinFacts ==
    ASSUME NEW S \in SUBSET Nat, IsFiniteSet(S), S # {}
    PROVE  Min(S) \in S /\ \A x \in S : Min(S) <= x
<1> DEFINE D == {p \in Nat \X Nat : p[1] > p[2]}
<1>1. PICK v \in S : TRUE
  OBVIOUS
<1>2. StrictlyOrders(D, S)
  BY DEF StrictlyOrders
<1>3. PICK u \in S : Tops(u, v, D, S)
  <2> HIDE DEF D
  <2> QED BY <1>1, <1>2, MaximalAbove
<1>4. \A w \in S : u <= w
  <2>1. \A w \in S : ~(u > w)
    BY <1>3 DEF Tops
  <2> QED BY <2>1
<1> QED BY <1>4 DEF Min

\* How many elements of T come before j.
Rank(T, j) == Cardinality({k \in T : k < j})

\* In a finite set of naturals exactly one element has r others before it, for
\* every r below its size.
LEMMA Ranks ==
    ASSUME NEW T \in SUBSET Nat, IsFiniteSet(T)
    PROVE  /\ \A j \in T : Rank(T, j) \in 0..(Cardinality(T) - 1)
           /\ \A i, j \in T : Rank(T, i) = Rank(T, j) => i = j
           /\ \A r \in 0..(Cardinality(T) - 1) : \E j \in T : Rank(T, j) = r
<1> DEFINE Below(j) == {k \in T : k < j}
           c == Cardinality(T)
           rank == [j \in T |-> Rank(T, j)]
<1>1. c \in Nat
  BY FS_CardinalityType
<1>2. \A j \in T : /\ Below(j) \in SUBSET T /\ IsFiniteSet(Below(j))
                   /\ Rank(T, j) = Cardinality(Below(j)) /\ Rank(T, j) \in Nat
  <2>1. \A j \in T : Below(j) \in SUBSET T /\ Rank(T, j) = Cardinality(Below(j))
    BY DEF Rank
  <2> HIDE DEF Below
  <2> SUFFICES ASSUME NEW j \in T
               PROVE  IsFiniteSet(Below(j)) /\ Cardinality(Below(j)) \in Nat
    BY <2>1
  <2>2. IsFiniteSet(Below(j))
    BY <2>1, FS_Subset
  <2> QED BY <2>2, FS_CardinalityType
<1>3. ASSUME NEW i \in T, NEW j \in T, i < j PROVE Rank(T, i) < Rank(T, j)
  <2>1. Below(i) \in SUBSET Below(j) /\ Below(i) # Below(j)
    <3>1. i \in Below(j) /\ i \notin Below(i)
      BY <1>3
    <3>2. ASSUME NEW k \in Below(i) PROVE k \in Below(j)
      <4>1. k \in T /\ k \in Nat /\ i \in Nat /\ j \in Nat /\ k < i
        OBVIOUS
      <4> QED BY <1>3, <4>1
    <3> QED BY <3>1, <3>2
  <2> HIDE DEF Below
  <2>2. Cardinality(Below(i)) <= Cardinality(Below(j)) /\ Cardinality(Below(i)) # Cardinality(Below(j))
    BY <1>2, <2>1, FS_Subset
  <2> QED BY <1>2, <2>2
<1>4. ASSUME NEW j \in T PROVE Rank(T, j) \in 0..(c - 1)
  <2>1. Below(j) # T
    BY <1>4
  <2> HIDE DEF Below, c
  <2>2. Cardinality(Below(j)) <= Cardinality(T) /\ Cardinality(Below(j)) # Cardinality(T)
    BY <1>2, <2>1, FS_Subset
  <2>3. Rank(T, j) <= c /\ Rank(T, j) # c
    BY <1>2, <2>2 DEF c
  <2> QED BY <1>1, <1>2, <2>3
<1>5. \A i, j \in T : Rank(T, i) = Rank(T, j) => i = j
  <2> SUFFICES ASSUME NEW i \in T, NEW j \in T, Rank(T, i) = Rank(T, j), i # j PROVE FALSE
    OBVIOUS
  <2>1. i < j \/ j < i
    OBVIOUS
  <2>2. Rank(T, i) < Rank(T, j) \/ Rank(T, j) < Rank(T, i)
    BY <1>3, <2>1
  <2>3. Rank(T, i) \in Nat /\ Rank(T, j) \in Nat
    BY <1>2
  <2> QED BY <2>2, <2>3
<1>6. IsFiniteSet(0..(c - 1)) /\ Cardinality(0..(c - 1)) = c
  <2> HIDE DEF c
  <2>1. c - 1 \in Int /\ (0 > c - 1 => c = 0) /\ (c - 1) - 0 + 1 = c
    BY <1>1
  <2> QED BY <2>1, FS_Interval
<1>7. rank \in Injection(T, 0..(c - 1))
  <2>1. rank \in [T -> 0..(c - 1)]
    BY <1>4
  <2> HIDE DEF c
  <2> QED BY <1>5, <2>1 DEF Injection, IsInjective
<1>8. rank \in Surjection(T, 0..(c - 1))
  <2> HIDE DEF rank
  <2> QED BY <1>6, <1>7, FS_Injection
<1>9. \A r \in 0..(c - 1) : \E j \in T : Rank(T, j) = r
  BY <1>8 DEF Surjection
<1> QED BY <1>4, <1>5, <1>9

------------------------------------------------------------------------------
(* KVCluster: versions *)

\* A dominating clock's dominator dominates too, and no clock dominates itself.
LEMMA DominatesIsTransitive ==
    ASSUME NEW x \in Clock, NEW y \in Clock, NEW z \in Clock,
           Dominates(x, y), Dominates(y, z)
    PROVE  Dominates(x, z)
<1>1. \A n \in Node : /\ x[n] \in Nat /\ y[n] \in Nat /\ z[n] \in Nat
                      /\ x[n] >= y[n] /\ y[n] >= z[n]
  BY DEF Clock, Dominates, DescendsFrom
<1>2. DescendsFrom(x, z)
  BY <1>1 DEF DescendsFrom
<1>3. ASSUME x = z PROVE FALSE
  <2>1. \A n \in Node : x[n] = y[n]
    BY <1>1, <1>3
  <2>2. x = y
    BY <2>1 DEF Clock
  <2> QED BY <2>2 DEF Dominates
<1> QED BY <1>2, <1>3 DEF Dominates

Superseded == {p \in Version \X Version : Dominates(p[2].clock, p[1].clock)}

LEMMA SupersededOrders ==
    ASSUME NEW S \in SUBSET Version
    PROVE  StrictlyOrders(Superseded, S)
<1>1. \A x \in S : <<x, x>> \notin Superseded
  BY DEF Superseded, Dominates
<1>2. ASSUME NEW x \in S, NEW y \in S, NEW z \in S,
             <<x, y>> \in Superseded, <<y, z>> \in Superseded
      PROVE  <<x, z>> \in Superseded
  <2>1. x.clock \in Clock /\ y.clock \in Clock /\ z.clock \in Clock
    BY DEF Version
  <2>2. Dominates(y.clock, x.clock) /\ Dominates(z.clock, y.clock)
    BY <1>2 DEF Superseded
  <2>3. Dominates(z.clock, x.clock)
    BY <2>1, <2>2, DominatesIsTransitive
  <2> QED BY <2>3 DEF Superseded
<1> QED BY <1>1, <1>2 DEF StrictlyOrders

\* Reconciling drops versions only, and once is enough.
LEMMA ReconcileDrops ==
    ASSUME NEW S
    PROVE  Reconcile(S) \subseteq S /\ Reconcile(Reconcile(S)) = Reconcile(S)
  BY DEF Reconcile

\* What S has, T has or supersedes.
Keeps(S, T) == \A v \in S : Covered(v, T)

LEMMA KeepsItself ==
    ASSUME NEW S, NEW T, S \subseteq T
    PROVE  Keeps(S, T)
  BY DEF Keeps, Covered

\* Reconciling a finite set loses nothing: what goes is superseded by what stays.
LEMMA ReconcileKeeps ==
    ASSUME NEW T \in SUBSET Version, IsFiniteSet(T), NEW S \in SUBSET T
    PROVE  Keeps(S, Reconcile(T))
<1> SUFFICES ASSUME NEW v \in S PROVE Covered(v, Reconcile(T))
  BY DEF Keeps
<1>1. StrictlyOrders(Superseded, T)
  BY SupersededOrders
<1>2. PICK u \in T : Tops(u, v, Superseded, T)
  BY <1>1, MaximalAbove
<1>3. u \in Reconcile(T)
  BY <1>2 DEF Tops, Reconcile, Superseded
<1>4. u = v \/ Dominates(u.clock, v.clock)
  BY <1>2 DEF Tops, Superseded
<1> QED BY <1>3, <1>4 DEF Covered

LEMMA KeepsCovered ==
    ASSUME NEW S \in SUBSET Version, NEW T \in SUBSET Version, Keeps(S, T),
           NEW v \in Version, Covered(v, S)
    PROVE  Covered(v, T)
<1>1. PICK u \in S : u = v \/ Dominates(u.clock, v.clock)
  BY DEF Covered
<1>2. PICK w \in T : w = u \/ Dominates(w.clock, u.clock)
  BY DEF Keeps, Covered
<1>3. u.clock \in Clock /\ v.clock \in Clock /\ w.clock \in Clock
  BY DEF Version
<1>4. w = v \/ Dominates(w.clock, v.clock)
  BY <1>1, <1>2, <1>3, DominatesIsTransitive
<1> QED BY <1>4 DEF Covered

------------------------------------------------------------------------------
(* KVCluster: placement *)

LEMMA OrderFacts ==
    /\ N \in Nat /\ W \in Nat /\ R \in Nat /\ MaxWrites \in Nat
    /\ \A i \in 1..Len(Order) : Order[i] \in Node
    /\ \A i \in 1..N : Order[i] \in Home /\ Order[i] \in Node
    /\ Home \subseteq Node
    /\ Len(Order) \in Nat
<1>1. Len(Order) \in Nat /\ DOMAIN Order = 1..Len(Order)
  BY ClusterAssumption
<1>2. N \in Nat /\ W \in Nat /\ R \in Nat /\ MaxWrites \in Nat /\ 1..N \subseteq 1..Len(Order)
  BY <1>1, ClusterAssumption
<1>3. \A i \in 1..Len(Order) : Order[i] \in Node
  BY <1>1 DEF Node, Range
<1> QED BY <1>1, <1>2, <1>3 DEF Home

\* A target's holder is up; it is the home itself unless the home is down; and a
\* strict cluster has no stand-ins.
LEMMA HolderFacts ==
    ASSUME NEW i \in Targets
    PROVE  /\ i \in 1..N
           /\ HolderOf(i) \in up
           /\ Order[i] \in up => HolderOf(i) = Order[i]
           /\ ~sloppy => Order[i] \in up
<1>1. i \in 1..N /\ HasHolder(i)
  BY DEF Targets
<1>2. CASE Order[i] \in up
  BY <1>1, <1>2 DEF HolderOf
<1>3. CASE Order[i] \notin up
  <2>1. sloppy /\ \E j \in Spares : IsNextSpare(j, i)
    BY <1>1, <1>3 DEF HasHolder
  <2>2. PICK j \in Spares : HolderOf(i) = Order[j]
    BY <1>3, <2>1 DEF HolderOf
  <2>3. Order[j] \in up
    BY DEF Spares
  <2> QED BY <1>1, <1>3, <2>1, <2>2, <2>3
<1> QED BY <1>2, <1>3

LEMMA TargetsFinite ==
    /\ IsFiniteSet(1..N) /\ Cardinality(1..N) = N
    /\ Targets \in SUBSET (1..N) /\ IsFiniteSet(Targets) /\ Cardinality(Targets) \in Nat
<1>1. IsFiniteSet(1..N) /\ Cardinality(1..N) = N
  <2>1. N \in Int /\ ~(1 > N) /\ N - 1 + 1 = N
    BY OrderFacts, ClusterAssumption
  <2>2. IsFiniteSet(1..N) /\ Cardinality(1..N) = IF 1 > N THEN 0 ELSE N - 1 + 1
    BY <2>1, FS_Interval
  <2> QED BY <2>1, <2>2
<1>2. Targets \in SUBSET (1..N)
  BY DEF Targets
<1> QED BY <1>1, <1>2, FS_Subset, FS_CardinalityType

\* A get that has R targets asks R of them.
LEMMA AskedFacts ==
    ASSUME Cardinality(Targets) >= R
    PROVE  Asked \in SUBSET Targets /\ Cardinality(Asked) = R
<1> DEFINE c == Cardinality(Targets)
           rank == [i \in Asked |-> Rank(Targets, i)]
<1>1. Targets \in SUBSET Nat /\ IsFiniteSet(Targets) /\ c \in Nat /\ R \in Nat /\ c >= R
  BY TargetsFinite, OrderFacts
<1>2. Asked = {i \in Targets : Rank(Targets, i) < R}
  BY DEF Asked, Rank
<1>3. /\ \A i \in Targets : Rank(Targets, i) \in Nat
      /\ \A i, j \in Targets : Rank(Targets, i) = Rank(Targets, j) => i = j
      /\ \A r \in 0..(c - 1) : \E j \in Targets : Rank(Targets, j) = r
  BY <1>1, Ranks
<1>4. Asked \in SUBSET Targets /\ IsFiniteSet(Asked)
  BY <1>1, <1>2, FS_Subset
<1>5. rank \in Bijection(Asked, 0..(R - 1))
  <2>1. \A i \in Asked : Rank(Targets, i) \in 0..(R - 1)
    BY <1>1, <1>2, <1>3
  <2>2. \A i, j \in Asked : Rank(Targets, i) = Rank(Targets, j) => i = j
    BY <1>3, <1>4
  <2>3. ASSUME NEW r \in 0..(R - 1) PROVE \E j \in Asked : Rank(Targets, j) = r
    <3>1. r \in 0..(c - 1) /\ r < R
      BY <1>1
    <3>2. PICK j \in Targets : Rank(Targets, j) = r
      BY <1>3, <3>1
    <3> QED BY <1>2, <3>1, <3>2
  <2> QED BY <2>1, <2>2, <2>3 DEF Bijection, Injection, Surjection, IsInjective
<1>6. Cardinality(0..(R - 1)) = Cardinality(Asked)
  <2>1. ExistsBijection(Asked, 0..(R - 1))
    BY <1>5 DEF ExistsBijection
  <2> QED BY <1>4, <2>1, FS_Bijection
<1>7. Cardinality(0..(R - 1)) = R
  <2>1. R - 1 \in Int /\ (0 > R - 1 => R = 0) /\ (R - 1) - 0 + 1 = R
    BY <1>1
  <2> QED BY <2>1, FS_Interval
<1> QED BY <1>4, <1>6, <1>7

------------------------------------------------------------------------------
(* KVCluster: the inductive invariant *)

\* Only acknowledged versions are stored or hinted: they are finitely many.
StoresAcked ==
    /\ IsFiniteSet(acked)
    /\ \A n \in Node : data[n] \subseteq acked
    /\ \A n \in Node, h \in Home : hints[n][h] \subseteq acked

\* What NothingIsLost needs and does not say: a stand-in's copy, which recover
\* deletes, does not count; its hint does.
Safe(v) ==
    \/ \E h \in Home : Covered(v, data[h])
    \/ \E n \in Node, h \in Home : Covered(v, hints[n][h])

HomesOrHints == \A v \in acked : Safe(v)

CoveredHomes(v) == {i \in 1..N : Covered(v, data[Order[i]])}

\* In a strict cluster W homes have every acknowledged write, for good.
WriteQuorum == ~sloppy => \A v \in acked : Cardinality(CoveredHomes(v)) >= W

Inv == TypeOK /\ StoresAcked /\ ReplicasAreTidy /\ HomesOrHints /\ WriteQuorum

LEMMA InvImplies ==
    ASSUME Inv
    PROVE  ReplicasInv
<1>1. NothingIsLost
  BY OrderFacts DEF Inv, HomesOrHints, Safe, NothingIsLost
<1> QED BY <1>1 DEF Inv, ReplicasInv

LEMMA CoveredHomesFinite ==
    ASSUME NEW v
    PROVE  /\ CoveredHomes(v) \in SUBSET (1..N) /\ IsFiniteSet(CoveredHomes(v))
           /\ Cardinality(CoveredHomes(v)) \in Nat
<1>1. CoveredHomes(v) \in SUBSET (1..N)
  BY DEF CoveredHomes
<1> QED BY <1>1, TargetsFinite, FS_Subset, FS_CardinalityType

LEMMA ReadCovers ==
    ASSUME Inv, ~sloppy, W + R > N, Cardinality(Targets) >= R, NEW v \in acked
    PROVE  Covered(v, Read)
<1>1. Cardinality(CoveredHomes(v)) >= W
  BY DEF Inv, WriteQuorum
<1>2. Asked \in SUBSET Targets /\ Cardinality(Asked) = R
  BY AskedFacts
<1>3. CoveredHomes(v) \cap Asked # {}
  <2>1. /\ Asked \in SUBSET (1..N) /\ CoveredHomes(v) \in SUBSET (1..N)
        /\ Cardinality(CoveredHomes(v)) \in Nat
    BY <1>2, TargetsFinite, CoveredHomesFinite
  <2>2. Cardinality(CoveredHomes(v)) + Cardinality(Asked) > Cardinality(1..N)
    BY <1>1, <1>2, <2>1, TargetsFinite, OrderFacts
  <2> QED BY <2>1, <2>2, TargetsFinite, FS_MajoritiesIntersect
<1>4. PICK i \in CoveredHomes(v) : i \in Asked
  BY <1>3
<1>5. HolderOf(i) = Order[i] /\ Order[i] \in Answering
  BY <1>2, <1>4, HolderFacts DEF Answering
<1> DEFINE all == UNION {data[n] : n \in Answering}
<1>6. data[Order[i]] \in SUBSET all /\ all \in SUBSET acked /\ acked \in SUBSET Version
  <2>1. Answering \subseteq Node
    <3>1. \A j \in Asked : HolderOf(j) \in up
      BY <1>2, HolderFacts
    <3> QED BY <3>1 DEF Answering, Inv, TypeOK
  <2>2. \A n \in Node : data[n] \subseteq acked
    BY DEF Inv, StoresAcked
  <2> QED BY <1>5, <2>1, <2>2 DEF Inv, TypeOK
<1>7. IsFiniteSet(all) /\ all \in SUBSET Version
  BY <1>6, FS_Subset DEF Inv, StoresAcked
<1>8. Keeps(data[Order[i]], Read)
  <2>1. Keeps(data[Order[i]], Reconcile(all))
    <3> HIDE DEF all
    <3> QED BY <1>6, <1>7, ReconcileKeeps
  <2> QED BY <2>1 DEF Read
<1>9. Read \in SUBSET Version /\ data[Order[i]] \in SUBSET Version /\ v \in Version
  <2>1. Read \subseteq all
    BY ReconcileDrops DEF Read
  <2> QED BY <1>6, <1>7, <2>1
<1>10. Covered(v, data[Order[i]])
  BY <1>4 DEF CoveredHomes
<1> QED BY <1>8, <1>9, <1>10, KeepsCovered

------------------------------------------------------------------------------
(* KVCluster: steps *)

\* What is left of A and B is tidy, and keeps what both have.
LEMMA Reconciled ==
    ASSUME NEW F \in SUBSET Version, IsFiniteSet(F), NEW A \in SUBSET F, NEW B \in SUBSET F
    PROVE  /\ Reconcile(A \cup B) \in SUBSET F
           /\ Reconcile(A \cup B) = Reconcile(Reconcile(A \cup B))
           /\ Keeps(A, Reconcile(A \cup B)) /\ Keeps(B, Reconcile(A \cup B))
<1> DEFINE T == A \cup B
<1>1. T \in SUBSET F /\ A \in SUBSET T /\ B \in SUBSET T
  OBVIOUS
<1> HIDE DEF T
<1>2. T \in SUBSET Version /\ IsFiniteSet(T)
  BY <1>1, FS_Subset
<1>3. /\ Reconcile(T) \in SUBSET F /\ Reconcile(T) = Reconcile(Reconcile(T))
      /\ Keeps(A, Reconcile(T)) /\ Keeps(B, Reconcile(T))
  BY <1>1, <1>2, ReconcileDrops, ReconcileKeeps
<1> QED BY <1>3 DEF T

\* What a step has to show besides types and tidiness: homes lose nothing, a hint
\* is kept or goes to a home, and a new version is safe.
LEMMA Closing ==
    ASSUME Inv, TypeOK', StoresAcked', ReplicasAreTidy', sloppy' = sloppy,
           \A h \in Home : Keeps(data[h], data'[h]),
           \A n \in Node, h \in Home : \/ Keeps(hints[n][h], hints'[n][h])
                                       \/ \E g \in Home : Keeps(hints[n][h], data'[g]),
           \A v \in acked' : \/ v \in acked
                             \/ /\ Safe(v)'
                                /\ ~sloppy => Cardinality(CoveredHomes(v)') >= W
    PROVE  Inv'
<1>1. /\ \A h \in Home : data[h] \in SUBSET Version /\ data'[h] \in SUBSET Version
      /\ \A n \in Node, h \in Home : hints[n][h] \in SUBSET Version /\ hints'[n][h] \in SUBSET Version
      /\ acked \subseteq Version
  BY OrderFacts DEF Inv, TypeOK
<1>2. ASSUME NEW v \in acked, NEW h \in Home, Covered(v, data[h])
      PROVE  Covered(v, data'[h])
  BY <1>1, <1>2, KeepsCovered
<1>3. ASSUME NEW v \in acked PROVE Safe(v)'
  <2>1. CASE \E h \in Home : Covered(v, data[h])
    BY <1>2, <2>1 DEF Safe
  <2>2. ASSUME NEW n \in Node, NEW h \in Home, Covered(v, hints[n][h])
        PROVE  Safe(v)'
    <3>1. CASE Keeps(hints[n][h], hints'[n][h])
      <4>1. Covered(v, hints'[n][h])
        BY <1>1, <2>2, <3>1, KeepsCovered
      <4> QED BY <4>1 DEF Safe
    <3>2. ASSUME NEW g \in Home, Keeps(hints[n][h], data'[g]) PROVE Safe(v)'
      <4>1. Covered(v, data'[g])
        BY <1>1, <2>2, <3>2, KeepsCovered
      <4> QED BY <4>1 DEF Safe
    <3> QED BY <3>1, <3>2
  <2>3. Safe(v)
    BY DEF Inv, HomesOrHints
  <2> QED BY <2>1, <2>2, <2>3 DEF Safe
<1>4. HomesOrHints'
  BY <1>3 DEF HomesOrHints
<1>5. ASSUME ~sloppy, NEW v \in acked PROVE Cardinality(CoveredHomes(v)') >= W
  <2>1. CoveredHomes(v) \in SUBSET (CoveredHomes(v)')
    <3>1. \A i \in 1..N : Order[i] \in Home
      BY OrderFacts
    <3> QED BY <1>2, <3>1 DEF CoveredHomes
  <2>2. CoveredHomes(v)' \in SUBSET (1..N) /\ IsFiniteSet(CoveredHomes(v)')
    <3>1. CoveredHomes(v)' \in SUBSET (1..N)
      BY DEF CoveredHomes
    <3> QED BY <3>1, TargetsFinite, FS_Subset
  <2>3. Cardinality(CoveredHomes(v)) <= Cardinality(CoveredHomes(v)')
    BY <2>1, <2>2, FS_Subset
  <2>4. Cardinality(CoveredHomes(v)) >= W
    BY <1>5 DEF Inv, WriteQuorum
  <2> QED BY <2>2, <2>3, <2>4, CoveredHomesFinite, OrderFacts, FS_CardinalityType
<1>6. WriteQuorum'
  BY <1>5 DEF WriteQuorum
<1> QED BY <1>4, <1>6 DEF Inv

\* store on every node, of versions of a finite set that holds all there are.
LEMMA StoredFacts ==
    ASSUME Inv, NEW F \in SUBSET Version, IsFiniteSet(F), acked \subseteq F,
           NEW inc \in [Node -> SUBSET F], NEW D, D = Stored(inc)
    PROVE  /\ D \in [Node -> SUBSET F]
           /\ \A n \in Node : D[n] = Reconcile(D[n]) /\ Keeps(data[n], D[n]) /\ Keeps(inc[n], D[n])
<1>1. ASSUME NEW n \in Node
      PROVE  /\ D[n] \in SUBSET F /\ D[n] = Reconcile(D[n])
             /\ Keeps(data[n], D[n]) /\ Keeps(inc[n], D[n])
  <2>1. data[n] \in SUBSET F /\ data[n] = Reconcile(data[n]) /\ inc[n] \in SUBSET F
    BY DEF Inv, StoresAcked, ReplicasAreTidy
  <2>2. D[n] = IF inc[n] = {} THEN data[n] ELSE Reconcile(data[n] \cup inc[n])
    BY DEF Stored
  <2>3. CASE inc[n] = {}
    <3>1. D[n] = data[n]
      BY <2>2, <2>3
    <3> QED BY <2>1, <2>3, <3>1, KeepsItself
  <2>4. CASE inc[n] # {}
    <3>1. D[n] = Reconcile(data[n] \cup inc[n])
      BY <2>2, <2>4
    <3>2. /\ Reconcile(data[n] \cup inc[n]) \in SUBSET F
          /\ Reconcile(data[n] \cup inc[n]) = Reconcile(Reconcile(data[n] \cup inc[n]))
          /\ Keeps(data[n], Reconcile(data[n] \cup inc[n]))
          /\ Keeps(inc[n], Reconcile(data[n] \cup inc[n]))
      BY <2>1, Reconciled
    <3> QED BY <3>1, <3>2
  <2> QED BY <2>3, <2>4
<1>2. D = [n \in Node |-> D[n]]
  BY DEF Stored
<1> QED BY <1>1, <1>2

\* The greatest of finitely many counters, or of them and one more, is a counter.
LEMMA MaxOfImage ==
    ASSUME NEW S, IsFiniteSet(S), NEW f \in [S -> Nat], NEW k \in Nat
    PROVE  Max({f[x] : x \in S} \cup {k}) \in Nat
<1> DEFINE T == {f[x] : x \in S}
<1>1. IsFiniteSet(T)
  <2>1. f \in Surjection(S, T)
    BY DEF Surjection
  <2> HIDE DEF T
  <2> QED BY <2>1, FS_Surjection
<1>2. T \in SUBSET Nat
  OBVIOUS
<1> HIDE DEF T
<1>3. IsFiniteSet(T \cup {k}) /\ T \cup {k} \in SUBSET Nat /\ T \cup {k} # {}
  BY <1>1, <1>2, FS_AddElement
<1>4. Max(T \cup {k}) \in T \cup {k}
  BY <1>3, MaxFacts
<1> QED BY <1>3, <1>4 DEF T

LEMMA StampIsClock ==
    ASSUME Inv, NEW via \in Node, NEW ctx \in Clock
    PROVE  Stamp(via, ctx) \in Clock
<1> DEFINE f == [v \in data[via] |-> v.clock[via]]
           m == Max({f[v] : v \in data[via]} \cup {ctx[via]})
<1>1. \A v \in data[via] : v.clock[via] \in Nat
  BY DEF Inv, TypeOK, Version, Clock
<1>2. f \in [data[via] -> Nat] /\ ctx[via] \in Nat
  BY <1>1 DEF Clock
<1>3. IsFiniteSet(data[via])
  BY FS_Subset DEF Inv, StoresAcked
<1>4. m \in Nat
  <2> HIDE DEF f
  <2> QED BY <1>2, <1>3, MaxOfImage
<1>5. {f[v] : v \in data[via]} = {v.clock[via] : v \in data[via]}
  OBVIOUS
<1>6. Stamp(via, ctx) = [ctx EXCEPT ![via] = m + 1]
  BY <1>5 DEF Stamp
<1> HIDE DEF m
<1> QED BY <1>4, <1>6 DEF Clock

LEMMA MergeIsClock ==
    ASSUME NEW S, IsFiniteSet(S), S \subseteq Version
    PROVE  Merge({v.clock : v \in S}) \in Clock
<1> SUFFICES ASSUME NEW n \in Node
             PROVE  Max({c[n] : c \in {v.clock : v \in S}} \cup {0}) \in Nat
  BY DEF Merge, Clock
<1> DEFINE f == [v \in S |-> v.clock[n]]
<1>1. f \in [S -> Nat]
  BY DEF Version, Clock
<1>2. Max({f[v] : v \in S} \cup {0}) \in Nat
  <2> HIDE DEF f
  <2> QED BY <1>1, MaxOfImage
<1>3. {f[v] : v \in S} = {c[n] : c \in {v.clock : v \in S}}
  OBVIOUS
<1> QED BY <1>2, <1>3

LEMMA PutStep ==
    ASSUME Inv, NEW via \in Node, NEW ctx \in Clock, Put(via, ctx)
    PROVE  Inv'
<1> DEFINE new == [value |-> Cardinality(acked) + 1, clock |-> Stamp(via, ctx)]
           standsIn(n, h) == \E i \in Targets : Order[i] = h /\ HolderOf(i) = n /\ n # h
           Inc(w) == [n \in Node |-> IF n \in Holders THEN {w} ELSE {}]
<1>1. /\ Cardinality(Targets) >= W /\ Cardinality(acked) < MaxWrites
      /\ data' = Stored(Inc(new))
      /\ hints' = [n \in Node |-> [h \in Home |->
                     IF standsIn(n, h) THEN Hinted(n, h, new) ELSE hints[n][h]]]
      /\ acked' = acked \cup {new}
      /\ sloppy' = sloppy /\ up' = up /\ context' = context /\ fails' = fails
  BY DEF Put
<1>2. PICK version \in Version :
         /\ data' = Stored(Inc(version))
         /\ hints' = [n \in Node |-> [h \in Home |->
                        IF standsIn(n, h) THEN Hinted(n, h, version) ELSE hints[n][h]]]
         /\ acked' = acked \cup {version}
  <2>1. Cardinality(acked) \in Nat
    BY FS_CardinalityType DEF Inv, StoresAcked
  <2>2. Cardinality(acked) + 1 \in 1..MaxWrites
    BY <1>1, <2>1, OrderFacts
  <2>3. Stamp(via, ctx) \in Clock
    BY StampIsClock
  <2>4. new \in Version
    BY <2>2, <2>3 DEF Version
  <2> HIDE DEF new, Inc, standsIn
  <2> QED BY <1>1, <2>4
<1> DEFINE inc == Inc(version)
<1>3. acked' \in SUBSET Version /\ IsFiniteSet(acked') /\ acked \subseteq acked'
  BY <1>2, FS_AddElement DEF Inv, TypeOK, StoresAcked
<1>4. inc \in [Node -> SUBSET acked']
  BY <1>2
<1>5. /\ data' \in [Node -> SUBSET acked']
      /\ \A n \in Node : /\ data'[n] = Reconcile(data'[n])
                         /\ Keeps(data[n], data'[n]) /\ Keeps(inc[n], data'[n])
  <2>1. data' = Stored(inc)
    BY <1>2
  <2> HIDE DEF inc
  <2> QED BY <1>3, <1>4, <2>1, StoredFacts
<1>6. ASSUME NEW n \in Node, NEW h \in Home
      PROVE  /\ Hinted(n, h, version) \in SUBSET acked'
             /\ Keeps(hints[n][h], Hinted(n, h, version)) /\ Keeps({version}, Hinted(n, h, version))
  <2>1. hints[n][h] \in SUBSET acked' /\ {version} \in SUBSET acked'
    BY <1>2 DEF Inv, StoresAcked
  <2>2. /\ Reconcile(hints[n][h] \cup {version}) \in SUBSET acked'
        /\ Keeps(hints[n][h], Reconcile(hints[n][h] \cup {version}))
        /\ Keeps({version}, Reconcile(hints[n][h] \cup {version}))
    BY <1>3, <2>1, Reconciled
  <2> QED BY <2>2 DEF Hinted
<1>7. ASSUME NEW n \in Node, NEW h \in Home
      PROVE  /\ hints'[n][h] = IF standsIn(n, h) THEN Hinted(n, h, version) ELSE hints[n][h]
             /\ hints'[n][h] \in SUBSET acked' /\ Keeps(hints[n][h], hints'[n][h])
  <2>1. hints'[n][h] = IF standsIn(n, h) THEN Hinted(n, h, version) ELSE hints[n][h]
    BY <1>2
  <2>2. hints[n][h] \in SUBSET acked' /\ Keeps(hints[n][h], hints[n][h])
    BY <1>3, KeepsItself DEF Inv, StoresAcked
  <2> HIDE DEF standsIn
  <2> QED BY <1>6, <2>1, <2>2
<1>8. TypeOK'
  <2>1. data' \in [Node -> SUBSET Version]
    BY <1>3, <1>5
  <2>2. hints' \in [Node -> [Home -> SUBSET Version]]
    <3>1. hints' = [n \in Node |-> [h \in Home |-> hints'[n][h]]]
      BY <1>2
    <3>2. \A n \in Node, h \in Home : hints'[n][h] \in SUBSET Version
      BY <1>3, <1>7
    <3> QED BY <3>1, <3>2
  <2> QED BY <1>1, <1>3, <2>1, <2>2 DEF Inv, TypeOK
<1>9. StoresAcked'
  BY <1>3, <1>5, <1>7 DEF StoresAcked
<1>10. ReplicasAreTidy'
  <2>1. ASSUME NEW n \in Node, NEW h \in Home, hints'[n][h] # {} PROVE h \notin up
    <3>1. CASE standsIn(n, h)
      <4>1. PICK i \in Targets : Order[i] = h /\ HolderOf(i) = n /\ n # h
        BY <3>1
      <4> QED BY <4>1, HolderFacts
    <3>2. CASE ~standsIn(n, h)
      <4>1. hints[n][h] # {}
        BY <1>7, <2>1, <3>2
      <4> QED BY <4>1 DEF Inv, ReplicasAreTidy
    <3> QED BY <3>1, <3>2
  <2> QED BY <1>1, <1>5, <2>1 DEF ReplicasAreTidy
<1>11. ASSUME NEW i \in Targets, HolderOf(i) = Order[i]
       PROVE  i \in CoveredHomes(version)'
  <2>1. Order[i] \in Holders /\ Order[i] \in Node /\ i \in 1..N
    BY <1>11, HolderFacts, OrderFacts DEF Holders
  <2>2. inc[Order[i]] = {version} /\ Keeps(inc[Order[i]], data'[Order[i]])
    BY <1>5, <2>1
  <2>3. Covered(version, data'[Order[i]])
    <3> HIDE DEF inc
    <3> QED BY <2>2 DEF Keeps
  <2> QED BY <2>1, <2>3 DEF CoveredHomes
<1>12. Safe(version)'
  <2>1. PICK i \in Targets : TRUE
    <3>1. Targets # {}
      <4>1. Cardinality(Targets) # 0
        BY <1>1, OrderFacts, ClusterAssumption, TargetsFinite
      <4> QED BY <4>1, FS_EmptySet
    <3> QED BY <3>1
  <2>2. CASE HolderOf(i) = Order[i]
    <3>1. Covered(version, data'[Order[i]]) /\ Order[i] \in Home
      BY <1>11, <2>2, HolderFacts, OrderFacts DEF CoveredHomes
    <3> QED BY <3>1 DEF Safe
  <2>3. CASE HolderOf(i) # Order[i]
    <3>1. HolderOf(i) \in Node /\ Order[i] \in Home
      BY HolderFacts, OrderFacts DEF Inv, TypeOK
    <3>2. standsIn(HolderOf(i), Order[i])
      BY <2>3
    <3>3. hints'[HolderOf(i)][Order[i]] = Hinted(HolderOf(i), Order[i], version)
      BY <1>7, <3>1, <3>2
    <3>4. Keeps({version}, Hinted(HolderOf(i), Order[i], version))
      BY <1>6, <3>1
    <3>5. Covered(version, hints'[HolderOf(i)][Order[i]])
      BY <3>3, <3>4 DEF Keeps
    <3> QED BY <3>1, <3>5 DEF Safe
  <2> QED BY <2>2, <2>3
<1>13. ASSUME ~sloppy PROVE Cardinality(CoveredHomes(version)') >= W
  <2>1. Targets \in SUBSET (CoveredHomes(version)')
    BY <1>11, <1>13, HolderFacts
  <2>2. CoveredHomes(version)' \in SUBSET (1..N)
    BY DEF CoveredHomes
  <2>3. IsFiniteSet(CoveredHomes(version)') /\ Cardinality(CoveredHomes(version)') \in Nat
    BY <2>2, TargetsFinite, FS_Subset, FS_CardinalityType
  <2>4. Cardinality(Targets) <= Cardinality(CoveredHomes(version)')
    BY <2>1, <2>3, FS_Subset
  <2> QED BY <1>1, <2>3, <2>4, TargetsFinite, OrderFacts
<1>14. \A v \in acked' : \/ v \in acked
                         \/ /\ Safe(v)'
                            /\ ~sloppy => Cardinality(CoveredHomes(v)') >= W
  BY <1>2, <1>12, <1>13
<1> HIDE DEF inc, standsIn
<1>15. /\ \A h \in Home : Keeps(data[h], data'[h])
       /\ \A n \in Node, h \in Home : Keeps(hints[n][h], hints'[n][h])
       /\ sloppy' = sloppy
  BY <1>1, <1>5, <1>7, OrderFacts
<1> QED BY <1>8, <1>9, <1>10, <1>14, <1>15, Closing

LEMMA GetStep ==
    ASSUME Inv, NEW c \in Client, Get(c)
    PROVE  Inv'
<1> DEFINE inc == [n \in Node |-> IF n \in Answering THEN Read ELSE {}]
<1>1. /\ data' = Stored(inc)
      /\ context' = [context EXCEPT ![c] = Merge({v.clock : v \in Read})]
      /\ UNCHANGED <<sloppy, up, hints, acked, fails>>
  BY DEF Get
<1>2. Cardinality(Targets) >= R
  BY DEF Get
<1>3. acked \in SUBSET Version /\ IsFiniteSet(acked)
  BY DEF Inv, TypeOK, StoresAcked
<1>4. Read \in SUBSET acked
  <2>1. \A n \in Answering : n \in Node
    <3>1. \A i \in Asked : HolderOf(i) \in up
      BY <1>2, AskedFacts, HolderFacts
    <3> QED BY <3>1 DEF Answering, Inv, TypeOK
  <2>2. \A n \in Node : data[n] \subseteq acked
    BY DEF Inv, StoresAcked
  <2>3. UNION {data[n] : n \in Answering} \subseteq acked
    BY <2>1, <2>2
  <2> QED BY <2>3, ReconcileDrops DEF Read
<1>5. inc \in [Node -> SUBSET acked]
  BY <1>4
<1>6. /\ data' \in [Node -> SUBSET acked]
      /\ \A n \in Node : data'[n] = Reconcile(data'[n]) /\ Keeps(data[n], data'[n])
  <2> HIDE DEF inc
  <2> QED BY <1>1, <1>3, <1>5, StoredFacts
<1>7. TypeOK'
  <2>1. IsFiniteSet(Read) /\ Read \subseteq Version
    BY <1>3, <1>4, FS_Subset
  <2>2. Merge({v.clock : v \in Read}) \in Clock
    BY <2>1, MergeIsClock
  <2>3. context' \in [Client -> Clock]
    BY <1>1, <2>2 DEF Inv, TypeOK
  <2>4. data' \in [Node -> SUBSET Version]
    BY <1>3, <1>6
  <2> QED BY <1>1, <2>3, <2>4 DEF Inv, TypeOK
<1>8. StoresAcked'
  BY <1>1, <1>6 DEF Inv, StoresAcked
<1>9. ReplicasAreTidy'
  BY <1>1, <1>6 DEF Inv, ReplicasAreTidy
<1>10. /\ \A h \in Home : Keeps(data[h], data'[h])
       /\ \A n \in Node, h \in Home : Keeps(hints[n][h], hints'[n][h])
       /\ sloppy' = sloppy /\ \A v \in acked' : v \in acked
  BY <1>1, <1>6, OrderFacts, KeepsItself
<1> QED BY <1>7, <1>8, <1>9, <1>10, Closing

LEMMA FailStep ==
    ASSUME Inv, NEW n \in Node, Fail(n)
    PROVE  Inv'
<1>1. /\ up' = up \ {n} /\ fails' = fails + 1 /\ fails < MaxFails
      /\ UNCHANGED <<sloppy, data, hints, context, acked>>
  BY DEF Fail
<1>2. TypeOK'
  <2>1. fails' \in 0..MaxFails
    BY <1>1, ClusterAssumption DEF Inv, TypeOK
  <2> QED BY <1>1, <2>1 DEF Inv, TypeOK
<1>3. StoresAcked' /\ ReplicasAreTidy'
  BY <1>1 DEF Inv, StoresAcked, ReplicasAreTidy
<1>4. /\ \A h \in Home : Keeps(data[h], data'[h])
      /\ \A m \in Node, h \in Home : Keeps(hints[m][h], hints'[m][h])
      /\ sloppy' = sloppy /\ \A v \in acked' : v \in acked
  BY <1>1, KeepsItself
<1> QED BY <1>2, <1>3, <1>4, Closing

LEMMA RecoverStep ==
    ASSUME Inv, NEW n \in Node, Recover(n)
    PROVE  Inv'
<1> DEFINE keepers == IF n \in Home THEN {m \in Node : hints[m][n] # {}} ELSE {}
           handed == UNION {hints[m][n] : m \in keepers}
<1>1. /\ up' = up \cup {n}
      /\ data' = [m \in Node |->
                 IF m \in keepers \ Home THEN {}
                 ELSE IF m = n THEN Reconcile(data[m] \cup handed) ELSE data[m]]
      /\ hints' = [m \in Node |-> [h \in Home |-> IF h = n THEN {} ELSE hints[m][h]]]
      /\ UNCHANGED <<sloppy, context, acked, fails>>
  BY DEF Recover
<1>2. acked \in SUBSET Version /\ IsFiniteSet(acked)
  BY DEF Inv, TypeOK, StoresAcked
<1>3. handed \in SUBSET acked
  <2>1. \A m \in keepers : m \in Node /\ n \in Home
    OBVIOUS
  <2>2. \A m \in Node : n \in Home => hints[m][n] \subseteq acked
    BY DEF Inv, StoresAcked
  <2> HIDE DEF keepers
  <2> QED BY <2>1, <2>2
<1>4. /\ Reconcile(data[n] \cup handed) \in SUBSET acked
      /\ Reconcile(data[n] \cup handed) = Reconcile(Reconcile(data[n] \cup handed))
      /\ Keeps(data[n], Reconcile(data[n] \cup handed))
      /\ Keeps(handed, Reconcile(data[n] \cup handed))
  <2>1. data[n] \in SUBSET acked
    BY DEF Inv, StoresAcked
  <2> HIDE DEF handed
  <2> QED BY <1>2, <1>3, <2>1, Reconciled
<1>5. n \in Home => n \notin keepers \ Home
  OBVIOUS
<1> HIDE DEF handed
<1>6. ASSUME NEW m \in Node
      PROVE  /\ data'[m] \in SUBSET acked /\ data'[m] = Reconcile(data'[m])
             /\ m \in Home => Keeps(data[m], data'[m])
             /\ m = n /\ m \in Home => Keeps(handed, data'[m])
  <2>1. CASE m \in keepers \ Home
    <3>1. data'[m] = {}
      BY <1>1, <2>1
    <3> QED BY <2>1, <3>1 DEF Reconcile
  <2>2. CASE m \notin keepers \ Home /\ m = n
    <3>1. data'[m] = Reconcile(data[n] \cup handed)
      BY <1>1, <2>2
    <3> QED BY <1>4, <2>2, <3>1
  <2>3. CASE m \notin keepers \ Home /\ m # n
    <3>1. data'[m] = data[m]
      BY <1>1, <2>3
    <3> QED BY <2>3, <3>1, KeepsItself DEF Inv, StoresAcked, ReplicasAreTidy
  <2> QED BY <2>1, <2>2, <2>3
<1>7. ASSUME NEW m \in Node, NEW h \in Home
      PROVE  /\ hints'[m][h] = IF h = n THEN {} ELSE hints[m][h]
             /\ hints'[m][h] \in SUBSET acked
  BY <1>1 DEF Inv, StoresAcked
<1>8. TypeOK'
  <2>1. data' \in [Node -> SUBSET Version]
    <3>1. data' = [m \in Node |-> data'[m]]
      BY <1>1
    <3> QED BY <1>2, <1>6, <3>1
  <2>2. hints' \in [Node -> [Home -> SUBSET Version]]
    <3>1. hints' = [m \in Node |-> [h \in Home |-> hints'[m][h]]]
      BY <1>1
    <3>2. \A m \in Node, h \in Home : hints'[m][h] \in SUBSET Version
      BY <1>2, <1>7
    <3> QED BY <3>1, <3>2
  <2> HIDE DEF keepers
  <2> QED BY <1>1, <2>1, <2>2 DEF Inv, TypeOK
<1>9. StoresAcked'
  <2> HIDE DEF keepers
  <2> QED BY <1>1, <1>2, <1>6, <1>7 DEF StoresAcked
<1>10. ReplicasAreTidy'
  <2>1. ASSUME NEW m \in Node, NEW h \in Home, hints'[m][h] # {} PROVE h \notin up'
    <3>1. h # n /\ hints[m][h] # {}
      BY <1>7, <2>1
    <3> QED BY <1>1, <3>1 DEF Inv, ReplicasAreTidy
  <2> QED BY <1>6, <2>1 DEF ReplicasAreTidy
<1>11. ASSUME NEW m \in Node, NEW h \in Home
       PROVE  \/ Keeps(hints[m][h], hints'[m][h])
              \/ \E g \in Home : Keeps(hints[m][h], data'[g])
  <2>1. CASE h # n
    BY <1>7, <2>1, KeepsItself
  <2>2. CASE h = n /\ hints[m][h] = {}
    BY <1>7, <2>2, KeepsItself
  <2>3. CASE h = n /\ hints[m][h] # {}
    <3>1. hints[m][h] \subseteq handed
      BY <2>3 DEF handed
    <3>2. Keeps(handed, data'[n])
      BY <1>6, <2>3
    <3>3. Keeps(hints[m][h], data'[n])
      BY <3>1, <3>2 DEF Keeps
    <3> QED BY <2>3, <3>3
  <2> QED BY <2>1, <2>2, <2>3
<1>12. /\ \A h \in Home : Keeps(data[h], data'[h])
       /\ sloppy' = sloppy /\ \A v \in acked' : v \in acked
  BY <1>1, <1>6, OrderFacts
<1> QED BY <1>8, <1>9, <1>10, <1>11, <1>12, Closing

LEMMA AntiEntropyStep ==
    ASSUME Inv, NEW m \in Home, NEW n \in Home, AntiEntropy(m, n)
    PROVE  Inv'
<1> DEFINE both == Reconcile(data[m] \cup data[n])
<1>1. /\ data' = [data EXCEPT ![m] = both, ![n] = both]
      /\ UNCHANGED <<sloppy, up, hints, context, acked, fails>>
  BY DEF AntiEntropy
<1>2. /\ acked \in SUBSET Version /\ IsFiniteSet(acked) /\ m \in Node /\ n \in Node
      /\ data[m] \in SUBSET acked /\ data[n] \in SUBSET acked
  BY OrderFacts DEF Inv, TypeOK, StoresAcked
<1>3. both \in SUBSET acked /\ both = Reconcile(both) /\ Keeps(data[m], both) /\ Keeps(data[n], both)
  <2> DEFINE A == data[m]
             B == data[n]
  <2>1. A \in SUBSET acked /\ B \in SUBSET acked /\ both = Reconcile(A \cup B)
    BY <1>2
  <2> HIDE DEF A, B, both
  <2>2. /\ Reconcile(A \cup B) \in SUBSET acked
        /\ Reconcile(A \cup B) = Reconcile(Reconcile(A \cup B))
        /\ Keeps(A, Reconcile(A \cup B)) /\ Keeps(B, Reconcile(A \cup B))
    BY <1>2, <2>1, Reconciled
  <2> QED BY <2>1, <2>2 DEF A, B
<1> HIDE DEF both
<1>4. ASSUME NEW k \in Node
      PROVE  data'[k] \in SUBSET acked /\ data'[k] = Reconcile(data'[k]) /\ Keeps(data[k], data'[k])
  <2>1. CASE k = m \/ k = n
    <3>1. data'[k] = both
      BY <1>1, <1>2, <2>1 DEF Inv, TypeOK
    <3> QED BY <1>3, <2>1, <3>1
  <2>2. CASE k # m /\ k # n
    <3>1. data'[k] = data[k]
      BY <1>1, <1>2, <2>2 DEF Inv, TypeOK
    <3> QED BY <3>1, KeepsItself DEF Inv, StoresAcked, ReplicasAreTidy
  <2> QED BY <2>1, <2>2
<1>5. TypeOK'
  <2>1. data' \in [Node -> SUBSET Version]
    BY <1>1, <1>2, <1>3 DEF Inv, TypeOK
  <2> QED BY <1>1, <2>1 DEF Inv, TypeOK
<1>6. StoresAcked'
  BY <1>1, <1>2, <1>4 DEF Inv, StoresAcked
<1>7. ReplicasAreTidy'
  BY <1>1, <1>4 DEF Inv, ReplicasAreTidy
<1>8. /\ \A h \in Home : Keeps(data[h], data'[h])
      /\ \A k \in Node, h \in Home : Keeps(hints[k][h], hints'[k][h])
      /\ sloppy' = sloppy /\ \A v \in acked' : v \in acked
  BY <1>1, <1>4, OrderFacts, KeepsItself
<1> QED BY <1>5, <1>6, <1>7, <1>8, Closing

LEMMA InvInit == Init => Inv
<1> SUFFICES ASSUME Init PROVE Inv
  OBVIOUS
<1>1. TypeOK
  BY ClusterAssumption DEF Init, TypeOK, Zero, Clock
<1>2. StoresAcked
  BY FS_EmptySet DEF Init, StoresAcked
<1>3. ReplicasAreTidy
  BY DEF Init, ReplicasAreTidy, Reconcile
<1>4. HomesOrHints /\ WriteQuorum
  BY DEF Init, HomesOrHints, WriteQuorum
<1> QED BY <1>1, <1>2, <1>3, <1>4 DEF Inv

LEMMA InvStep == Inv /\ [Next]_vars => Inv'
<1> SUFFICES ASSUME Inv, [Next]_vars PROVE Inv'
  OBVIOUS
<1>1. CASE PutBlind
  <2>1. Zero \in Clock
    BY DEF Zero, Clock
  <2> QED BY <1>1, <2>1, PutStep DEF PutBlind
<1>2. ASSUME NEW c \in Client, PutInContext(c) PROVE Inv'
  <2>1. context[c] \in Clock
    BY DEF Inv, TypeOK
  <2> QED BY <1>2, <2>1, PutStep DEF PutInContext
<1>3. CASE UNCHANGED vars
  <2>1. TypeOK' /\ StoresAcked' /\ ReplicasAreTidy'
    BY <1>3 DEF vars, Inv, TypeOK, StoresAcked, ReplicasAreTidy
  <2>2. /\ \A h \in Home : Keeps(data[h], data'[h])
        /\ \A k \in Node, h \in Home : Keeps(hints[k][h], hints'[k][h])
        /\ sloppy' = sloppy /\ \A v \in acked' : v \in acked
    BY <1>3, KeepsItself DEF vars
  <2> QED BY <2>1, <2>2, Closing
<1> QED BY <1>1, <1>2, <1>3, GetStep, FailStep, RecoverStep, AntiEntropyStep DEF Next

\* The replicas are tidy and no write that was acknowledged is lost, whichever nodes
\* fail and come back (put, get, recover, anti_entropy).
THEOREM NoWriteIsLost == Spec => []ReplicasInv
<1>1. Inv => ReplicasInv
  BY InvImplies
<1> QED BY <1>1, InvInit, InvStep, PTL DEF Spec

\* In a strict quorum with W + R > N every get covers every acknowledged write
\* (put, get, _targets).
THEOREM ReadsSeeWrites == Spec => []ReadsOverlap
<1>1. Inv => ReadsOverlap
  BY ReadCovers DEF ReadsOverlap
<1> QED BY <1>1, InvInit, InvStep, PTL DEF Spec

------------------------------------------------------------------------------
(* FencingLock *)

\* An entry of the service is a lease; what a client was given has the fields
\* the service reads.
LEMMA EntryFacts ==
    ASSUME LockTypeOK
    PROVE  /\ \A r \in Resource : leases[r] # None =>
                 /\ leases[r] \in Lease
                 /\ leases[r].owner \in Owner
                 /\ leases[r].token \in Token
                 /\ leases[r].expiresAt \in 0..(MaxTime + TTL)
           /\ \A l \in given : l.resource \in Resource /\ l.owner \in Owner /\ l.token \in Token
           /\ \A r \in Resource : values[r] # None => values[r] \in Token
           /\ Token \subseteq Nat
  BY LeaseAssumption DEF LockTypeOK, Lease, Given, Token

\* The invariant holds at the start.
LEMMA InitInv == LockInit => FencingInv
<1> SUFFICES ASSUME LockInit PROVE FencingInv
  OBVIOUS
<1>1. LockTypeOK
  BY LeaseAssumption DEF LockInit, LockTypeOK
<1>2. GrantsAreOrdered /\ LatestGrant /\ LiveWriterIsAccepted
  BY DEF LockInit, GrantsAreOrdered, LatestGrant, LiveWriterIsAccepted
<1> QED BY <1>1, <1>2 DEF FencingInv

\* A grant carries a token no lease, write or refusal has carried before.
LEMMA AcquireInv ==
    ASSUME FencingInv, NEW c \in Owner, NEW r \in Resource, Acquire(c, r)
    PROVE  FencingInv'
<1> USE DEF FencingInv
<1>0. /\ nextToken' = nextToken + 1 /\ nextToken \in Nat
      /\ nextToken' \in Token /\ nextToken' \notin 0..nextToken
      /\ now + TTL \in 0..(MaxTime + TTL)
  BY LeaseAssumption DEF Acquire, LockTypeOK, Token
<1> DEFINE lease == [owner |-> c, token |-> nextToken', expiresAt |-> now + TTL]
           mine == [resource |-> r, owner |-> c, token |-> nextToken']
<1>1. /\ leases' = [leases EXCEPT ![r] = lease] /\ given' = given \cup {mine}
      /\ UNCHANGED <<now, values, rejected>>
  BY DEF Acquire
<1>2. lease \in Lease /\ lease # None /\ mine \in Given
  BY <1>0, NoneAssumption DEF Lease, Given
<1>3. LockTypeOK'
  <2>1. leases' \in [Resource -> Lease \cup {None}]
    BY <1>1, <1>2 DEF LockTypeOK
  <2>2. given' \in SUBSET Given
    BY <1>1, <1>2 DEF LockTypeOK
  <2>3. nextToken' \in 0..MaxToken
    BY <1>0, LeaseAssumption DEF Token
  <2> QED BY <2>1, <2>2, <2>3, <1>1 DEF LockTypeOK
<1>4. \A l \in given : l.token \in Nat /\ l.token <= nextToken
  BY EntryFacts DEF LatestGrant
<1>5. GrantsAreOrdered'
  BY <1>0, <1>1, <1>4 DEF GrantsAreOrdered
<1>6. LatestGrant'
  <2>1. \A l \in given' : l.token <= nextToken'
    BY <1>0, <1>1, <1>4
  <2>2. ASSUME NEW q \in Resource, leases'[q] # None
        PROVE  /\ [resource |-> q, owner |-> leases'[q].owner, token |-> leases'[q].token] \in given'
               /\ \A l \in given' : l.resource = q => l.token <= leases'[q].token
    <3>1. CASE q = r
      BY <3>1, <1>0, <1>1, <2>1 DEF LockTypeOK
    <3>2. CASE q # r
      BY <2>2, <3>2, <1>1 DEF LockTypeOK, LatestGrant
    <3> QED BY <3>1, <3>2
  <2>3. \A q \in Resource : values'[q] # None => \E l \in given' : l.resource = q /\ l.token = values'[q]
    BY <1>1 DEF LatestGrant
  <2>4. \A x \in rejected' : values'[x[1]] # None /\ x[2] < values'[x[1]]
    BY <1>1 DEF LatestGrant
  <2> QED BY <2>1, <2>2, <2>3, <2>4 DEF LatestGrant
<1>7. LiveWriterIsAccepted'
  <2> SUFFICES ASSUME NEW q \in Resource, leases'[q] # None
               PROVE  <<q, leases'[q].token>> \notin rejected' /\ ~Stale(q, leases[q].token)'
    BY DEF LiveWriterIsAccepted
  <2>1. CASE q = r
    <3>1. leases'[q].token = nextToken'
      BY <2>1, <1>1 DEF LockTypeOK
    <3>2. values[q] # None => values[q] \in Nat /\ values[q] <= nextToken
      BY <1>4 DEF LatestGrant
    <3>3. <<q, nextToken'>> \notin rejected
      BY <3>2, <1>0 DEF LatestGrant
    <3> QED BY <3>1, <3>2, <3>3, <1>0, <1>1 DEF Stale
  <2>2. CASE q # r
    BY <2>2, <1>1 DEF LiveWriterIsAccepted, Stale, LockTypeOK
  <2> QED BY <2>1, <2>2
<1> QED BY <1>3, <1>5, <1>6, <1>7

\* Renewing moves only the expiry; the entry stays the grant it was.
LEMMA RenewInv ==
    ASSUME FencingInv, NEW l \in given, Renew(l)
    PROVE  FencingInv'
<1> USE DEF FencingInv
<1> DEFINE r == l.resource
           lease == [owner |-> l.owner, token |-> l.token, expiresAt |-> now + TTL]
<1>1. r \in Resource /\ l.owner \in Owner /\ l.token \in Token
  BY EntryFacts
<1>2. lease \in Lease /\ lease # None
  BY <1>1, LeaseAssumption, NoneAssumption DEF Lease, LockTypeOK
<1>3. /\ leases' = [leases EXCEPT ![r] = lease] /\ leases[r] # None /\ leases[r].token = l.token
      /\ UNCHANGED <<now, nextToken, given, values, rejected>>
  BY DEF Renew, Current
<1>4. LockTypeOK'
  BY <1>1, <1>2, <1>3 DEF LockTypeOK
<1>5. l = [resource |-> r, owner |-> l.owner, token |-> l.token]
  BY DEF LockTypeOK, Given
<1>6. \A q \in Resource : /\ leases'[q] # None <=> leases[q] # None
                          /\ leases'[q] # None => leases'[q].token = leases[q].token
  BY <1>1, <1>2, <1>3 DEF LockTypeOK
<1>7. \A q \in Resource : q # r => leases'[q] = leases[q]
  BY <1>3 DEF LockTypeOK
<1>8. leases'[r] = lease
  BY <1>1, <1>3 DEF LockTypeOK
<1>9. LatestGrant'
  <2>1. ASSUME NEW q \in Resource, leases'[q] # None
        PROVE  [resource |-> q, owner |-> leases'[q].owner, token |-> leases'[q].token] \in given
    BY <2>1, <1>5, <1>7, <1>8 DEF LatestGrant
  <2> QED BY <2>1, <1>3, <1>6 DEF LatestGrant
<1>10. LiveWriterIsAccepted'
  BY <1>3, <1>6 DEF LiveWriterIsAccepted, Stale
<1> QED BY <1>3, <1>4, <1>9, <1>10 DEF GrantsAreOrdered

\* An entry that is gone promises nothing.
LEMMA ReleaseInv ==
    ASSUME FencingInv, NEW l \in given, Release(l)
    PROVE  FencingInv'
<1> USE DEF FencingInv
<1>1. /\ leases' = [leases EXCEPT ![l.resource] = None]
      /\ UNCHANGED <<now, nextToken, given, values, rejected>>
  BY DEF Release
<1>2. \A q \in Resource : leases'[q] # None => leases'[q] = leases[q]
  BY <1>1 DEF LockTypeOK
<1>3. LockTypeOK'
  BY <1>1 DEF LockTypeOK
<1>4. LatestGrant'
  <2>1. ASSUME NEW q \in Resource, leases'[q] # None
        PROVE  /\ [resource |-> q, owner |-> leases'[q].owner, token |-> leases'[q].token] \in given
               /\ \A m \in given : m.resource = q => m.token <= leases'[q].token
    <3>1. leases'[q] = leases[q]
      BY <2>1, <1>2
    <3> QED BY <2>1, <3>1 DEF LatestGrant
  <2> QED BY <2>1, <1>1 DEF LatestGrant
<1>5. LiveWriterIsAccepted'
  BY <1>1, <1>2 DEF LiveWriterIsAccepted, Stale
<1> QED BY <1>1, <1>3, <1>4, <1>5 DEF GrantsAreOrdered

\* A write is refused only for a token below the stored one, and the stored one
\* is never above the token of the service's entry.
LEMMA WriteInv ==
    ASSUME FencingInv, NEW l \in given, Write(l)
    PROVE  FencingInv'
<1> USE DEF FencingInv
<1> DEFINE r == l.resource
<1>1. r \in Resource /\ l.token \in Token /\ l.token \in Nat /\ l.token # None
  BY EntryFacts, NoneAssumption
<1>2. UNCHANGED <<now, leases, nextToken, given>>
  BY DEF Write
<1>3. \A q \in Resource : values[q] # None => values[q] \in Nat
  BY EntryFacts
<1>4. \A q \in Resource : leases[q] # None => leases[q].token \in Nat
  BY EntryFacts
<1>5. CASE Stale(r, l.token)
  <2>1. values' = values /\ rejected' = rejected \cup {<<r, l.token>>}
    BY <1>5 DEF Write
  <2>2. LockTypeOK'
    BY <2>1, <1>1, <1>2 DEF LockTypeOK
  <2>3. LatestGrant'
    BY <1>5, <2>1, <1>2 DEF LatestGrant, Stale
  <2>4. LiveWriterIsAccepted'
    BY <1>5, <2>1, <1>2 DEF LiveWriterIsAccepted, Stale
  <2> QED BY <1>2, <2>2, <2>3, <2>4 DEF GrantsAreOrdered
<1>6. CASE ~Stale(r, l.token)
  <2>1. values' = [values EXCEPT ![r] = l.token] /\ rejected' = rejected
    BY <1>6 DEF Write
  <2>2. LockTypeOK'
    BY <2>1, <1>1, <1>2 DEF LockTypeOK
  <2>3. values'[r] = l.token /\ \A q \in Resource : q # r => values'[q] = values[q]
    BY <2>1, <1>1 DEF LockTypeOK
  <2>4. values[r] # None => values[r] <= l.token
    BY <1>6, <1>1, <1>3 DEF Stale
  <2>5. \A q \in Resource : values'[q] # None => \E m \in given : m.resource = q /\ m.token = values'[q]
    BY <2>3 DEF LatestGrant
  <2>6. ASSUME NEW x \in rejected PROVE values'[x[1]] # None /\ x[2] < values'[x[1]]
    <3>1. x[1] \in Resource /\ x[2] \in Nat /\ values[x[1]] # None /\ x[2] < values[x[1]]
      BY LeaseAssumption DEF LockTypeOK, LatestGrant, Token
    <3>2. CASE x[1] = r
      BY <3>1, <3>2, <2>3, <2>4, <1>1, <1>3
    <3>3. CASE x[1] # r
      BY <3>1, <3>3, <2>3
    <3> QED BY <3>2, <3>3
  <2>7. LatestGrant'
    BY <2>1, <2>5, <2>6, <1>2 DEF LatestGrant
  <2>8. LiveWriterIsAccepted'
    <3> SUFFICES ASSUME NEW q \in Resource, leases[q] # None
                 PROVE  <<q, leases[q].token>> \notin rejected /\ ~Stale(q, leases[q].token)'
      BY <1>2, <2>1 DEF LiveWriterIsAccepted
    <3>1. q = r => l.token <= leases[q].token
      BY DEF LatestGrant
    <3> QED BY <3>1, <2>3, <1>1, <1>2, <1>4 DEF LiveWriterIsAccepted, Stale
  <2> QED BY <1>2, <2>2, <2>7, <2>8 DEF GrantsAreOrdered
<1> QED BY <1>5, <1>6

\* Every step keeps the invariant.
LEMMA StepInv == FencingInv /\ [LockNext]_lockVars => FencingInv'
<1> SUFFICES ASSUME FencingInv, [LockNext]_lockVars PROVE FencingInv'
  OBVIOUS
<1>1. CASE \E c \in Owner, r \in Resource : Acquire(c, r)
  BY <1>1, AcquireInv
<1>2. CASE \E l \in given : Renew(l) \/ Release(l) \/ Write(l)
  BY <1>2, RenewInv, ReleaseInv, WriteInv
<1>3. CASE Tick
  BY <1>3, LeaseAssumption DEF Tick, FencingInv, LockTypeOK, GrantsAreOrdered, LatestGrant, LiveWriterIsAccepted, Stale
<1>4. CASE UNCHANGED lockVars
  BY <1>4 DEF lockVars, FencingInv, LockTypeOK, GrantsAreOrdered, LatestGrant, LiveWriterIsAccepted, Stale
<1> QED BY <1>1, <1>2, <1>3, <1>4 DEF LockNext

\* Tokens are unique and ordered, the stored token never exceeds that of the
\* service's entry, and so FencedStore never refuses a client that has its lock.
THEOREM FencingHolds == LockSpec => []FencingInv
  BY InitInv, StepInv, PTL DEF LockSpec

------------------------------------------------------------------------------
(* FencingLock: the refinement of Turns.  openBar, takenBar and shownBar are  *)
(* its variables as FencingLock gives them.                                   *)

holders == [r \in Resource |-> Holder(r)]
openBar == [r \in Resource |->
              IF Holder(r) = None THEN None ELSE <<leases[r].token, leases[r].owner>>]
takenBar == [r \in Resource |-> {<<l.token, l.owner>> : l \in {m \in given : m.resource = r}}]
shownBar == [r \in Resource |-> IF values[r] = None THEN None ELSE TurnOf(r, values[r])]

\* A token names its grant, so the owner found for it is the one it was given to.
LEMMA OwnerFacts ==
    ASSUME FencingInv
    PROVE  \A l \in given : OwnerOf(l.resource, l.token) = l.owner
  BY DEF FencingInv, GrantsAreOrdered, OwnerOf

\* What the mapping makes of a turn is a pair, never None.
LEMMA TurnFacts ==
    ASSUME FencingInv
    PROVE  /\ \A r \in Resource : values[r] # None =>
                 /\ TurnOf(r, values[r]) \in Token \X Owner
                 /\ TurnOf(r, values[r]) # None
           /\ \A l \in given : <<l.token, l.owner>> # None
<1>1. \A l \in given : l.token \in Token /\ l.owner \in Owner
  BY EntryFacts DEF FencingInv
<1>2. ASSUME NEW r \in Resource, values[r] # None
      PROVE  TurnOf(r, values[r]) \in Token \X Owner
  <2>1. PICK l \in given : l.resource = r /\ l.token = values[r]
    BY <1>2 DEF FencingInv, LatestGrant
  <2>2. OwnerOf(r, values[r]) = l.owner
    BY <2>1, OwnerFacts
  <2> QED BY <2>1, <2>2, <1>1 DEF TurnOf
<1> QED BY <1>1, <1>2, NoneAssumption

\* The owner found for a token does not change while the grants grow.
LEMMA ShownStays ==
    ASSUME FencingInv, FencingInv', given \subseteq given', values' = values
    PROVE  shownBar' = shownBar
<1>1. ASSUME NEW r \in Resource, values[r] # None
      PROVE  TurnOf(r, values[r])' = TurnOf(r, values[r])
  <2>1. PICK l \in given : l.resource = r /\ l.token = values[r]
    BY <1>1 DEF FencingInv, LatestGrant
  <2>2. OwnerOf(r, values[r]) = l.owner
    BY <2>1, OwnerFacts
  <2>3. \A m, n \in given' : m.token = n.token => m = n
    BY DEF FencingInv, GrantsAreOrdered
  <2>4. (CHOOSE m \in given' : m.resource = r /\ m.token = values[r]).owner = l.owner
    BY <2>1, <2>3
  <2>5. OwnerOf(r, values[r])' = l.owner
    BY <2>4 DEF OwnerOf
  <2> QED BY <2>2, <2>5 DEF TurnOf
<1> QED BY <1>1 DEF shownBar

\* A grant opens a turn.
LEMMA AcquireOpens ==
    ASSUME FencingInv, FencingInv', NEW c \in Owner, NEW r \in Resource, Acquire(c, r)
    PROVE  Promise!Open(r, c)
<1> DEFINE lease == [owner |-> c, token |-> nextToken', expiresAt |-> now + TTL]
           mine == [resource |-> r, owner |-> c, token |-> nextToken']
<1>1. /\ leases' = [leases EXCEPT ![r] = lease] /\ given' = given \cup {mine}
      /\ now' = now /\ values' = values /\ holders[r] = None
  BY DEF Acquire, holders
<1>2. nextToken' \in Token /\ nextToken' = nextToken + 1 /\ nextToken \in Nat
  BY LeaseAssumption DEF Acquire, FencingInv, LockTypeOK, Token
<1>3. leases'[r] = lease /\ lease # None /\ \A q \in Resource : q # r => leases'[q] = leases[q]
  <2>1. lease \in Lease
    BY <1>2, LeaseAssumption DEF Lease, FencingInv, LockTypeOK
  <2> QED BY <1>1, <2>1, NoneAssumption DEF FencingInv, LockTypeOK
<1>4. holders'[r] # None
  BY <1>1, <1>3, LeaseAssumption DEF holders, Holder, FencingInv, LockTypeOK
<1>5. \A q \in Resource : q # r => holders'[q] = holders[q]
  BY <1>1, <1>3 DEF holders, Holder
<1>6. openBar' = [openBar EXCEPT ![r] = <<nextToken', c>>]
  <2>1. openBar'[r] = <<nextToken', c>>
    BY <1>3, <1>4 DEF openBar, holders
  <2>2. \A q \in Resource : q # r => openBar'[q] = openBar[q]
    BY <1>3, <1>5 DEF openBar, holders
  <2> QED BY <2>1, <2>2 DEF openBar, holders
<1>7. takenBar' = [takenBar EXCEPT ![r] = @ \cup {<<nextToken', c>>}]
  <2>1. ASSUME NEW q \in Resource, q # r PROVE takenBar'[q] = takenBar[q]
    BY <2>1, <1>1 DEF takenBar
  <2>2. \A x : x \in takenBar'[r] <=> x \in takenBar[r] \/ x = <<nextToken', c>>
    <3>1. \A x : x \in takenBar'[r] <=> \E m \in given' : m.resource = r /\ x = <<m.token, m.owner>>
      BY DEF takenBar
    <3>2. \A x : x \in takenBar[r] <=> \E m \in given : m.resource = r /\ x = <<m.token, m.owner>>
      BY DEF takenBar
    <3>3. mine.resource = r /\ mine.token = nextToken' /\ mine.owner = c
      OBVIOUS
    <3>4. \A m : m \in given' <=> m \in given \/ m = mine
      BY <1>1
    <3> HIDE DEF mine
    <3>5. ASSUME NEW x, x \in takenBar'[r] PROVE x \in takenBar[r] \/ x = <<nextToken', c>>
      <4>1. PICK m \in given' : m.resource = r /\ x = <<m.token, m.owner>>
        BY <3>1, <3>5
      <4>2. CASE m = mine
        BY <3>3, <4>1, <4>2
      <4>3. CASE m \in given
        BY <3>2, <4>1, <4>3
      <4> QED BY <3>4, <4>2, <4>3
    <3>6. ASSUME NEW x, x \in takenBar[r] PROVE x \in takenBar'[r]
      BY <3>1, <3>2, <3>4, <3>6
    <3>7. <<nextToken', c>> \in takenBar'[r]
      BY <3>1, <3>3, <3>4
    <3> QED BY <3>5, <3>6, <3>7
  <2>3. takenBar'[r] = takenBar[r] \cup {<<nextToken', c>>}
    BY <2>2
  <2> QED BY <2>1, <2>3 DEF takenBar
<1>8. shownBar' = shownBar
  BY <1>1, ShownStays
<1>9. \A q \in Resource : \A t \in takenBar[q] : t[1] < nextToken'
  <2>1. \A l \in given : l.token \in Nat /\ l.token <= nextToken
    BY EntryFacts DEF FencingInv, LatestGrant
  <2> QED BY <1>2, <2>1 DEF takenBar
<1>10. openBar[r] = None
  BY <1>1 DEF openBar, holders
<1>11. /\ openBar[r] = None
       /\ \E n \in Token :
             /\ \A q \in Resource : \A t \in takenBar[q] : t[1] < n
             /\ openBar' = [openBar EXCEPT ![r] = <<n, c>>]
             /\ takenBar' = [takenBar EXCEPT ![r] = @ \cup {<<n, c>>}]
       /\ shownBar' = shownBar
  <2> HIDE DEF openBar, takenBar, shownBar
  <2> QED BY <1>2, <1>6, <1>7, <1>8, <1>9, <1>10
<1> QED BY <1>11 DEF Promise!Open, openBar, takenBar, shownBar

\* Releases and the passing of time only end turns.
LEMMA LapseEnds ==
    ASSUME FencingInv, FencingInv', given' = given, values' = values,
           \A r \in Resource : holders'[r] # None => holders[r] # None /\ leases'[r] = leases[r]
    PROVE  \E Q \in SUBSET Resource : Promise!End(Q)
<1> DEFINE Freed == {r \in Resource : holders'[r] = None}
<1>1. openBar' = [r \in Resource |-> IF r \in Freed THEN None ELSE openBar[r]]
  BY DEF openBar, holders
<1>2. takenBar' = takenBar
  BY DEF takenBar
<1>3. shownBar' = shownBar
  BY ShownStays
<1>4. \E Q \in SUBSET Resource : openBar' = [r \in Resource |-> IF r \in Q THEN None ELSE openBar[r]]
  <2>1. Freed \in SUBSET Resource
    BY Zenon
  <2> HIDE DEF Freed
  <2> QED BY <1>1, <2>1
<1>5. PICK Q \in SUBSET Resource : openBar' = [r \in Resource |-> IF r \in Q THEN None ELSE openBar[r]]
  BY <1>4
<1>6. Promise!End(Q)
  BY <1>2, <1>3, <1>5 DEF Promise!End, openBar, holders, takenBar, shownBar
<1> QED BY <1>6

\* A renewal keeps the turn that is open.
LEMMA RenewStutters ==
    ASSUME FencingInv, FencingInv', NEW l \in given, Renew(l)
    PROVE  UNCHANGED <<openBar, takenBar, shownBar>>
<1> DEFINE r == l.resource
           lease == [owner |-> l.owner, token |-> l.token, expiresAt |-> now + TTL]
<1>1. r \in Resource /\ l.owner \in Owner /\ l.token \in Token
  BY EntryFacts DEF FencingInv
<1>2. /\ leases' = [leases EXCEPT ![r] = lease] /\ leases[r] # None /\ leases[r].token = l.token
      /\ now' = now /\ given' = given /\ values' = values /\ holders[r] # None
  BY <1>1 DEF Renew, Current, holders
<1>3. leases'[r] = lease /\ lease # None /\ \A q \in Resource : q # r => leases'[q] = leases[q]
  <2>1. lease \in Lease
    BY <1>1, LeaseAssumption DEF Lease, FencingInv, LockTypeOK
  <2> QED BY <1>1, <1>2, <2>1, NoneAssumption DEF FencingInv, LockTypeOK
<1>4. leases[r].owner = l.owner
  <2>1. [resource |-> r, owner |-> leases[r].owner, token |-> leases[r].token] \in given
    BY <1>1, <1>2 DEF FencingInv, LatestGrant
  <2> QED BY <2>1, <1>2 DEF FencingInv, GrantsAreOrdered
<1>5. holders'[r] # None
  BY <1>2, <1>3, LeaseAssumption DEF holders, Holder, FencingInv, LockTypeOK
<1>6. \A q \in Resource : q # r => holders'[q] = holders[q]
  BY <1>2, <1>3 DEF holders, Holder
<1>7. openBar' = openBar
  BY <1>2, <1>3, <1>4, <1>5, <1>6 DEF openBar, holders
<1>8. takenBar' = takenBar
  BY <1>2 DEF takenBar
<1>9. shownBar' = shownBar
  BY <1>2, ShownStays
<1> QED BY <1>7, <1>8, <1>9

\* An accepted write shows the turn of its lease; a refused one shows nothing.
LEMMA WriteWorks ==
    ASSUME FencingInv, FencingInv', NEW l \in given, Write(l)
    PROVE  \/ \E t \in takenBar[l.resource] : Promise!Work(l.resource, t)
           \/ UNCHANGED <<openBar, takenBar, shownBar>>
<1> DEFINE r == l.resource
           t == <<l.token, l.owner>>
<1>1. r \in Resource /\ l.token \in Token /\ l.token \in Nat /\ l.token # None
  BY EntryFacts, NoneAssumption DEF FencingInv
<1>2. given' = given /\ leases' = leases /\ now' = now
  BY DEF Write
<1>3. openBar' = openBar /\ takenBar' = takenBar
  BY <1>2 DEF openBar, holders, takenBar, Holder
<1>4. CASE Stale(r, l.token)
  BY <1>2, <1>3, <1>4, ShownStays DEF Write
<1>5. CASE ~Stale(r, l.token)
  <2>1. values' = [values EXCEPT ![r] = l.token]
    BY <1>5 DEF Write
  <2>2. OwnerOf(r, l.token)' = l.owner
    BY <1>2, OwnerFacts DEF OwnerOf
  <2>3. values'[r] = l.token /\ \A q \in Resource : q # r => values'[q] = values[q]
    BY <2>1, <1>1 DEF FencingInv, LockTypeOK
  <2>4. shownBar' = [shownBar EXCEPT ![r] = t]
    <3>1. shownBar'[r] = t
      BY <1>1, <2>2, <2>3 DEF shownBar, TurnOf
    <3>2. ASSUME NEW q \in Resource, q # r PROVE shownBar'[q] = shownBar[q]
      <4>1. values'[q] = values[q]
        BY <3>2, <2>3
      <4>2. TurnOf(q, values[q])' = TurnOf(q, values[q])
        BY <4>1, <1>2 DEF TurnOf, OwnerOf
      <4> QED BY <4>1, <4>2 DEF shownBar
    <3> QED BY <3>1, <3>2 DEF shownBar
  <2>5. t \in takenBar[r]
    BY <1>1 DEF takenBar
  <2>6. shownBar[r] = None \/ shownBar[r][1] <= t[1]
    <3>1. values[r] # None => values[r] \in Nat
      BY <1>1, EntryFacts DEF FencingInv
    <3> QED BY <1>1, <1>5, <3>1 DEF shownBar, TurnOf, Stale
  <2>7. Promise!Work(r, t)
    BY <1>3, <2>4, <2>5, <2>6 DEF Promise!Work, openBar, holders, takenBar, shownBar
  <2> QED BY <2>5, <2>7
<1> QED BY <1>4, <1>5

\* Every step of the lock and the store is a step of Turns or none.
LEMMA StepRefines == FencingInv /\ FencingInv' /\ [LockNext]_lockVars => [Promise!Next]_(Promise!vars)
<1> SUFFICES ASSUME FencingInv, FencingInv', [LockNext]_lockVars
             PROVE  Promise!Next \/ UNCHANGED <<openBar, takenBar, shownBar>>
  BY DEF Promise!vars, openBar, holders, takenBar, shownBar
<1>1. ASSUME NEW c \in Owner, NEW r \in Resource, Acquire(c, r) PROVE Promise!Next
  BY <1>1, AcquireOpens DEF Promise!Next
<1>2. ASSUME NEW l \in given, Renew(l) PROVE UNCHANGED <<openBar, takenBar, shownBar>>
  BY <1>2, RenewStutters
<1>3. ASSUME NEW l \in given, Release(l) PROVE Promise!Next
  <2>1. /\ leases' = [leases EXCEPT ![l.resource] = None]
        /\ now' = now /\ given' = given /\ values' = values
    BY <1>3 DEF Release
  <2>2. \A r \in Resource : holders'[r] # None => holders[r] # None /\ leases'[r] = leases[r]
    BY <2>1 DEF holders, Holder, FencingInv, LockTypeOK
  <2> QED BY <2>1, <2>2, LapseEnds DEF Promise!Next
<1>4. ASSUME NEW l \in given, Write(l)
      PROVE  Promise!Next \/ UNCHANGED <<openBar, takenBar, shownBar>>
  <2>1. l.resource \in Resource
    BY EntryFacts DEF FencingInv
  <2> QED BY <1>4, <2>1, WriteWorks DEF Promise!Next, takenBar
<1>5. ASSUME Tick PROVE Promise!Next
  <2>1. leases' = leases /\ now' = now + 1 /\ now \in Nat /\ given' = given /\ values' = values
    BY <1>5, LeaseAssumption DEF Tick, FencingInv, LockTypeOK
  <2>2. \A r \in Resource : holders'[r] # None => holders[r] # None /\ leases'[r] = leases[r]
    <3> SUFFICES ASSUME NEW r \in Resource, holders'[r] # None PROVE holders[r] # None
      BY <2>1
    <3>1. leases[r] # None /\ leases[r].expiresAt > now + 1
      BY <2>1 DEF holders, Holder
    <3>2. leases[r].expiresAt \in Int
      BY <3>1, EntryFacts DEF FencingInv
    <3> QED BY <3>1, <3>2, <2>1 DEF holders, Holder
  <2> QED BY <2>1, <2>2, LapseEnds DEF Promise!Next
<1>6. ASSUME UNCHANGED lockVars PROVE UNCHANGED <<openBar, takenBar, shownBar>>
  BY <1>6 DEF lockVars, openBar, takenBar, shownBar, holders, Holder, TurnOf, OwnerOf
<1> QED BY <1>1, <1>2, <1>3, <1>4, <1>5, <1>6 DEF LockNext

\* Leases, renewals, paused clients and the token check together implement
\* turns: at most one client holds a resource, and what the store shows is never
\* the work of a turn older than one that already wrote.
THEOREM Refinement == LockSpec => ImplementsTurns
<1>1. LockInit => Promise!Init
  BY DEF LockInit, Promise!Init, Holder
<1>2. QED BY <1>1, InitInv, StepInv, StepRefines, PTL DEF LockSpec, ImplementsTurns, Promise!Spec

------------------------------------------------------------------------------
(* MiniKafka: the inductive invariant *)

\* The times of a log's records never go back, and the clock is past them.
LogIsOrdered ==
    \A p \in Partition : \A i, j \in 0..(End(p) - 1) :
        i <= j => Record(p, i).time <= Record(p, j).time

\* r is sending to p; the record has landed with the first attempt.
Sending(r, p) == sending[r] # Idle /\ sending[r].partition = p
Landed(r, p) == Sending(r, p) /\ sending[r].left < Attempts

\* What r has sent to p is numbered in its order, and the broker's next number and
\* the producer's both count it.
Counted(r, p) ==
    /\ \A o \in Sent(r, p) : Record(p, o).sequence = Cardinality({e \in Sent(r, p) : e < o})
    /\ lastSeq[r][p] = Cardinality(Sent(r, p)) - 1
    /\ nextSeq[r][p] = Cardinality(Sent(r, p)) - (IF Landed(r, p) THEN 1 ELSE 0)
    /\ Sending(r, p) => sending[r].sequence = nextSeq[r][p]

NumbersCount == \A r \in Producer, p \in Partition : Counted(r, p)

Owns(m, p) == m \in members /\ p \in Range(Assigned(m))

\* The group's readers still have to be given o.
Owed(p, o) ==
    /\ o \in kept[p]
    /\ committed[p] # Absent \/ Reset = "earliest"
    /\ Continues(p, o) <= o

\* Polls of this generation have returned or lost o, or the one in progress has read it.
Got(p, o) == o \in delivered[p] \/ o \in lost[p] \/ (poll # Idle /\ <<p, o>> \in poll.read)

\* Positions are the owners', not behind the commits, past what was delivered, and
\* what is owed below them has been read.
PositionsAreRight ==
    \A m \in Member, p \in Partition :
        /\ positions[m][p] # Absent =>
              /\ Owns(m, p) /\ positions[m][p] >= committed[p]
              /\ \A o \in kept[p] : Owed(p, o) /\ o < positions[m][p] => Got(p, o)
        /\ Owns(m, p) => \A o \in delivered[p] : o < positions[m][p]

Polls(m) == poll # Idle /\ poll.member = m
PollsAt(m, p) == Polls(m) /\ poll.step # "locate" /\ Head(poll.todo) = p

\* The poll in progress is among its member's partitions; what it has read is new
\* and below the positions.
PollIsOwn ==
    \A m \in Member, p \in Partition : Polls(m) =>
        /\ p \in Range(poll.todo) => Owns(m, p)
        /\ \A o \in Nat : <<p, o>> \in poll.read =>
              Owns(m, p) /\ o < End(p) /\ o < positions[m][p] /\ o \notin delivered[p]

\* Where it is about to fetch: not behind the commit nor, unless that fetch must
\* fail, behind the member's position, and what is owed below has been read.
PollIsLocated ==
    \A m \in Member, p \in Partition : PollsAt(m, p) =>
        /\ poll.position \in 0..End(p) /\ poll.position >= committed[p]
        /\ poll.position >= positions[m][p] \/ poll.position < logStart[p]
        /\ poll.step = "fetch" => poll.position >= positions[m][p]
        /\ \A o \in kept[p] : Owed(p, o) /\ o < poll.position => Got(p, o)

LogTypes ==
    /\ appended \in [Partition -> Seq(LogRecord)]
    /\ kept \in [Partition -> SUBSET Nat]
    /\ logStart \in [Partition -> Nat]
    /\ lastSeq \in [Producer -> [Partition -> Nat \cup {Absent}]]
    /\ clock \in 0..MaxClock
    /\ nextSeq \in [Producer -> [Partition -> Nat]]
    /\ roundRobin \in [Producer -> Partition]
    /\ sending \in [Producer -> Send \cup {Idle}]
    /\ \A p \in Partition :
          /\ \A o \in 0..(End(p) - 1) : Record(p, o).time <= clock
          /\ kept[p] \subseteq 0..(End(p) - 1)
          /\ logStart[p] <= End(p)

GroupTypes ==
    /\ committed \in [Partition -> Int]
    /\ members \subseteq Member
    /\ generation \in 0..MaxGeneration
    /\ positions \in [Member -> [Partition -> Int]]
    /\ delivered \in [Partition -> SUBSET Nat]
    /\ lost \in [Partition -> SUBSET Nat]
    /\ \A p \in Partition :
          /\ committed[p] \in Offset(p)
          /\ \A m \in Member : positions[m][p] \in Offset(p)
          /\ delivered[p] \subseteq 0..(End(p) - 1)
    /\ poll \in Poll \cup {Idle}
    /\ poll # Idle =>
          /\ poll.member \in members /\ IsFiniteSet(poll.read)
          /\ poll.step # "locate" => poll.todo # <<>>

LogInv == LogTypes /\ OnlySupersededAreMissing /\ LogIsOrdered /\ NumbersCount
GroupInv == GroupTypes /\ PositionsAreRight /\ PollIsOwn /\ PollIsLocated

TopicInv == LogInv /\ GroupInv

------------------------------------------------------------------------------
(* MiniKafka: the assignment *)

LEMMA SortedFacts ==
    ASSUME members \subseteq Member, members # {}
    PROVE  /\ Sorted \in SUBSET Nat /\ IsFiniteSet(Sorted)
           /\ Cardinality(Sorted) \in Nat \ {0}
           /\ \A m \in members : Place(m) \in Sorted /\ Members[Place(m)] = m
           /\ \A j \in Sorted : Members[j] \in members /\ Place(Members[j]) = j
<1>1. DOMAIN Members = 1..Len(Members) /\ Len(Members) \in Nat
  BY TopicAssumption
<1>2. \A i, j \in DOMAIN Members : Members[i] = Members[j] => i = j
  BY TopicAssumption DEF IsInjective
<1>3. Sorted \in SUBSET (1..Len(Members)) /\ Sorted \in SUBSET Nat
  BY <1>1 DEF Sorted
<1>4. IsFiniteSet(Sorted)
  <2>1. IsFiniteSet(1..Len(Members))
    BY <1>1, FS_Interval
  <2> QED BY <1>3, <2>1, FS_Subset
<1>5. \A m \in members : Place(m) \in Sorted /\ Members[Place(m)] = m
  <2> SUFFICES ASSUME NEW m \in members PROVE Place(m) \in Sorted /\ Members[Place(m)] = m
    OBVIOUS
  <2>1. \E j \in DOMAIN Members : Members[j] = m
    BY DEF Member, Range
  <2>2. Place(m) \in DOMAIN Members /\ Members[Place(m)] = m
    BY <2>1 DEF Place
  <2> QED BY <2>2 DEF Sorted
<1>6. Cardinality(Sorted) \in Nat \ {0}
  <2>1. Sorted # {}
    BY <1>5
  <2> QED BY <1>4, <2>1, FS_CardinalityType, FS_EmptySet
<1>7. \A j \in Sorted : Members[j] \in members /\ Place(Members[j]) = j
  <2> SUFFICES ASSUME NEW j \in Sorted PROVE Members[j] \in members /\ Place(Members[j]) = j
    OBVIOUS
  <2>1. Members[j] \in members /\ j \in DOMAIN Members
    BY DEF Sorted
  <2>2. Place(Members[j]) \in DOMAIN Members /\ Members[Place(Members[j])] = Members[j]
    BY <1>5, <2>1 DEF Sorted
  <2> QED BY <1>2, <2>1, <2>2
<1> QED BY <1>3, <1>4, <1>5, <1>6, <1>7

\* The members are numbered from 0 on.
LEMMA IndexFacts ==
    ASSUME members \subseteq Member, members # {}
    PROVE  /\ \A m \in members : Index(m) \in 0..(Cardinality(Sorted) - 1)
           /\ \A m, n \in members : Index(m) = Index(n) => m = n
           /\ \A i \in 0..(Cardinality(Sorted) - 1) : \E m \in members : Index(m) = i
<1>1. \A m \in Member : Index(m) = Rank(Sorted, Place(m))
  BY DEF Index, Rank
<1>2. /\ \A j \in Sorted : Rank(Sorted, j) \in 0..(Cardinality(Sorted) - 1)
      /\ \A i, j \in Sorted : Rank(Sorted, i) = Rank(Sorted, j) => i = j
      /\ \A r \in 0..(Cardinality(Sorted) - 1) : \E j \in Sorted : Rank(Sorted, j) = r
  BY SortedFacts, Ranks
<1> HIDE DEF Sorted, Place, Rank
<1>3. \A m \in members : Index(m) \in 0..(Cardinality(Sorted) - 1)
  BY <1>1, <1>2, SortedFacts
<1>4. ASSUME NEW m \in members, NEW n \in members, Index(m) = Index(n) PROVE m = n
  <2>1. Place(m) \in Sorted /\ Place(n) \in Sorted /\ Rank(Sorted, Place(m)) = Rank(Sorted, Place(n))
    BY <1>1, <1>4, SortedFacts
  <2>2. Place(m) = Place(n)
    BY <1>2, <2>1
  <2> QED BY <2>2, SortedFacts
<1>5. ASSUME NEW i \in 0..(Cardinality(Sorted) - 1) PROVE \E m \in members : Index(m) = i
  <2>1. PICK j \in Sorted : Rank(Sorted, j) = i
    BY <1>2
  <2>2. Members[j] \in members /\ Place(Members[j]) = j
    BY SortedFacts
  <2>3. Index(Members[j]) = i
    BY <1>1, <2>1, <2>2
  <2> QED BY <2>2, <2>3
<1> QED BY <1>3, <1>4, <1>5

LEMMA Division ==
    ASSUME NEW n \in Nat, NEW k \in Nat \ {0}
    PROVE  /\ n \div k \in Nat /\ n % k \in 0..(k - 1)
           /\ n = k * (n \div k) + (n % k)
<1>1. n % k \in 0..(k - 1)
  OBVIOUS
<1>2. n = k * (n \div k) + (n % k)
  OBVIOUS
<1>3. n \div k \in Int /\ n \div k >= 0
  OBVIOUS
<1> QED BY <1>1, <1>2, <1>3

LEMMA ProductGrows ==
    ASSUME NEW i \in Nat, NEW j \in Nat, i <= j, NEW b \in Nat
    PROVE  i * b \in Nat /\ i * b <= j * b
<1>1. j * b = i * b + (j - i) * b
  OBVIOUS
<1>2. i * b \in Nat /\ (j - i) * b \in Nat
  OBVIOUS
<1> QED BY <1>1, <1>2

\* The bounds divide the partitions among the members.
LEMMA BoundFacts ==
    ASSUME members \subseteq Member, members # {}
    PROVE  /\ Bound(0) = 0 /\ Bound(Cardinality(Sorted)) = NumPartitions
           /\ \A i \in Nat : Bound(i) \in Nat
           /\ \A i, j \in Nat : i <= j => Bound(i) <= Bound(j)
           /\ \E b \in Nat : \A i \in Nat : Bound(i + 1) - Bound(i) \in {b, b + 1}
<1> DEFINE k == Cardinality(Sorted)
           b == NumPartitions \div k
           e == NumPartitions % k
<1>1. k \in Nat \ {0} /\ NumPartitions \in Nat
  BY SortedFacts, TopicAssumption
<1>2. b \in Nat /\ e \in 0..(k - 1) /\ NumPartitions = k * b + e
  BY <1>1, Division
<1>3. \A i : Bound(i) = i * b + (IF i < e THEN i ELSE e)
  BY DEF Bound
<1> HIDE DEF b, e
<1>4. Bound(0) = 0
  BY <1>2, <1>3
<1>5. Bound(k) = NumPartitions
  <2>1. ~(k < e)
    BY <1>1, <1>2
  <2> QED BY <1>2, <1>3, <2>1
<1>6. ASSUME NEW i \in Nat PROVE Bound(i) \in Nat
  <2>1. i * b \in Nat
    BY <1>2, ProductGrows
  <2>2. Bound(i) = i * b + (IF i < e THEN i ELSE e)
    BY <1>3
  <2> QED BY <1>2, <2>1, <2>2
<1>7. ASSUME NEW i \in Nat, NEW j \in Nat, i <= j PROVE Bound(i) <= Bound(j)
  <2>1. i * b \in Nat /\ j * b \in Nat /\ i * b <= j * b
    BY <1>2, <1>7, ProductGrows
  <2>2. Bound(i) = i * b + (IF i < e THEN i ELSE e) /\ Bound(j) = j * b + (IF j < e THEN j ELSE e)
    BY <1>3
  <2> QED BY <1>2, <1>7, <2>1, <2>2
<1>8. ASSUME NEW i \in Nat PROVE Bound(i + 1) - Bound(i) \in {b, b + 1}
  <2>1. (i + 1) * b = i * b + b /\ i * b \in Nat
    BY <1>2
  <2>2. /\ Bound(i) = i * b + (IF i < e THEN i ELSE e)
        /\ Bound(i + 1) = (i + 1) * b + (IF i + 1 < e THEN i + 1 ELSE e)
    BY <1>3
  <2> QED BY <1>2, <2>1, <2>2
<1> QED BY <1>2, <1>4, <1>5, <1>6, <1>7, <1>8

\* A member's partitions are those from its bound to the next.
LEMMA AssignedFacts ==
    ASSUME members \subseteq Member, NEW m \in members
    PROVE  /\ Assigned(m) \in Seq(Partition)
           /\ Index(m) \in Nat /\ Bound(Index(m)) \in Nat /\ Bound(Index(m) + 1) \in Nat
           /\ Len(Assigned(m)) = Bound(Index(m) + 1) - Bound(Index(m))
           /\ \A p \in Partition : p \in Range(Assigned(m)) <=>
                 Bound(Index(m)) <= p /\ p < Bound(Index(m) + 1)
<1> DEFINE i == Index(m)
           k == Cardinality(Sorted)
<1>1. k \in Nat \ {0} /\ i \in 0..(k - 1)
  BY SortedFacts, IndexFacts
<1>2. /\ Bound(i) \in Nat /\ Bound(i + 1) \in Nat /\ Bound(i) <= Bound(i + 1)
      /\ Bound(i + 1) <= NumPartitions
  <2> HIDE DEF i, k
  <2>1. i \in Nat /\ i + 1 \in Nat /\ i <= i + 1 /\ i + 1 <= k
    BY <1>1
  <2> QED BY <1>1, <2>1, BoundFacts DEF k
<1> DEFINE len == Bound(i + 1) - Bound(i)
<1>3. len \in Nat /\ Assigned(m) = [j \in 1..len |-> Bound(i) + j - 1]
  BY <1>2 DEF Assigned
<1> HIDE DEF i, k
<1>4. \A j \in 1..len : Bound(i) + j - 1 \in Partition
  BY <1>2, TopicAssumption DEF Partition
<1>5. Assigned(m) \in Seq(Partition) /\ Len(Assigned(m)) = len /\ DOMAIN Assigned(m) = 1..len
  <2> HIDE DEF len
  <2> QED BY <1>3, <1>4
<1>6. ASSUME NEW p \in Partition
      PROVE  p \in Range(Assigned(m)) <=> Bound(i) <= p /\ p < Bound(i + 1)
  <2>1. p \in Range(Assigned(m)) <=> \E j \in 1..len : p = Bound(i) + j - 1
    BY <1>3, <1>5 DEF Range
  <2>2. p \in Int
    BY DEF Partition
  <2>3. ASSUME Bound(i) <= p, p < Bound(i + 1) PROVE \E j \in 1..len : p = Bound(i) + j - 1
    <3>1. p - Bound(i) + 1 \in 1..len /\ p = Bound(i) + (p - Bound(i) + 1) - 1
      BY <1>2, <2>2, <2>3
    <3> QED BY <3>1
  <2>4. ASSUME NEW j \in 1..len, p = Bound(i) + j - 1 PROVE Bound(i) <= p /\ p < Bound(i + 1)
    BY <1>2, <2>2, <2>4
  <2> QED BY <2>1, <2>3, <2>4
<1> QED BY <1>1, <1>2, <1>5, <1>6 DEF i

\* No partition has two owners.
LEMMA OwnerIsAlone ==
    ASSUME members \subseteq Member, NEW p \in Partition, NEW m, NEW n, Owns(m, p), Owns(n, p)
    PROVE  m = n
<1>1. m \in members /\ n \in members
  BY DEF Owns
<1> DEFINE i == Index(m)
           j == Index(n)
<1>2. i \in Nat /\ j \in Nat
  BY <1>1, AssignedFacts
<1>3. /\ Bound(i) <= p /\ p < Bound(i + 1) /\ Bound(j) <= p /\ p < Bound(j + 1)
      /\ Bound(i) \in Nat /\ Bound(i + 1) \in Nat /\ Bound(j) \in Nat /\ Bound(j + 1) \in Nat
  BY <1>1, AssignedFacts DEF Owns
<1> HIDE DEF i, j
<1>4. /\ i + 1 <= j => Bound(i + 1) <= Bound(j)
      /\ j + 1 <= i => Bound(j + 1) <= Bound(i)
  <2>1. i + 1 \in Nat /\ j + 1 \in Nat
    BY <1>2
  <2> QED BY <1>1, <1>2, <2>1, BoundFacts
<1>5. i = j
  <2>1. p \in Int
    BY DEF Partition
  <2> QED BY <1>2, <1>3, <1>4, <2>1
<1> QED BY <1>1, <1>5, IndexFacts DEF i, j

LEMMA OneOwnerHolds ==
    ASSUME members \subseteq Member
    PROVE  OneOwner
<1> SUFFICES ASSUME members # {}
             PROVE  /\ \A p \in Partition : Cardinality({m \in members : p \in Range(Assigned(m))}) = 1
                    /\ \A m, n \in members : Len(Assigned(m)) <= Len(Assigned(n)) + 1
  BY DEF OneOwner
<1> DEFINE k == Cardinality(Sorted)
<1>1. k \in Nat \ {0}
  BY SortedFacts
<1>2. ASSUME NEW p \in Partition PROVE \E m \in members : Owns(m, p)
  <2> DEFINE S == {i \in 0..(k - 1) : Bound(i) <= p}
  <2>1. S \in SUBSET Nat /\ IsFiniteSet(S) /\ S # {}
    <3>1. IsFiniteSet(0..(k - 1))
      <4> HIDE DEF k
      <4> QED BY <1>1, FS_Interval
    <3>2. 0 \in S
      <4>1. Bound(0) = 0 /\ 0 <= p
        BY BoundFacts DEF Partition
      <4> HIDE DEF k
      <4> QED BY <1>1, <4>1
    <3>3. S \in SUBSET (0..(k - 1)) /\ S \in SUBSET Nat
      OBVIOUS
    <3> HIDE DEF S
    <3> QED BY <3>1, <3>2, <3>3, FS_Subset
  <2>2. Max(S) \in S /\ \A i \in S : Max(S) >= i
    <3> HIDE DEF S
    <3> QED BY <2>1, MaxFacts
  <2>3. PICK i \in 0..(k - 1) : Bound(i) <= p /\ \A j \in S : i >= j
    BY <2>2
  <2>4. i \in Nat /\ i + 1 \in Nat /\ Bound(i + 1) \in Nat /\ p \in 0..(NumPartitions - 1)
    <3>1. i \in Nat /\ i + 1 \in Nat
      BY <1>1
    <3> QED BY <3>1, BoundFacts DEF Partition
  <2>5. p < Bound(i + 1)
    <3>1. CASE i + 1 = k
      BY <2>4, <3>1, BoundFacts, TopicAssumption
    <3>2. CASE i + 1 # k
      <4>1. i + 1 \in 0..(k - 1) /\ ~(i >= i + 1)
        <5> HIDE DEF k
        <5> QED BY <1>1, <3>2
      <4>2. i + 1 \notin S
        BY <2>3, <4>1
      <4>3. ~(Bound(i + 1) <= p)
        BY <4>1, <4>2
      <4> QED BY <2>4, <4>3
    <3> QED BY <3>1, <3>2
  <2>6. PICK m \in members : Index(m) = i
    BY IndexFacts
  <2>7. p \in Range(Assigned(m))
    BY <2>3, <2>5, <2>6, AssignedFacts
  <2> QED BY <2>7 DEF Owns
<1>3. ASSUME NEW p \in Partition
      PROVE  Cardinality({m \in members : p \in Range(Assigned(m))}) = 1
  <2>1. PICK m \in members : Owns(m, p)
    BY <1>2
  <2>2. {n \in members : p \in Range(Assigned(n))} = {m}
    <3>1. \A n \in members : p \in Range(Assigned(n)) => n = m
      <4> SUFFICES ASSUME NEW n \in members, p \in Range(Assigned(n)) PROVE n = m
        OBVIOUS
      <4>1. Owns(n, p)
        BY DEF Owns
      <4> QED BY <2>1, <4>1, OwnerIsAlone
    <3> QED BY <2>1, <3>1 DEF Owns
  <2>3. Cardinality({m}) = 1
    BY FS_Singleton
  <2> QED BY <2>2, <2>3
<1>4. ASSUME NEW m \in members, NEW n \in members
      PROVE  Len(Assigned(m)) <= Len(Assigned(n)) + 1
  <2>1. PICK b \in Nat : \A i \in Nat : Bound(i + 1) - Bound(i) \in {b, b + 1}
    BY BoundFacts
  <2>2. Len(Assigned(m)) \in {b, b + 1} /\ Len(Assigned(n)) \in {b, b + 1}
    BY <2>1, AssignedFacts
  <2> QED BY <2>2
<1> QED BY <1>3, <1>4

------------------------------------------------------------------------------
(* MiniKafka: the log *)

logVars == <<appended, kept, logStart, lastSeq, clock, nextSeq, roundRobin, sending>>

LEMMA LogFacts ==
    ASSUME LogTypes, NEW p \in Partition
    PROVE  /\ End(p) \in Nat /\ appended[p] \in Seq(LogRecord)
           /\ \A o \in 0..(End(p) - 1) : Record(p, o) \in LogRecord
           /\ kept[p] \in SUBSET Nat /\ IsFiniteSet(kept[p])
           /\ \A o \in kept[p] : o \in 0..(End(p) - 1)
           /\ logStart[p] \in Nat
<1>1. appended[p] \in Seq(LogRecord) /\ kept[p] \in SUBSET Nat /\ logStart[p] \in Nat
      /\ kept[p] \subseteq 0..(End(p) - 1)
  BY DEF LogTypes
<1>2. End(p) \in Nat
  BY <1>1 DEF End
<1>3. \A o \in 0..(End(p) - 1) : Record(p, o) \in LogRecord
  BY <1>1 DEF End, Record
<1>4. IsFiniteSet(kept[p])
  <2>1. End(p) - 1 \in Int
    BY <1>2
  <2>2. IsFiniteSet(0..(End(p) - 1))
    BY <2>1, FS_Interval
  <2> QED BY <1>1, <2>2, FS_Subset
<1> QED BY <1>1, <1>2, <1>3, <1>4

LEMMA SentFacts ==
    ASSUME LogTypes, NEW r \in Producer, NEW p \in Partition
    PROVE  /\ Sent(r, p) \in SUBSET (0..(End(p) - 1)) /\ IsFiniteSet(Sent(r, p))
           /\ Cardinality(Sent(r, p)) \in Nat
<1>1. Sent(r, p) \in SUBSET (0..(End(p) - 1))
  BY DEF Sent
<1>2. IsFiniteSet(0..(End(p) - 1))
  <2>1. End(p) - 1 \in Int
    BY LogFacts
  <2> QED BY <2>1, FS_Interval
<1> QED BY <1>1, <1>2, FS_Subset, FS_CardinalityType

\* The invariant but for the numbers, when nothing happens to the records.
LEMMA RecordsStay ==
    ASSUME LogInv, UNCHANGED <<appended, kept, logStart, clock>>,
           lastSeq' \in [Producer -> [Partition -> Nat \cup {Absent}]],
           nextSeq' \in [Producer -> [Partition -> Nat]],
           roundRobin' \in [Producer -> Partition],
           sending' \in [Producer -> Send \cup {Idle}],
           NumbersCount'
    PROVE  LogInv'
<1>1. LogTypes'
  BY DEF LogInv, LogTypes, End, Record
<1>2. OnlySupersededAreMissing'
  BY DEF LogInv, OnlySupersededAreMissing, End, Record
<1>3. LogIsOrdered'
  BY DEF LogInv, LogIsOrdered, End, Record
<1> QED BY <1>1, <1>2, <1>3 DEF LogInv

LEMMA NumbersStay ==
    ASSUME LogInv, UNCHANGED <<appended, lastSeq, nextSeq, sending>>
    PROVE  NumbersCount'
<1> SUFFICES ASSUME NEW r \in Producer, NEW p \in Partition PROVE Counted(r, p)'
  BY DEF NumbersCount
<1>1. Counted(r, p)
  BY DEF LogInv, NumbersCount
<1>2. Sent(r, p)' = Sent(r, p)
  BY DEF Sent, End, Record
<1>3. (Sending(r, p)' <=> Sending(r, p)) /\ (Landed(r, p)' <=> Landed(r, p))
  BY DEF Landed, Sending
<1> QED BY <1>1, <1>2, <1>3 DEF Counted, Record

LEMMA LogStays ==
    ASSUME LogInv, UNCHANGED logVars
    PROVE  LogInv'
<1>1. UNCHANGED <<appended, kept, logStart, lastSeq, clock, nextSeq, roundRobin, sending>>
  BY DEF logVars
<1>2. NumbersCount'
  BY <1>1, NumbersStay
<1>3. /\ lastSeq' \in [Producer -> [Partition -> Nat \cup {Absent}]]
      /\ nextSeq' \in [Producer -> [Partition -> Nat]]
      /\ roundRobin' \in [Producer -> Partition]
      /\ sending' \in [Producer -> Send \cup {Idle}]
  BY <1>1 DEF LogInv, LogTypes
<1> QED BY <1>1, <1>2, <1>3, RecordsStay

LEMMA SendStartLog ==
    ASSUME LogInv, NEW r \in Producer, NEW key \in Key \cup {NoKey}, SendStart(r, key)
    PROVE  LogInv'
<1> DEFINE p == IF key = NoKey THEN roundRobin[r] ELSE PartitionOf[key]
           s == [partition |-> p, key |-> key, sequence |-> nextSeq[r][p], left |-> Attempts]
<1>1. p \in Partition
  BY TopicAssumption DEF LogInv, LogTypes
<1>2. /\ sending[r] = Idle /\ sending' = [sending EXCEPT ![r] = s]
      /\ roundRobin' = [roundRobin EXCEPT ![r] =
                           IF key = NoKey THEN (@ + 1) % NumPartitions ELSE @]
      /\ UNCHANGED <<appended, kept, logStart, lastSeq, clock, nextSeq>>
  BY DEF SendStart, brokerVars
<1> HIDE DEF p
<1>3. s \in Send /\ s # Idle
  BY <1>1, TopicAssumption, IdleAssumption DEF Send, LogInv, LogTypes
<1>4. sending' \in [Producer -> Send \cup {Idle}] /\ sending'[r] = s
      /\ \A q \in Producer : q # r => sending'[q] = sending[q]
  <2> HIDE DEF s
  <2> QED BY <1>2, <1>3 DEF LogInv, LogTypes
<1>5. roundRobin' \in [Producer -> Partition]
  <2>1. roundRobin \in [Producer -> Partition]
    BY DEF LogInv, LogTypes
  <2>2. (roundRobin[r] + 1) % NumPartitions \in Partition
    <3>1. roundRobin[r] + 1 \in Nat /\ NumPartitions \in Nat \ {0}
      BY <2>1, TopicAssumption DEF Partition
    <3> QED BY <3>1, Division DEF Partition
  <2> QED BY <1>2, <2>1, <2>2
<1>6. ASSUME NEW q \in Producer, NEW pp \in Partition PROVE Counted(q, pp)'
  <2>1. Counted(q, pp)
    BY DEF LogInv, NumbersCount
  <2>2. CASE q # r
    <3>1. Sent(q, pp)' = Sent(q, pp)
      BY <1>2 DEF Sent, End, Record
    <3>2. (Sending(q, pp)' <=> Sending(q, pp)) /\ (Landed(q, pp)' <=> Landed(q, pp))
      BY <1>4, <2>2 DEF Landed, Sending
    <3>3. sending'[q] = sending[q]
      BY <1>4, <2>2
    <3> QED BY <1>2, <2>1, <3>1, <3>2, <3>3 DEF Counted, Record
  <2>3. CASE q = r
    <3>1. ~Landed(q, pp) /\ ~(Landed(q, pp)')
      BY <1>2, <1>4, <2>3, TopicAssumption DEF Landed, Sending
    <3>2. Sending(q, pp)' => sending'[q].sequence = nextSeq[q][pp]
      BY <1>4, <2>3 DEF Sending
    <3>3. Sent(q, pp)' = Sent(q, pp)
      BY <1>2 DEF Sent, End, Record
    <3> QED BY <1>2, <2>1, <3>1, <3>2, <3>3 DEF Counted, Record
  <2> QED BY <2>2, <2>3
<1>7. NumbersCount'
  BY <1>6 DEF NumbersCount
<1>8. /\ lastSeq' \in [Producer -> [Partition -> Nat \cup {Absent}]]
      /\ nextSeq' \in [Producer -> [Partition -> Nat]]
  BY <1>2 DEF LogInv, LogTypes
<1> QED BY <1>2, <1>4, <1>5, <1>7, <1>8, RecordsStay

LEMMA SendDoneLog ==
    ASSUME LogInv, NEW r \in Producer, SendDone(r)
    PROVE  LogInv'
<1> DEFINE s == sending[r]
           p == s.partition
<1>1. /\ s # Idle /\ s.left = 0
      /\ nextSeq' = [nextSeq EXCEPT ![r][p] = s.sequence + 1]
      /\ sending' = [sending EXCEPT ![r] = Idle]
      /\ UNCHANGED <<appended, kept, logStart, lastSeq, clock, roundRobin>>
  BY DEF SendDone, brokerVars
<1>2. s \in Send /\ p \in Partition /\ s.sequence \in Nat /\ Attempts \in Nat \ {0}
  BY <1>1, TopicAssumption DEF LogInv, LogTypes, Send
<1>3. /\ sending' \in [Producer -> Send \cup {Idle}] /\ sending'[r] = Idle
      /\ \A q \in Producer : q # r => sending'[q] = sending[q]
  <2> HIDE DEF s
  <2> QED BY <1>1 DEF LogInv, LogTypes
<1>4. /\ nextSeq' \in [Producer -> [Partition -> Nat]] /\ nextSeq'[r][p] = s.sequence + 1
      /\ \A q \in Producer, pp \in Partition : q # r \/ pp # p => nextSeq'[q][pp] = nextSeq[q][pp]
  <2> HIDE DEF s, p
  <2>1. nextSeq \in [Producer -> [Partition -> Nat]] /\ s.sequence + 1 \in Nat
    BY <1>2 DEF LogInv, LogTypes
  <2> QED BY <1>1, <1>2, <2>1
<1>5. ASSUME NEW q \in Producer, NEW pp \in Partition PROVE Counted(q, pp)'
  <2>1. Counted(q, pp) /\ Sent(q, pp)' = Sent(q, pp)
    BY <1>1 DEF LogInv, NumbersCount, Sent, End, Record
  <2>2. CASE q # r
    BY <1>1, <1>3, <1>4, <2>1, <2>2 DEF Counted, Sending, Landed, Record
  <2>3. CASE q = r /\ pp # p
    <3>1. ~Landed(q, pp) /\ ~(Landed(q, pp)') /\ ~(Sending(q, pp)')
      BY <1>3, <2>3 DEF Landed, Sending
    <3> QED BY <1>1, <1>4, <2>1, <2>3, <3>1 DEF Counted, Record
  <2>4. CASE q = r /\ pp = p
    <3>1. Landed(q, pp) /\ ~(Landed(q, pp)') /\ ~(Sending(q, pp)')
      BY <1>1, <1>2, <1>3, <2>4 DEF Landed, Sending
    <3>2. s.sequence = Cardinality(Sent(q, pp)) - 1 /\ Cardinality(Sent(q, pp)) \in Nat
      BY <2>1, <2>4, <3>1, SentFacts DEF Counted, Landed, LogInv
    <3>3. nextSeq'[q][pp] = Cardinality(Sent(q, pp))
      BY <1>4, <2>4, <3>2
    <3> QED BY <1>1, <2>1, <3>1, <3>2, <3>3 DEF Counted, Record
  <2> QED BY <2>2, <2>3, <2>4
<1>6. NumbersCount'
  BY <1>5 DEF NumbersCount
<1>7. /\ lastSeq' \in [Producer -> [Partition -> Nat \cup {Absent}]]
      /\ roundRobin' \in [Producer -> Partition]
  BY <1>1 DEF LogInv, LogTypes
<1> QED BY <1>1, <1>3, <1>4, <1>6, <1>7, RecordsStay

\* The record rec gets the next offset of p, and nothing else changes in any log.
Extends(p, next, rec) ==
    /\ End(p) = next /\ End(p)' = next + 1 /\ Record(p, next)' = rec
    /\ \A o \in 0..(next - 1) : Record(p, o)' = Record(p, o)
    /\ \A q \in Partition : q # p => appended'[q] = appended[q]

LEMMA AppendExtends ==
    ASSUME LogTypes, NEW p \in Partition, NEW next \in Nat, End(p) = next,
           NEW rec \in LogRecord,
           appended' = [appended EXCEPT ![p] = Append(@, rec)]
    PROVE  appended' \in [Partition -> Seq(LogRecord)] /\ Extends(p, next, rec)
<1>1. appended \in [Partition -> Seq(LogRecord)] /\ appended[p] \in Seq(LogRecord)
  BY DEF LogTypes
<1>2. appended'[p] = Append(appended[p], rec) /\ \A q \in Partition : q # p => appended'[q] = appended[q]
  BY <1>1
<1>3. appended' \in [Partition -> Seq(LogRecord)]
  BY <1>1
<1>4. /\ Len(appended'[p]) = next + 1 /\ Len(appended[p]) = next
      /\ appended'[p][next + 1] = rec
      /\ \A i \in 1..next : appended'[p][i] = appended[p][i]
  BY <1>1, <1>2 DEF End
<1>5. \A o \in 0..(next - 1) : Record(p, o)' = Record(p, o)
  <2>1. \A o \in 0..(next - 1) : o + 1 \in 1..next
    OBVIOUS
  <2> QED BY <1>4, <2>1 DEF Record
<1> QED BY <1>2, <1>3, <1>4, <1>5 DEF Extends, End, Record

\* What a new record of r does to the offsets that are sent.
LEMMA SentExtends ==
    ASSUME LogTypes, NEW p \in Partition, NEW next \in Nat, NEW rec \in LogRecord,
           Extends(p, next, rec), NEW q \in Producer, NEW pp \in Partition
    PROVE  /\ pp = p /\ rec.producer = q => Sent(q, pp)' = Sent(q, pp) \cup {next}
           /\ pp # p \/ rec.producer # q => Sent(q, pp)' = Sent(q, pp)
           /\ \A o \in Sent(q, pp) : Record(pp, o)' = Record(pp, o)
<1>1. CASE pp # p
  <2>1. appended'[pp] = appended[pp]
    BY <1>1 DEF Extends
  <2> QED BY <1>1, <2>1 DEF Sent, End, Record
<1>2. CASE pp = p
  <2>1. /\ Sent(q, pp) = {o \in 0..(next - 1) : Record(p, o).producer = q}
        /\ Sent(q, pp)' = {o \in 0..next : Record(p, o)'.producer = q}
    BY <1>2 DEF Sent, Extends
  <2>2. \A o \in 0..(next - 1) : Record(p, o)' = Record(p, o)
    BY DEF Extends
  <2>3. Record(p, next)' = rec
    BY DEF Extends
  <2>4. 0..next = (0..(next - 1)) \cup {next} /\ next \notin 0..(next - 1)
    OBVIOUS
  <2>5. Sent(q, pp)' = {o \in 0..(next - 1) : Record(p, o).producer = q}
                       \cup (IF rec.producer = q THEN {next} ELSE {})
    BY <2>1, <2>2, <2>3, <2>4
  <2> QED BY <1>2, <2>1, <2>2, <2>5
<1> QED BY <1>1, <1>2

LEMMA AttemptLog ==
    ASSUME LogInv, NEW r \in Producer, Attempt(r)
    PROVE  LogInv'
<1> DEFINE s == sending[r]
<1>0. s \in Send /\ s # Idle
  BY DEF Attempt, LogInv, LogTypes
<1> PICK p \in Partition, rec \in LogRecord :
          /\ p = s.partition
          /\ rec = [key |-> s.key, time |-> clock, producer |-> r, sequence |-> s.sequence]
  <2>1. [key |-> s.key, time |-> clock, producer |-> r, sequence |-> s.sequence] \in LogRecord
    BY <1>0 DEF LogRecord, Send, LogInv, LogTypes
  <2> QED BY <1>0, <2>1 DEF Send
<1>1. /\ s # Idle /\ s.left > 0
      /\ sending' = [sending EXCEPT ![r].left = @ - 1]
      /\ \/ /\ IsRetry(r, s)
            /\ UNCHANGED <<appended, kept, lastSeq>>
         \/ /\ ~IsRetry(r, s)
            /\ appended' = [appended EXCEPT ![p] = Append(@, rec)]
            /\ kept' = [kept EXCEPT ![p] = @ \cup {End(p)}]
            /\ lastSeq' = [lastSeq EXCEPT ![r][p] = s.sequence]
      /\ UNCHANGED <<logStart, clock, nextSeq, roundRobin>>
  BY DEF Attempt
<1>2. /\ s \in Send /\ p \in Partition /\ s.sequence \in Nat /\ s.left \in 1..Attempts
      /\ Attempts \in Nat \ {0}
  BY <1>0, <1>1, TopicAssumption DEF Send
<1> DEFINE t == [s EXCEPT !.left = @ - 1]
<1>3. t \in Send /\ t # Idle /\ t.partition = p /\ t.sequence = s.sequence /\ t.left = s.left - 1
  <2>1. t \in Send /\ t.partition = p /\ t.sequence = s.sequence /\ t.left = s.left - 1
    <3>1. s \in Send /\ s.left - 1 \in 0..Attempts
      BY <1>2
    <3> HIDE DEF s
    <3> QED BY <3>1 DEF Send
  <2> QED BY <2>1, IdleAssumption
<1>4. /\ sending' \in [Producer -> Send \cup {Idle}] /\ sending'[r] = t
      /\ \A q \in Producer : q # r => sending'[q] = sending[q]
  <2>1. sending' = [sending EXCEPT ![r] = t]
    BY <1>1
  <2> HIDE DEF t
  <2> QED BY <1>3, <2>1 DEF LogInv, LogTypes
<1> HIDE DEF t
<1>5. /\ \A q \in Producer, pp \in Partition : q # r \/ pp # p =>
            (Sending(q, pp)' <=> Sending(q, pp)) /\ (Landed(q, pp)' <=> Landed(q, pp))
      /\ \A q \in Producer, pp \in Partition : q = r /\ pp = p =>
            /\ Sending(q, pp) /\ Sending(q, pp)' /\ Landed(q, pp)'
            /\ Landed(q, pp) <=> s.left < Attempts
  BY <1>1, <1>2, <1>3, <1>4 DEF Sending, Landed
<1>6. \A q \in Producer, pp \in Partition : Counted(q, pp)
  BY DEF LogInv, NumbersCount
<1>7. /\ nextSeq' \in [Producer -> [Partition -> Nat]]
      /\ roundRobin' \in [Producer -> Partition]
  BY <1>1 DEF LogInv, LogTypes
<1>8. ASSUME NEW q \in Producer, NEW pp \in Partition, Sending(q, pp)'
      PROVE  sending'[q].sequence = nextSeq'[q][pp]
  <2>1. CASE q = r
    <3>1. pp = p /\ sending'[q].sequence = s.sequence
      BY <1>3, <1>4, <1>8, <2>1 DEF Sending
    <3> QED BY <1>1, <1>5, <1>6, <2>1, <3>1 DEF Counted
  <2>2. CASE q # r
    <3>1. Sending(q, pp) /\ sending'[q] = sending[q]
      BY <1>4, <1>5, <1>8, <2>2
    <3> QED BY <1>1, <1>6, <3>1 DEF Counted
  <2> QED BY <2>1, <2>2
<1>9. Cardinality(Sent(r, p)) \in Nat
  BY <1>2, SentFacts DEF LogInv
<1>10. CASE IsRetry(r, s) /\ UNCHANGED <<appended, kept, lastSeq>>
  <2>1. s.sequence = Cardinality(Sent(r, p)) - 1
    BY <1>2, <1>6, <1>10 DEF IsRetry, Counted
  <2>2. Landed(r, p)
    BY <1>2, <1>5, <1>6, <1>9, <2>1 DEF Counted
  <2>3. ASSUME NEW q \in Producer, NEW pp \in Partition PROVE Counted(q, pp)'
    <3>1. Sent(q, pp)' = Sent(q, pp)
      BY <1>10 DEF Sent, End, Record
    <3>2. Landed(q, pp)' <=> Landed(q, pp)
      BY <1>5, <2>2
    <3> QED BY <1>1, <1>6, <1>8, <1>10, <3>1, <3>2 DEF Counted, Record
  <2>4. lastSeq' \in [Producer -> [Partition -> Nat \cup {Absent}]]
    BY <1>10 DEF LogInv, LogTypes
  <2> QED BY <1>1, <1>4, <1>7, <1>10, <2>3, <2>4, RecordsStay DEF NumbersCount
<1>11. ASSUME ~IsRetry(r, s), appended' = [appended EXCEPT ![p] = Append(@, rec)],
              kept' = [kept EXCEPT ![p] = @ \cup {End(p)}],
              lastSeq' = [lastSeq EXCEPT ![r][p] = s.sequence]
       PROVE  LogInv'
  <2>1. PICK next \in Nat : End(p) = next
    BY <1>2, LogFacts DEF LogInv
  <2>2. rec \in LogRecord /\ rec.producer = r /\ rec.sequence = s.sequence /\ rec.time = clock
    OBVIOUS
  <2>3. appended' \in [Partition -> Seq(LogRecord)] /\ Extends(p, next, rec)
    <3>1. LogTypes
      BY DEF LogInv
    <3> QED BY <1>11, <2>1, <3>1, AppendExtends
  <2> HIDE DEF s
  <2>4. s.sequence = Cardinality(Sent(r, p)) /\ ~Landed(r, p)
    <3>1. s.sequence # Cardinality(Sent(r, p)) - 1
      BY <1>2, <1>6, <1>11 DEF IsRetry, Counted, s
    <3> QED BY <1>2, <1>5, <1>6, <1>9, <3>1 DEF Counted, s
  <2>5. /\ lastSeq' \in [Producer -> [Partition -> Nat \cup {Absent}]]
        /\ lastSeq'[r][p] = s.sequence
        /\ \A q \in Producer, pp \in Partition : q # r \/ pp # p => lastSeq'[q][pp] = lastSeq[q][pp]
    <3>1. lastSeq \in [Producer -> [Partition -> Nat \cup {Absent}]]
      BY DEF LogInv, LogTypes
    <3> QED BY <1>2, <1>11, <3>1
  <2>6. /\ kept' \in [Partition -> SUBSET Nat] /\ kept'[p] = kept[p] \cup {next}
        /\ \A q \in Partition : q # p => kept'[q] = kept[q]
    BY <1>2, <1>11, <2>1 DEF LogInv, LogTypes
  <2>7. LogTypes /\ TRUE
    BY DEF LogInv
  <2>8. ASSUME NEW q \in Producer, NEW pp \in Partition PROVE Counted(q, pp)'
    <3>1. CASE q = r /\ pp = p
      <4>1. /\ Sent(r, p)' = Sent(r, p) \cup {next} /\ next \notin Sent(r, p)
            /\ \A o \in Sent(r, p) : o \in 0..(next - 1) /\ Record(p, o)' = Record(p, o)
        <5>1. Sent(r, p) \in SUBSET (0..(next - 1))
          BY <1>2, <2>1, <2>7, SentFacts
        <5>2. /\ Sent(r, p)' = Sent(r, p) \cup {next}
              /\ \A o \in Sent(r, p) : Record(p, o)' = Record(p, o)
          BY <1>2, <2>2, <2>3, <2>7, SentExtends
        <5> QED BY <5>1, <5>2
      <4>2. Cardinality(Sent(r, p))' = Cardinality(Sent(r, p)) + 1
        <5>1. Cardinality(Sent(r, p) \cup {next}) = Cardinality(Sent(r, p)) + 1
          BY <1>2, <2>7, <4>1, SentFacts, FS_AddElement
        <5> QED BY <4>1, <5>1
      <4>3. ASSUME NEW o \in Sent(r, p)'
            PROVE  Record(p, o)'.sequence = Cardinality({e \in Sent(r, p)' : e < o})
        <5>1. CASE o \in Sent(r, p)
          <6>1. {e \in Sent(r, p)' : e < o} = {e \in Sent(r, p) : e < o}
            BY <4>1, <5>1
          <6> QED BY <1>2, <1>6, <4>1, <5>1, <6>1 DEF Counted
        <5>2. CASE o = next
          <6>1. {e \in Sent(r, p)' : e < o} = Sent(r, p)
            BY <4>1, <5>2
          <6>2. Record(p, o)' = rec
            BY <2>3, <5>2 DEF Extends
          <6> QED BY <2>2, <2>4, <6>1, <6>2
        <5> QED BY <4>1, <5>1, <5>2
      <4>4. /\ lastSeq'[r][p] = Cardinality(Sent(r, p))' - 1
            /\ nextSeq'[r][p] = Cardinality(Sent(r, p))' - 1
        <5>1. lastSeq'[r][p] = Cardinality(Sent(r, p))
          BY <2>4, <2>5
        <5>2. nextSeq'[r][p] = Cardinality(Sent(r, p))
          BY <1>1, <1>2, <1>6, <1>9, <2>4 DEF Counted
        <5> QED BY <1>9, <4>2, <5>1, <5>2
      <4> QED BY <1>5, <1>8, <3>1, <4>3, <4>4 DEF Counted
    <3>2. CASE q # r \/ pp # p
      <4>1. /\ Sent(q, pp)' = Sent(q, pp)
            /\ \A o \in Sent(q, pp) : Record(pp, o)' = Record(pp, o)
        BY <1>2, <2>2, <2>3, <2>7, <3>2, SentExtends
      <4>2. Landed(q, pp)' <=> Landed(q, pp)
        BY <1>5, <3>2
      <4>3. lastSeq'[q][pp] = lastSeq[q][pp] /\ nextSeq'[q][pp] = nextSeq[q][pp]
        BY <1>1, <2>5, <3>2
      <4> QED BY <1>6, <1>8, <4>1, <4>2, <4>3 DEF Counted
    <3> QED BY <3>1, <3>2
  <2>9. LogTypes'
    <3>1. ASSUME NEW q \in Partition
          PROVE  /\ \A o \in 0..(End(q)' - 1) : Record(q, o)'.time <= clock'
                 /\ kept'[q] \subseteq 0..(End(q)' - 1)
                 /\ logStart'[q] <= End(q)'
      <4>1. /\ \A o \in 0..(End(q) - 1) : Record(q, o).time <= clock
            /\ kept[q] \subseteq 0..(End(q) - 1)
            /\ logStart[q] <= End(q) /\ logStart[q] \in Nat
            /\ clock \in Nat
        BY DEF LogInv, LogTypes
      <4>2. CASE q # p
        <5>1. appended'[q] = appended[q]
          BY <2>3, <4>2 DEF Extends
        <5> QED BY <1>1, <2>6, <4>1, <4>2, <5>1 DEF End, Record
      <4>3. CASE q = p
        <5>1. /\ End(q) = next /\ End(q)' = next + 1 /\ Record(q, next)' = rec
              /\ \A o \in 0..(next - 1) : Record(q, o)' = Record(q, o)
          BY <2>3, <4>3 DEF Extends, End, Record
        <5>2. ASSUME NEW o \in 0..(End(q)' - 1) PROVE Record(q, o)'.time <= clock'
          <6>1. o \in 0..(next - 1) \/ o = next
            BY <5>1
          <6> QED BY <1>1, <2>2, <4>1, <5>1, <6>1
        <5>3. kept'[q] \subseteq 0..(End(q)' - 1)
          BY <2>6, <4>1, <4>3, <5>1
        <5> QED BY <1>1, <4>1, <5>1, <5>2, <5>3
      <4> QED BY <4>2, <4>3
    <3>2. /\ logStart' \in [Partition -> Nat] /\ clock' \in 0..MaxClock
      BY <1>1 DEF LogInv, LogTypes
    <3> QED BY <1>4, <1>7, <2>3, <2>5, <2>6, <3>1, <3>2 DEF LogTypes
  <2>10. OnlySupersededAreMissing'
    <3> SUFFICES ASSUME NEW q \in Partition
                 PROVE  /\ \A o \in (logStart'[q]..(End(q)' - 1)) \ kept'[q] :
                              /\ Record(q, o)'.key # NoKey
                              /\ \E later \in (o + 1)..(End(q)' - 1) : Record(q, later)'.key = Record(q, o)'.key
                        /\ \A o \in kept'[q] : o >= logStart'[q]
      BY DEF OnlySupersededAreMissing
    <3>1. /\ \A o \in (logStart[q]..(End(q) - 1)) \ kept[q] :
                /\ Record(q, o).key # NoKey
                /\ \E later \in (o + 1)..(End(q) - 1) : Record(q, later).key = Record(q, o).key
          /\ \A o \in kept[q] : o >= logStart[q]
          /\ logStart[q] \in Nat /\ logStart[q] <= End(q)
      BY DEF LogInv, OnlySupersededAreMissing, LogTypes
    <3>2. CASE q # p
      <4>1. appended'[q] = appended[q] /\ kept'[q] = kept[q]
        BY <2>3, <2>6, <3>2 DEF Extends
      <4> QED BY <1>1, <3>1, <4>1 DEF End, Record
    <3>3. CASE q = p
      <4>1. /\ End(q) = next /\ End(q)' = next + 1 /\ kept'[q] = kept[q] \cup {next}
            /\ \A o \in 0..(next - 1) : Record(q, o)' = Record(q, o)
        BY <2>3, <2>6, <3>3 DEF Extends, End, Record
      <4>2. ASSUME NEW o \in (logStart'[q]..(End(q)' - 1)) \ kept'[q]
            PROVE  /\ Record(q, o)'.key # NoKey
                   /\ \E later \in (o + 1)..(End(q)' - 1) : Record(q, later)'.key = Record(q, o)'.key
        <5>1. o \in (logStart[q]..(End(q) - 1)) \ kept[q] /\ o \in 0..(next - 1)
          BY <1>1, <3>1, <4>1
        <5>2. PICK later \in (o + 1)..(End(q) - 1) : Record(q, later).key = Record(q, o).key
          BY <3>1, <5>1
        <5>3. later \in 0..(next - 1) /\ later \in (o + 1)..(End(q)' - 1)
          BY <4>1, <5>1
        <5> QED BY <3>1, <4>1, <5>1, <5>2, <5>3
      <4> QED BY <1>1, <3>1, <4>1, <4>2
    <3> QED BY <3>2, <3>3
  <2>11. LogIsOrdered'
    <3> SUFFICES ASSUME NEW q \in Partition, NEW i \in 0..(End(q)' - 1), NEW j \in 0..(End(q)' - 1), i <= j
                 PROVE  Record(q, i)'.time <= Record(q, j)'.time
      BY DEF LogIsOrdered
    <3>1. \A x, y \in 0..(End(q) - 1) : x <= y => Record(q, x).time <= Record(q, y).time
      BY DEF LogInv, LogIsOrdered
    <3>2. CASE q # p
      <4>1. appended'[q] = appended[q]
        BY <2>3, <3>2 DEF Extends
      <4> QED BY <3>1, <4>1 DEF End, Record
    <3>3. CASE q = p
      <4>1. /\ End(q) = next /\ End(q)' = next + 1 /\ Record(q, next)' = rec
            /\ \A o \in 0..(next - 1) : Record(q, o)' = Record(q, o)
        BY <2>3, <3>3 DEF Extends, End, Record
      <4>2. CASE j # next
        <5>1. i \in 0..(next - 1) /\ j \in 0..(next - 1)
          BY <4>1, <4>2
        <5> QED BY <3>1, <4>1, <5>1
      <4>3. CASE j = next
        <5>1. Record(q, j)'.time = clock /\ clock \in Nat
          BY <2>2, <4>1, <4>3 DEF LogInv, LogTypes
        <5>2. CASE i = next
          BY <2>2, <4>1, <5>1, <5>2
        <5>3. CASE i # next
          <6>1. i \in 0..(next - 1)
            BY <4>1, <5>3
          <6>2. Record(q, i).time <= clock
            BY <4>1, <6>1 DEF LogInv, LogTypes
          <6> QED BY <4>1, <5>1, <6>1, <6>2
        <5> QED BY <5>2, <5>3
      <4> QED BY <4>2, <4>3
    <3> QED BY <3>2, <3>3
  <2> QED BY <2>8, <2>9, <2>10, <2>11 DEF LogInv, NumbersCount
<1> QED BY <1>1, <1>10, <1>11

\* Records go, or time passes.
LEMMA LogShrinks ==
    ASSUME LogInv, UNCHANGED <<appended, lastSeq, nextSeq, roundRobin, sending>>,
           clock' \in 0..MaxClock, clock' >= clock,
           kept' \in [Partition -> SUBSET Nat], logStart' \in [Partition -> Nat],
           \A p \in Partition : kept'[p] \subseteq kept[p] /\ logStart'[p] <= End(p),
           OnlySupersededAreMissing'
    PROVE  LogInv'
<1>1. NumbersCount'
  BY NumbersStay
<1>2. LogIsOrdered'
  BY DEF LogInv, LogIsOrdered, End, Record
<1>3. LogTypes'
  <2>1. ASSUME NEW p \in Partition
        PROVE  /\ \A o \in 0..(End(p)' - 1) : Record(p, o)'.time <= clock'
               /\ kept'[p] \subseteq 0..(End(p)' - 1)
               /\ logStart'[p] <= End(p)'
    <3>1. End(p)' = End(p) /\ \A o : Record(p, o)' = Record(p, o)
      BY DEF End, Record
    <3>2. /\ \A o \in 0..(End(p) - 1) : Record(p, o).time <= clock
          /\ kept[p] \subseteq 0..(End(p) - 1) /\ clock \in Nat
      BY DEF LogInv, LogTypes
    <3>4. \A o \in 0..(End(p) - 1) : Record(p, o).time \in Nat
      <4>1. \A o \in 0..(End(p) - 1) : Record(p, o) \in LogRecord
        BY LogFacts DEF LogInv
      <4> QED BY <4>1 DEF LogRecord
    <3>3. \A o \in 0..(End(p) - 1) : Record(p, o).time <= clock'
      BY <3>2, <3>4
    <3> QED BY <3>1, <3>2, <3>3
  <2>2. /\ appended' \in [Partition -> Seq(LogRecord)]
        /\ lastSeq' \in [Producer -> [Partition -> Nat \cup {Absent}]]
        /\ nextSeq' \in [Producer -> [Partition -> Nat]]
        /\ roundRobin' \in [Producer -> Partition]
        /\ sending' \in [Producer -> Send \cup {Idle}]
    BY DEF LogInv, LogTypes
  <2> QED BY <2>1, <2>2 DEF LogTypes
<1> QED BY <1>1, <1>2, <1>3 DEF LogInv

LEMMA ClockTicksLog ==
    ASSUME LogInv, ClockTicks
    PROVE  LogInv'
<1>1. /\ clock < MaxClock /\ clock' = clock + 1
      /\ UNCHANGED <<appended, kept, logStart, lastSeq, nextSeq, roundRobin, sending>>
  BY DEF ClockTicks, producerVars
<1>2. clock \in 0..MaxClock /\ MaxClock \in Nat
  BY TopicAssumption DEF LogInv, LogTypes
<1>3. OnlySupersededAreMissing'
  BY <1>1 DEF LogInv, OnlySupersededAreMissing, End, Record
<1>4. /\ kept' \in [Partition -> SUBSET Nat] /\ logStart' \in [Partition -> Nat]
      /\ \A p \in Partition : kept'[p] \subseteq kept[p] /\ logStart'[p] <= End(p)
  BY <1>1 DEF LogInv, LogTypes
<1>5. clock' \in 0..MaxClock /\ clock' >= clock
  BY <1>1, <1>2
<1> QED BY <1>1, <1>3, <1>4, <1>5, LogShrinks

LEMMA CompactLog ==
    ASSUME LogInv, Compact
    PROVE  LogInv'
<1>1. /\ kept' = [p \in Partition |-> {o \in kept[p] : Survives(p, o)}]
      /\ UNCHANGED <<appended, logStart, lastSeq, clock, nextSeq, roundRobin, sending>>
  BY DEF Compact, producerVars
<1>2. /\ kept' \in [Partition -> SUBSET Nat] /\ logStart' \in [Partition -> Nat]
      /\ \A p \in Partition : kept'[p] \subseteq kept[p] /\ logStart'[p] <= End(p)
  BY <1>1 DEF LogInv, LogTypes
<1>3. OnlySupersededAreMissing'
  <2> SUFFICES ASSUME NEW p \in Partition
               PROVE  /\ \A o \in (logStart[p]..(End(p) - 1)) \ kept'[p] :
                            /\ Record(p, o).key # NoKey
                            /\ \E later \in (o + 1)..(End(p) - 1) : Record(p, later).key = Record(p, o).key
                      /\ \A o \in kept'[p] : o >= logStart[p]
    BY <1>1 DEF OnlySupersededAreMissing, End, Record
  <2>1. /\ \A o \in (logStart[p]..(End(p) - 1)) \ kept[p] :
              /\ Record(p, o).key # NoKey
              /\ \E later \in (o + 1)..(End(p) - 1) : Record(p, later).key = Record(p, o).key
        /\ \A o \in kept[p] : o >= logStart[p]
    BY DEF LogInv, OnlySupersededAreMissing
  <2>2. ASSUME NEW o \in (logStart[p]..(End(p) - 1)) \ kept'[p]
        PROVE  /\ Record(p, o).key # NoKey
               /\ \E later \in (o + 1)..(End(p) - 1) : Record(p, later).key = Record(p, o).key
    <3>1. CASE o \notin kept[p]
      BY <2>1, <3>1
    <3>2. CASE o \in kept[p]
      <4>1. ~Survives(p, o)
        BY <1>1, <3>2
      <4>2. Record(p, o).key # NoKey
        BY <4>1 DEF Survives
      <4>3. PICK later \in kept[p] : later > o /\ Record(p, later).key = Record(p, o).key
        BY <4>1 DEF Survives
      <4>4. later \in (o + 1)..(End(p) - 1)
        <5>1. later \in 0..(End(p) - 1) /\ End(p) \in Nat /\ o \in Int
          BY <4>3, LogFacts DEF LogInv
        <5> QED BY <4>3, <5>1
      <4> QED BY <4>2, <4>3, <4>4
    <3> QED BY <3>1, <3>2
  <2> QED BY <1>2, <2>1, <2>2
<1>4. clock' \in 0..MaxClock /\ clock' >= clock
  BY <1>1 DEF LogInv, LogTypes
<1> QED BY <1>1, <1>2, <1>3, <1>4, LogShrinks

\* Retention deletes from the start: what it leaves begins where the log does.
LEMMA ExpireStart ==
    ASSUME LogInv, Expire, NEW p \in Partition
    PROVE  /\ logStart'[p] \in Nat /\ logStart[p] <= logStart'[p] /\ logStart'[p] <= End(p)
           /\ \A o \in kept'[p] : o >= logStart'[p]
           /\ \A o \in kept[p] : o >= logStart'[p] => o \in kept'[p]
<1>1. /\ kept'[p] = {o \in kept[p] : Record(p, o).time >= clock - Retention}
      /\ logStart'[p] = IF kept'[p] = {} THEN End(p) ELSE Min(kept'[p])
  BY DEF Expire
<1>2. /\ End(p) \in Nat /\ kept[p] \in SUBSET Nat /\ IsFiniteSet(kept[p]) /\ logStart[p] \in Nat
      /\ \A o \in kept[p] : o \in 0..(End(p) - 1)
      /\ logStart[p] <= End(p)
      /\ \A o \in kept[p] : o >= logStart[p]
  BY LogFacts DEF LogInv, LogTypes, OnlySupersededAreMissing
<1>3. CASE kept'[p] = {}
  BY <1>1, <1>2, <1>3
<1>4. CASE kept'[p] # {}
  <2>1. kept'[p] \in SUBSET kept[p] /\ kept'[p] \in SUBSET Nat /\ IsFiniteSet(kept'[p])
    <3>1. kept'[p] \in SUBSET kept[p]
      BY <1>1
    <3> QED BY <1>2, <3>1, FS_Subset
  <2>2. logStart'[p] \in kept'[p] /\ \A o \in kept'[p] : logStart'[p] <= o
    <3>1. Min(kept'[p]) \in kept'[p] /\ \A o \in kept'[p] : Min(kept'[p]) <= o
      BY <1>4, <2>1, MinFacts
    <3> QED BY <1>1, <1>4, <3>1
  <2>3. logStart'[p] \in kept[p] /\ logStart'[p] \in Nat
    BY <2>1, <2>2
  <2>4. ASSUME NEW o \in kept[p], o >= logStart'[p] PROVE o \in kept'[p]
    <3>1. Record(p, logStart'[p]).time >= clock - Retention
      BY <1>1, <2>2
    <3>2. o \in 0..(End(p) - 1) /\ logStart'[p] \in 0..(End(p) - 1) /\ logStart'[p] <= o
      BY <1>2, <2>3, <2>4
    <3>3. Record(p, logStart'[p]).time <= Record(p, o).time
      BY <3>2 DEF LogInv, LogIsOrdered
    <3>4. Record(p, logStart'[p]).time \in Nat /\ Record(p, o).time \in Nat
      BY <3>2, LogFacts DEF LogInv, LogRecord
    <3>5. clock - Retention \in Int
      BY TopicAssumption DEF LogInv, LogTypes
    <3>6. Record(p, o).time >= clock - Retention
      BY <3>1, <3>3, <3>4, <3>5
    <3> QED BY <1>1, <3>6
  <2> QED BY <1>2, <2>2, <2>3, <2>4
<1> QED BY <1>3, <1>4

LEMMA ExpireLog ==
    ASSUME LogInv, Expire
    PROVE  LogInv'
<1>1. /\ kept' = [p \in Partition |-> {o \in kept[p] : Record(p, o).time >= clock - Retention}]
      /\ logStart' = [p \in Partition |-> IF kept'[p] = {} THEN End(p) ELSE Min(kept'[p])]
      /\ UNCHANGED <<appended, lastSeq, clock, nextSeq, roundRobin, sending>>
  BY DEF Expire, producerVars
<1>2. kept' \in [Partition -> SUBSET Nat] /\ \A p \in Partition : kept'[p] \subseteq kept[p]
  BY <1>1 DEF LogInv, LogTypes
<1>3. logStart' \in [Partition -> Nat] /\ \A p \in Partition : logStart'[p] <= End(p)
  <2>1. \A p \in Partition : logStart'[p] \in Nat /\ logStart'[p] <= End(p)
    BY ExpireStart
  <2>2. logStart' = [p \in Partition |-> logStart'[p]]
    BY <1>1
  <2> HIDE <1>1
  <2> QED BY <2>1, <2>2
<1>4. OnlySupersededAreMissing'
  <2> SUFFICES ASSUME NEW p \in Partition
               PROVE  /\ \A o \in (logStart'[p]..(End(p) - 1)) \ kept'[p] :
                            /\ Record(p, o).key # NoKey
                            /\ \E later \in (o + 1)..(End(p) - 1) : Record(p, later).key = Record(p, o).key
                      /\ \A o \in kept'[p] : o >= logStart'[p]
    <3>1. appended' = appended
      BY <1>1
    <3> QED BY <3>1 DEF OnlySupersededAreMissing, End, Record
  <2>1. \A o \in (logStart[p]..(End(p) - 1)) \ kept[p] :
              /\ Record(p, o).key # NoKey
              /\ \E later \in (o + 1)..(End(p) - 1) : Record(p, later).key = Record(p, o).key
    BY DEF LogInv, OnlySupersededAreMissing
  <2>2. ASSUME NEW o \in (logStart'[p]..(End(p) - 1)) \ kept'[p]
        PROVE  o \in (logStart[p]..(End(p) - 1)) \ kept[p]
    <3>1. /\ logStart'[p] \in Nat /\ logStart[p] <= logStart'[p]
          /\ o \in kept[p] /\ o >= logStart'[p] => o \in kept'[p]
      BY ExpireStart
    <3>2. logStart[p] \in Nat /\ End(p) \in Nat
      BY LogFacts DEF LogInv
    <3> QED BY <3>1, <3>2
  <2> QED BY <2>1, <2>2, ExpireStart
<1>5. clock' \in 0..MaxClock /\ clock' >= clock
  BY <1>1 DEF LogInv, LogTypes
<1> QED BY <1>1, <1>2, <1>3, <1>4, <1>5, LogShrinks

------------------------------------------------------------------------------
(* MiniKafka: the group *)

LEMMA OwnsStays ==
    ASSUME members' = members, NEW m, NEW p
    PROVE  Owns(m, p)' <=> Owns(m, p)
  BY DEF Owns, Assigned, Bound, Index, Sorted

LEMMA GroupFacts ==
    ASSUME GroupTypes, NEW m \in Member, NEW p \in Partition
    PROVE  /\ committed[p] \in Offset(p) /\ positions[m][p] \in Offset(p)
           /\ committed[p] \in Int /\ positions[m][p] \in Int
           /\ delivered[p] \in SUBSET Nat /\ delivered[p] \subseteq 0..(End(p) - 1)
  BY DEF GroupTypes

\* What the broker does between two calls of the group: logs get longer, no record
\* comes back, and the start does not go back.
LogMoves ==
    \A p \in Partition :
        /\ End(p)' >= End(p) /\ logStart'[p] >= logStart[p]
        /\ \A o \in kept'[p] : o \in kept[p] \/ o >= End(p)

groupView == <<committed, members, generation, positions, poll, delivered, lost>>

LEMMA GroupStays ==
    ASSUME LogInv, LogInv', GroupInv, LogMoves, UNCHANGED groupView
    PROVE  GroupInv'
<1>1. UNCHANGED <<committed, members, generation, positions, poll, delivered, lost>>
  BY DEF groupView
<1>2. \A p \in Partition :
         /\ End(p) \in Nat /\ End(p)' \in Nat /\ End(p)' >= End(p)
         /\ logStart[p] \in Nat /\ logStart'[p] \in Nat /\ logStart'[p] >= logStart[p]
         /\ \A o \in kept'[p] : o \in Nat /\ (o \in kept[p] \/ o >= End(p))
  <2>1. \A p \in Partition : End(p) \in Nat /\ logStart[p] \in Nat
    BY LogFacts DEF LogInv
  <2>2. \A p \in Partition : End(p)' \in Nat /\ logStart'[p] \in Nat /\ kept'[p] \in SUBSET Nat
    BY DEF LogInv, LogTypes, End
  <2> QED BY <2>1, <2>2 DEF LogMoves
<1>3. \A m \in Member, p \in Partition : Owns(m, p)' <=> Owns(m, p)
  BY <1>1, OwnsStays
<1>4. GroupTypes'
  <2>1. ASSUME NEW p \in Partition
        PROVE  /\ committed'[p] \in Offset(p)'
               /\ \A m \in Member : positions'[m][p] \in Offset(p)'
               /\ delivered'[p] \subseteq 0..(End(p)' - 1)
    <3>1. \A x \in Offset(p) : x \in Offset(p)'
      BY <1>2 DEF Offset, Absent
    <3>2. /\ committed[p] \in Offset(p) /\ \A m \in Member : positions[m][p] \in Offset(p)
          /\ delivered[p] \subseteq 0..(End(p) - 1)
      BY DEF GroupInv, GroupTypes
    <3>3. 0..(End(p) - 1) \subseteq 0..(End(p)' - 1)
      BY <1>2
    <3> QED BY <1>1, <3>1, <3>2, <3>3
  <2>2. /\ committed' \in [Partition -> Int] /\ members' \subseteq Member
        /\ generation' \in 0..MaxGeneration /\ positions' \in [Member -> [Partition -> Int]]
        /\ delivered' \in [Partition -> SUBSET Nat] /\ lost' \in [Partition -> SUBSET Nat]
        /\ poll' \in Poll \cup {Idle}
        /\ poll' # Idle => /\ poll'.member \in members' /\ IsFiniteSet(poll'.read)
                           /\ poll'.step # "locate" => poll'.todo # <<>>
    BY <1>1 DEF GroupInv, GroupTypes
  <2> QED BY <2>1, <2>2 DEF GroupTypes
<1>5. ASSUME NEW p \in Partition, NEW x \in Offset(p),
             \A o \in kept[p] : Owed(p, o) /\ o < x => Got(p, o)
      PROVE  \A o \in kept'[p] : Owed(p, o)' /\ o < x => Got(p, o)'
  <2> SUFFICES ASSUME NEW o \in kept'[p], Owed(p, o)', o < x PROVE Got(p, o)'
    OBVIOUS
  <2>1. o \in kept[p]
    <3>1. x <= End(p) /\ x \in Int
      BY <1>2 DEF Offset, Absent
    <3> QED BY <1>2, <3>1
  <2>2. Owed(p, o)
    BY <1>1, <2>1 DEF Owed, Continues
  <2>3. Got(p, o)
    BY <1>5, <2>1, <2>2
  <2> QED BY <1>1, <2>3 DEF Got
<1>6. PositionsAreRight'
  <2> SUFFICES ASSUME NEW m \in Member, NEW p \in Partition
               PROVE  /\ positions'[m][p] # Absent =>
                            /\ Owns(m, p)' /\ positions'[m][p] >= committed'[p]
                            /\ \A o \in kept'[p] : Owed(p, o)' /\ o < positions'[m][p] => Got(p, o)'
                      /\ Owns(m, p)' => \A o \in delivered'[p] : o < positions'[m][p]
    BY DEF PositionsAreRight
  <2>1. PICK x \in Offset(p) : x = positions[m][p]
    BY GroupFacts DEF GroupInv
  <2>2. /\ x # Absent =>
              /\ Owns(m, p) /\ x >= committed[p]
              /\ \A o \in kept[p] : Owed(p, o) /\ o < x => Got(p, o)
        /\ Owns(m, p) => \A o \in delivered[p] : o < x
    BY <2>1 DEF GroupInv, PositionsAreRight
  <2>3. positions'[m][p] = x
    BY <1>1, <2>1
  <2> QED BY <1>1, <1>3, <1>5, <2>2, <2>3
<1>7. PollIsOwn'
  <2> SUFFICES ASSUME NEW m \in Member, NEW p \in Partition, Polls(m)'
               PROVE  /\ p \in Range(poll'.todo) => Owns(m, p)'
                      /\ \A o \in Nat : <<p, o>> \in poll'.read =>
                            Owns(m, p)' /\ o < End(p)' /\ o < positions'[m][p] /\ o \notin delivered'[p]
    BY DEF PollIsOwn
  <2>1. Polls(m)
    BY <1>1 DEF Polls
  <2>2. /\ p \in Range(poll.todo) => Owns(m, p)
        /\ \A o \in Nat : <<p, o>> \in poll.read =>
              Owns(m, p) /\ o < End(p) /\ o < positions[m][p] /\ o \notin delivered[p]
    BY <2>1 DEF GroupInv, PollIsOwn
  <2>3. \A o \in Nat : o < End(p) => o < End(p)'
    BY <1>2
  <2> QED BY <1>1, <1>3, <2>2, <2>3
<1>8. PollIsLocated'
  <2> SUFFICES ASSUME NEW m \in Member, NEW p \in Partition, PollsAt(m, p)'
               PROVE  /\ poll'.position \in 0..End(p)' /\ poll'.position >= committed'[p]
                      /\ poll'.position >= positions'[m][p] \/ poll'.position < logStart'[p]
                      /\ poll'.step = "fetch" => poll'.position >= positions'[m][p]
                      /\ \A o \in kept'[p] : Owed(p, o)' /\ o < poll'.position => Got(p, o)'
    BY DEF PollIsLocated
  <2>1. PollsAt(m, p)
    BY <1>1 DEF PollsAt, Polls
  <2>2. /\ poll.position \in 0..End(p) /\ poll.position >= committed[p]
        /\ poll.position >= positions[m][p] \/ poll.position < logStart[p]
        /\ poll.step = "fetch" => poll.position >= positions[m][p]
        /\ \A o \in kept[p] : Owed(p, o) /\ o < poll.position => Got(p, o)
    BY <2>1 DEF GroupInv, PollIsLocated
  <2>3. PICK x \in 0..End(p) : x = poll.position
    BY <2>2
  <2>4. x \in Offset(p) /\ x \in 0..End(p)' /\ (x < logStart[p] => x < logStart'[p])
    BY <1>2 DEF Offset, Absent
  <2>5. \A o \in kept'[p] : Owed(p, o)' /\ o < x => Got(p, o)'
    BY <1>5, <2>2, <2>3, <2>4
  <2> QED BY <1>1, <2>2, <2>3, <2>4, <2>5
<1> QED BY <1>4, <1>6, <1>7, <1>8 DEF GroupInv

LEMMA EndStays ==
    ASSUME appended' = appended, NEW p
    PROVE  End(p)' = End(p) /\ Offset(p)' = Offset(p)
  BY DEF End, Offset

LEMMA OwedStays ==
    ASSUME UNCHANGED <<kept, committed>>, NEW p, NEW o
    PROVE  Owed(p, o)' <=> Owed(p, o)
  BY DEF Owed, Continues

LEMMA RebalanceGroup ==
    ASSUME LogInv, GroupInv, UNCHANGED logVars, Rebalance, members' \subseteq Member
    PROVE  GroupInv'
<1>1. /\ poll = Idle /\ poll' = Idle /\ generation < MaxGeneration /\ generation' = generation + 1
      /\ positions' = NoPositions /\ delivered' = [p \in Partition |-> {}]
      /\ lost' = [p \in Partition |-> {}]
      /\ UNCHANGED <<appended, kept, logStart, committed>>
  BY DEF Rebalance, logVars, brokerVars
<1>2. /\ positions' \in [Member -> [Partition -> Int]]
      /\ \A m \in Member, p \in Partition : positions'[m][p] = Absent
      /\ delivered' \in [Partition -> SUBSET Nat] /\ \A p \in Partition : delivered'[p] = {}
  BY <1>1 DEF NoPositions, Absent
<1>3. GroupTypes'
  <2>1. ASSUME NEW p \in Partition
        PROVE  /\ committed'[p] \in Offset(p)'
               /\ \A m \in Member : positions'[m][p] \in Offset(p)'
               /\ delivered'[p] \subseteq 0..(End(p)' - 1)
    <3>1. Offset(p)' = Offset(p)
      BY <1>1, EndStays
    <3>2. committed[p] \in Offset(p)
      BY DEF GroupInv, GroupTypes
    <3>3. Absent \in Offset(p)
      BY LogFacts DEF LogInv, Offset, Absent
    <3> QED BY <1>1, <1>2, <3>1, <3>2, <3>3
  <2>2. /\ committed' \in [Partition -> Int] /\ generation' \in 0..MaxGeneration
        /\ lost' \in [Partition -> SUBSET Nat] /\ poll' \in Poll \cup {Idle}
    BY <1>1, TopicAssumption DEF GroupInv, GroupTypes
  <2> QED BY <1>1, <1>2, <2>1, <2>2 DEF GroupTypes
<1>4. PositionsAreRight'
  BY <1>2 DEF PositionsAreRight
<1>5. PollIsOwn' /\ PollIsLocated'
  BY <1>1 DEF PollIsOwn, PollIsLocated, Polls, PollsAt
<1> QED BY <1>3, <1>4, <1>5 DEF GroupInv

LEMMA PollStartGroup ==
    ASSUME LogInv, GroupInv, UNCHANGED logVars, NEW m \in Member, PollStart(m)
    PROVE  GroupInv'
<1>1. /\ poll = Idle /\ m \in members /\ Assigned(m) # <<>>
      /\ poll' = [member |-> m, todo |-> Assigned(m), step |-> "locate", position |-> Absent,
                  read |-> {}]
      /\ UNCHANGED <<appended, kept, logStart, committed, members, generation, positions,
                     delivered, lost>>
  BY DEF PollStart, brokerVars, history
<1>2. /\ members \subseteq Member /\ Assigned(m) \in Seq(Partition)
  BY <1>1, AssignedFacts DEF GroupInv, GroupTypes
<1>3. poll' \in Poll /\ poll' # Idle /\ poll'.member = m /\ poll'.todo = Assigned(m)
      /\ poll'.step = "locate" /\ poll'.read = {}
  <2>1. poll' \in Poll
    BY <1>1, <1>2 DEF Poll, Absent
  <2> QED BY <1>1, <2>1, IdleAssumption
<1>4. \A n \in Member, p \in Partition : Owns(n, p)' <=> Owns(n, p)
  BY <1>1, OwnsStays
<1>5. GroupTypes'
  <2>1. \A p \in Partition : /\ committed'[p] \in Offset(p)'
                             /\ \A n \in Member : positions'[n][p] \in Offset(p)'
                             /\ delivered'[p] \subseteq 0..(End(p)' - 1)
    BY <1>1, EndStays DEF GroupInv, GroupTypes
  <2>2. /\ committed' \in [Partition -> Int] /\ members' \subseteq Member
        /\ generation' \in 0..MaxGeneration /\ positions' \in [Member -> [Partition -> Int]]
        /\ delivered' \in [Partition -> SUBSET Nat] /\ lost' \in [Partition -> SUBSET Nat]
    BY <1>1 DEF GroupInv, GroupTypes
  <2>3. poll'.member \in members' /\ IsFiniteSet(poll'.read)
    BY <1>1, <1>3, FS_EmptySet
  <2> QED BY <1>3, <2>1, <2>2, <2>3 DEF GroupTypes
<1>6. PositionsAreRight'
  <2>1. \A n \in Member, p \in Partition :
           \A o \in kept[p] : /\ Got(p, o) => Got(p, o)'
                              /\ Owed(p, o)' <=> Owed(p, o)
    BY <1>1, OwedStays DEF Got
  <2> QED BY <1>1, <1>4, <2>1 DEF GroupInv, PositionsAreRight
<1>7. PollIsOwn'
  <2> SUFFICES ASSUME NEW n \in Member, NEW p \in Partition, Polls(n)', p \in Range(poll'.todo)
               PROVE  Owns(n, p)'
    BY <1>3 DEF PollIsOwn
  <2>1. n = m
    BY <1>3 DEF Polls
  <2>2. Owns(n, p)
    BY <1>1, <1>3, <2>1 DEF Owns
  <2> QED BY <1>4, <2>2
<1>8. PollIsLocated'
  BY <1>3 DEF PollIsLocated, PollsAt
<1> QED BY <1>5, <1>6, <1>7, <1>8 DEF GroupInv

\* Where a reader without a position starts: in the log's range, not behind the
\* commit, and with nothing owed below.
LEMMA StartFacts ==
    ASSUME LogInv, GroupTypes, NEW p \in Partition
    PROVE  /\ StartOffset(p) \in 0..End(p) /\ StartOffset(p) >= committed[p]
           /\ \A o \in kept[p] : ~(Owed(p, o) /\ o < StartOffset(p))
<1>1. /\ committed[p] \in -1..End(p) /\ End(p) \in Nat
      /\ logStart[p] \in 0..End(p)
      /\ \A o \in kept[p] : o \in Nat /\ o >= logStart[p]
  <2>1. End(p) \in Nat /\ logStart[p] \in Nat /\ kept[p] \in SUBSET Nat
    BY LogFacts DEF LogInv
  <2>2. logStart[p] <= End(p) /\ \A o \in kept[p] : o >= logStart[p]
    BY DEF LogInv, LogTypes, OnlySupersededAreMissing
  <2>3. committed[p] \in -1..End(p)
    BY GroupFacts DEF Offset, Absent, GroupTypes
  <2> QED BY <2>1, <2>2, <2>3
<1>2. CASE committed[p] # Absent
  <2>1. StartOffset(p) = committed[p] /\ \A o : Owed(p, o) => committed[p] <= o
    BY <1>2 DEF StartOffset, Owed, Continues
  <2>2. committed[p] \in 0..End(p)
    BY <1>1, <1>2 DEF Absent
  <2> QED BY <1>1, <2>1, <2>2
<1>3. CASE committed[p] = Absent /\ Reset = "earliest"
  <2>1. StartOffset(p) = logStart[p]
    BY <1>3 DEF StartOffset
  <2> QED BY <1>1, <1>3, <2>1 DEF Absent
<1>4. CASE committed[p] = Absent /\ Reset # "earliest"
  <2>1. StartOffset(p) = End(p) /\ \A o : ~Owed(p, o)
    BY <1>4 DEF StartOffset, Owed
  <2> QED BY <1>1, <1>4, <2>1 DEF Absent
<1> QED BY <1>2, <1>3, <1>4

\* The poll at hand, of m and at p.
LEMMA PollFacts ==
    ASSUME GroupInv, poll # Idle
    PROVE  /\ poll \in Poll /\ poll.member \in members /\ poll.member \in Member
           /\ Polls(poll.member)
           /\ poll.todo # <<>> => Head(poll.todo) \in Partition /\ Head(poll.todo) \in Range(poll.todo)
           /\ \A e \in poll.read : e \in Partition \X Nat
<1>1. poll \in Poll /\ poll.member \in members /\ poll.member \in Member
  BY DEF GroupInv, GroupTypes
<1>2. poll.todo \in Seq(Partition) /\ \A e \in poll.read : e \in Partition \X Nat
  BY <1>1 DEF Poll
<1>3. ASSUME poll.todo # <<>> PROVE Head(poll.todo) \in Partition /\ Head(poll.todo) \in Range(poll.todo)
  <2>1. 1 \in DOMAIN poll.todo /\ Head(poll.todo) = poll.todo[1]
    BY <1>2, <1>3
  <2> QED BY <1>2, <2>1 DEF Range
<1> QED BY <1>1, <1>2, <1>3 DEF Polls

LEMMA LocatedGroup ==
    ASSUME LogInv, GroupInv, UNCHANGED logVars,
           UNCHANGED <<committed, members, generation, positions, delivered, lost>>,
           NEW m \in Member, NEW p \in Partition, Polls(m), poll.todo # <<>>, Head(poll.todo) = p,
           NEW step \in {"fetch", "refetch"}, NEW x \in 0..End(p),
           poll' = [poll EXCEPT !.step = step, !.position = x],
           x >= committed[p], x >= positions[m][p] \/ x < logStart[p],
           step = "fetch" => x >= positions[m][p],
           \A o \in kept[p] : Owed(p, o) /\ o < x => Got(p, o)
    PROVE  GroupInv'
<1>1. UNCHANGED <<appended, kept, logStart>>
  BY DEF logVars
<1>2. poll # Idle /\ poll \in Poll /\ poll.member = m
  BY PollFacts DEF Polls
<1>3. /\ poll' \in Poll /\ poll'.member = m /\ poll'.todo = poll.todo /\ poll'.read = poll.read
      /\ poll'.step = step /\ poll'.position = x
  <2>1. End(p) \in Nat
    BY LogFacts DEF LogInv
  <2>2. x \in Int
    BY <2>1
  <2> QED BY <1>2, <2>2 DEF Poll
<1>4. poll' # Idle
  BY <1>3, IdleAssumption
<1>5. \A n \in Member, q \in Partition : Owns(n, q)' <=> Owns(n, q)
  BY OwnsStays
<1>6. \A q \in Partition : End(q)' = End(q) /\ Offset(q)' = Offset(q)
  BY <1>1, EndStays
<1>7. \A q \in Partition : \A o : (Owed(q, o)' <=> Owed(q, o)) /\ (Got(q, o)' <=> Got(q, o))
  BY <1>1, <1>2, <1>3, <1>4, OwedStays DEF Got
<1>8. GroupTypes'
  <2>1. \A q \in Partition : /\ committed'[q] \in Offset(q)'
                             /\ \A n \in Member : positions'[n][q] \in Offset(q)'
                             /\ delivered'[q] \subseteq 0..(End(q)' - 1)
    BY <1>6 DEF GroupInv, GroupTypes
  <2>2. /\ committed' \in [Partition -> Int] /\ members' \subseteq Member
        /\ generation' \in 0..MaxGeneration /\ positions' \in [Member -> [Partition -> Int]]
        /\ delivered' \in [Partition -> SUBSET Nat] /\ lost' \in [Partition -> SUBSET Nat]
    BY DEF GroupInv, GroupTypes
  <2>3. poll'.member \in members' /\ IsFiniteSet(poll'.read) /\ poll'.todo # <<>>
    BY <1>2, <1>3 DEF GroupInv, GroupTypes
  <2> QED BY <1>3, <2>1, <2>2, <2>3 DEF GroupTypes
<1>9. PositionsAreRight'
  BY <1>1, <1>5, <1>7 DEF GroupInv, PositionsAreRight
<1>10. PollIsOwn'
  <2> SUFFICES ASSUME NEW n \in Member, NEW q \in Partition, Polls(n)'
               PROVE  /\ q \in Range(poll'.todo) => Owns(n, q)'
                      /\ \A o \in Nat : <<q, o>> \in poll'.read =>
                            Owns(n, q)' /\ o < End(q)' /\ o < positions'[n][q] /\ o \notin delivered'[q]
    BY DEF PollIsOwn
  <2>1. Polls(n)
    BY <1>2, <1>3 DEF Polls
  <2> QED BY <1>3, <1>5, <1>6, <2>1 DEF GroupInv, PollIsOwn
<1>11. PollIsLocated'
  <2> SUFFICES ASSUME NEW n \in Member, NEW q \in Partition, PollsAt(n, q)'
               PROVE  /\ poll'.position \in 0..End(q)' /\ poll'.position >= committed'[q]
                      /\ poll'.position >= positions'[n][q] \/ poll'.position < logStart'[q]
                      /\ poll'.step = "fetch" => poll'.position >= positions'[n][q]
                      /\ \A o \in kept'[q] : Owed(q, o)' /\ o < poll'.position => Got(q, o)'
    BY DEF PollIsLocated
  <2>1. n = m /\ q = p
    BY <1>3 DEF PollsAt, Polls
  <2> QED BY <1>1, <1>3, <1>6, <1>7, <2>1
<1> QED BY <1>8, <1>9, <1>10, <1>11 DEF GroupInv

LEMMA LocateGroup ==
    ASSUME LogInv, GroupInv, UNCHANGED logVars, Locate
    PROVE  GroupInv'
<1>1. /\ poll # Idle /\ poll.step = "locate" /\ poll.todo # <<>>
      /\ UNCHANGED <<committed, members, generation, positions, delivered, lost>>
  BY DEF Locate, brokerVars, history
<1> PICK m \in Member, p \in Partition : m = poll.member /\ p = Head(poll.todo) /\ Polls(m)
                                         /\ p \in Range(poll.todo)
  BY <1>1, PollFacts
<1> PICK x : x = IF positions[m][p] # Absent THEN positions[m][p] ELSE StartOffset(p)
  OBVIOUS
<1>2. poll' = [poll EXCEPT !.step = "fetch", !.position = x]
  BY DEF Locate
<1>3. /\ positions[m][p] \in -1..End(p) /\ End(p) \in Nat
      /\ positions[m][p] # Absent =>
            /\ positions[m][p] >= committed[p]
            /\ \A o \in kept[p] : Owed(p, o) /\ o < positions[m][p] => Got(p, o)
  BY GroupFacts, LogFacts DEF GroupInv, LogInv, PositionsAreRight, Offset, Absent
<1>4. /\ StartOffset(p) \in 0..End(p) /\ StartOffset(p) >= committed[p]
      /\ \A o \in kept[p] : ~(Owed(p, o) /\ o < StartOffset(p))
  BY StartFacts DEF GroupInv
<1>5. /\ x \in 0..End(p) /\ x >= committed[p] /\ x >= positions[m][p]
      /\ \A o \in kept[p] : Owed(p, o) /\ o < x => Got(p, o)
  <2>1. CASE positions[m][p] # Absent
    BY <1>3, <2>1 DEF Absent
  <2>2. CASE positions[m][p] = Absent
    BY <1>3, <1>4, <2>2 DEF Absent
  <2> QED BY <2>1, <2>2
<1> QED BY <1>1, <1>2, <1>5, LocatedGroup

LEMMA FetchBelowStartGroup ==
    ASSUME LogInv, GroupInv, UNCHANGED logVars, FetchBelowStart
    PROVE  GroupInv'
<1>1. /\ poll # Idle /\ poll.step = "fetch" /\ poll.todo # <<>>
      /\ UNCHANGED <<committed, members, generation, positions, delivered, lost>>
  BY DEF FetchBelowStart, brokerVars, history, GroupInv, GroupTypes
<1> PICK m \in Member, p \in Partition : m = poll.member /\ p = Head(poll.todo) /\ Polls(m)
  BY <1>1, PollFacts
<1> PICK x : x = StartOffset(p)
  OBVIOUS
<1>2. poll' = [poll EXCEPT !.step = "refetch", !.position = x] /\ poll.position < logStart[p]
  BY DEF FetchBelowStart
<1>3. /\ x \in 0..End(p) /\ x >= committed[p]
      /\ \A o \in kept[p] : ~(Owed(p, o) /\ o < x)
  BY StartFacts DEF GroupInv
<1>4. /\ poll.position \in 0..End(p) /\ poll.position >= committed[p]
      /\ poll.position >= positions[m][p]
  <2>1. PollsAt(m, p)
    BY <1>1 DEF PollsAt
  <2> QED BY <1>1, <2>1 DEF GroupInv, PollIsLocated
<1>5. /\ positions[m][p] \in Int /\ committed[p] \in Int /\ logStart[p] \in Nat /\ End(p) \in Nat
      /\ positions[m][p] <= End(p)
  BY GroupFacts, LogFacts DEF GroupInv, LogInv, Offset, Absent
<1>6. x >= positions[m][p] \/ x < logStart[p]
  <2>1. CASE committed[p] # Absent
    BY <1>2, <1>3, <1>4, <1>5, <2>1 DEF StartOffset
  <2>2. CASE committed[p] = Absent /\ Reset = "earliest"
    BY <1>2, <1>4, <1>5, <2>2 DEF StartOffset
  <2>3. CASE committed[p] = Absent /\ Reset # "earliest"
    BY <1>5, <2>3 DEF StartOffset
  <2> QED BY <2>1, <2>2, <2>3
<1> QED BY <1>1, <1>2, <1>3, <1>6, LocatedGroup

\* What a fetch returns: records from the offset on and before the next position,
\* and all that are there.
Fetches(F, p, offset, next) ==
    /\ F \subseteq kept[p] /\ IsFiniteSet(F)
    /\ next \in offset..End(p)
    /\ \A o \in F : offset <= o /\ o < next
    /\ \A o \in kept[p] : offset <= o /\ o < next => o \in F

LEMMA FetchFacts ==
    ASSUME LogInv, NEW p \in Partition, NEW offset \in 0..End(p), NEW limit \in Int
    PROVE  Fetches(Fetched(p, offset, limit), p, offset, After(offset, Fetched(p, offset, limit)))
<1> DEFINE F == Fetched(p, offset, limit)
           Before(o) == {e \in kept[p] : offset <= e /\ e < o}
           next == After(offset, F)
<1>1. /\ End(p) \in Nat /\ kept[p] \in SUBSET Nat /\ IsFiniteSet(kept[p])
      /\ \A o \in kept[p] : o \in 0..(End(p) - 1)
  BY LogFacts DEF LogInv
<1>2. offset \in Nat /\ offset <= End(p)
  BY <1>1
<1>3. F = {o \in kept[p] : o >= offset /\ Cardinality(Before(o)) < limit}
  BY DEF Fetched
<1>4. F \in SUBSET kept[p] /\ F \in SUBSET Nat /\ IsFiniteSet(F)
  <2>1. F \in SUBSET kept[p]
    BY <1>3
  <2> HIDE DEF F
  <2> QED BY <1>1, <2>1, FS_Subset
<1>5. CASE F = {}
  <2>1. next = offset
    BY <1>5 DEF After
  <2>2. \A o \in kept[p] : ~(offset <= o /\ o < offset)
    BY <1>1, <1>2
  <2> HIDE DEF F, next
  <2>3. next \in offset..End(p)
    BY <1>1, <1>2, <2>1
  <2> QED BY <1>4, <1>5, <2>1, <2>2, <2>3 DEF Fetches, F, next
<1>6. CASE F # {}
  <2>1. PICK last \in F : next = last + 1 /\ \A o \in F : last >= o
    <3>1. Max(F) \in F /\ \A o \in F : Max(F) >= o
      <4> HIDE DEF F
      <4> QED BY <1>4, <1>6, MaxFacts
    <3> QED BY <1>6, <3>1 DEF After
  <2>2. /\ last \in kept[p] /\ last \in Nat /\ last >= offset /\ last <= End(p) - 1
        /\ Cardinality(Before(last)) < limit
    BY <1>1, <1>3, <2>1
  <2>3. next \in offset..End(p)
    <3> HIDE DEF F, next
    <3> QED BY <1>1, <1>2, <2>1, <2>2
  <2>4. \A o \in F : offset <= o /\ o < next
    <3>1. \A o \in F : o \in Nat /\ o >= offset
      BY <1>3, <1>4
    <3> HIDE DEF F, next
    <3> QED BY <1>2, <2>1, <2>2, <3>1
  <2>5. ASSUME NEW o \in kept[p], offset <= o, o < next PROVE o \in F
    <3>1. o \in Nat /\ o <= last
      <4> HIDE DEF F, next
      <4> QED BY <1>1, <2>1, <2>2, <2>5
    <3>2. Before(o) \in SUBSET Before(last) /\ Before(last) \in SUBSET kept[p]
      BY <1>1, <2>2, <3>1
    <3>3. Cardinality(Before(o)) <= Cardinality(Before(last)) /\ Cardinality(Before(o)) \in Nat
          /\ Cardinality(Before(last)) \in Nat
      <4> HIDE DEF Before
      <4>1. IsFiniteSet(Before(last)) /\ IsFiniteSet(Before(o))
        BY <1>1, <3>2, FS_Subset
      <4> QED BY <3>2, <4>1, FS_Subset, FS_CardinalityType
    <3>4. Cardinality(Before(o)) < limit
      <4> HIDE DEF Before
      <4> QED BY <2>2, <3>3
    <3>5. o >= offset
      BY <1>2, <2>5, <3>1
    <3> HIDE DEF Before
    <3> QED BY <1>3, <3>4, <3>5
  <2> HIDE DEF F, next
  <2> QED BY <1>4, <2>3, <2>4, <2>5 DEF Fetches, F, next
<1> QED BY <1>5, <1>6

LEMMA FetchGroup ==
    ASSUME LogInv, GroupInv, UNCHANGED logVars, Fetch
    PROVE  GroupInv'
<1>1. /\ poll # Idle /\ poll.step # "locate" /\ poll.todo # <<>>
      /\ UNCHANGED <<appended, kept, logStart, committed, members, generation, delivered, lost>>
  BY DEF Fetch, brokerVars, logVars, history, GroupInv, GroupTypes
<1> PICK m \in Member, p \in Partition : /\ m = poll.member /\ p = Head(poll.todo) /\ Polls(m)
                                         /\ p \in Range(poll.todo)
  BY <1>1, PollFacts
<1>2. poll \in Poll /\ IsFiniteSet(poll.read) /\ m \in members
  BY <1>1, PollFacts DEF GroupInv, GroupTypes
<1>3. PollsAt(m, p)
  BY <1>1 DEF PollsAt
<1>4. /\ poll.position \in 0..End(p) /\ poll.position >= committed[p]
      /\ poll.position >= positions[m][p] \/ poll.position < logStart[p]
      /\ \A o \in kept[p] : Owed(p, o) /\ o < poll.position => Got(p, o)
  BY <1>3 DEF GroupInv, PollIsLocated
<1>5. Owns(m, p)
  BY DEF GroupInv, PollIsOwn
<1> PICK offset \in 0..End(p) : offset = poll.position
  BY <1>4
<1> PICK limit \in Int : limit = MaxPoll - Cardinality(poll.read)
  <2>1. MaxPoll - Cardinality(poll.read) \in Int
    BY <1>2, FS_CardinalityType, TopicAssumption
  <2> QED BY <2>1
<1> PICK F : F = Fetched(p, offset, limit)
  OBVIOUS
<1> PICK next : next = After(offset, F)
  OBVIOUS
<1>6. /\ offset >= logStart[p]
      /\ positions' = [positions EXCEPT ![m][p] = next]
      /\ poll' = [poll EXCEPT !.step = "locate", !.todo = Tail(@), !.position = Absent,
                     !.read = @ \cup {<<p, o>> : o \in F}]
  BY DEF Fetch
<1>7. Fetches(F, p, offset, next)
  BY FetchFacts
<1>8. /\ End(p) \in Nat /\ logStart[p] \in Nat /\ kept[p] \in SUBSET Nat
      /\ committed[p] \in Int /\ positions[m][p] \in Int
      /\ \A o \in kept[p] : o \in 0..(End(p) - 1)
  BY LogFacts, GroupFacts DEF LogInv, GroupInv
<1>9. /\ offset \in Nat /\ next \in Nat /\ offset <= next /\ next <= End(p)
      /\ offset >= positions[m][p] /\ F \in SUBSET kept[p]
      /\ \A o \in F : o \in Nat /\ offset <= o /\ o < next
      /\ \A o \in kept[p] : offset <= o /\ o < next => o \in F
  BY <1>4, <1>6, <1>7, <1>8 DEF Fetches
<1> DEFINE new == {<<p, o>> : o \in F}
<1>10. new \in SUBSET (Partition \X Nat) /\ IsFiniteSet(new)
       /\ \A q \in Partition : \A o : <<q, o>> \in new <=> q = p /\ o \in F
  <2>1. new = {p} \X F
    OBVIOUS
  <2>2. IsFiniteSet({p}) /\ IsFiniteSet(F)
    BY <1>7, FS_Singleton DEF Fetches
  <2>3. IsFiniteSet({p} \X F)
    BY <2>2, FS_Product
  <2> QED BY <1>9, <2>1, <2>3
<1> HIDE DEF new
<1>11. /\ poll' \in Poll /\ poll'.member = m /\ poll'.step = "locate"
       /\ poll'.todo = Tail(poll.todo) /\ poll'.read = poll.read \cup new
  <2>1. Tail(poll.todo) \in Seq(Partition)
    BY <1>1, <1>2 DEF Poll
  <2>2. poll' = [poll EXCEPT !.step = "locate", !.todo = Tail(@), !.position = Absent,
                    !.read = @ \cup new]
    BY <1>6 DEF new
  <2>3. poll.read \cup new \in SUBSET (Partition \X Nat)
    BY <1>2, <1>10 DEF Poll
  <2>4. -1 \in Int
    OBVIOUS
  <2> QED BY <1>2, <2>1, <2>2, <2>3, <2>4 DEF Poll, Absent
<1>12. poll' # Idle
  BY <1>11, IdleAssumption
<1>13. /\ positions' \in [Member -> [Partition -> Int]] /\ positions'[m][p] = next
       /\ \A n \in Member, q \in Partition : n # m \/ q # p => positions'[n][q] = positions[n][q]
  <2>1. positions \in [Member -> [Partition -> Int]] /\ next \in Int
    BY <1>9 DEF GroupInv, GroupTypes
  <2> QED BY <1>6, <2>1
<1>14. \A n \in Member, q \in Partition : Owns(n, q)' <=> Owns(n, q)
  BY <1>1, OwnsStays
<1>15. \A q \in Partition : End(q)' = End(q) /\ Offset(q)' = Offset(q)
  BY <1>1, EndStays
<1>16. \A q \in Partition : \A o : /\ Owed(q, o)' <=> Owed(q, o)
                                   /\ Got(q, o) => Got(q, o)'
                                   /\ q = p /\ o \in F => Got(q, o)'
  BY <1>1, <1>10, <1>11, <1>12, OwedStays DEF Got
<1>17. GroupTypes'
  <2>1. ASSUME NEW q \in Partition
        PROVE  /\ committed'[q] \in Offset(q)'
               /\ \A n \in Member : positions'[n][q] \in Offset(q)'
               /\ delivered'[q] \subseteq 0..(End(q)' - 1)
    <3>1. \A n \in Member : positions'[n][q] \in Offset(q)'
      <4> SUFFICES ASSUME NEW n \in Member PROVE positions'[n][q] \in Offset(q)
        BY <1>15
      <4>1. CASE n = m /\ q = p
        BY <1>8, <1>9, <1>13, <4>1 DEF Offset, Absent
      <4>2. CASE n # m \/ q # p
        BY <1>13, <4>2 DEF GroupInv, GroupTypes
      <4> QED BY <4>1, <4>2
    <3>2. committed'[q] \in Offset(q)' /\ delivered'[q] \subseteq 0..(End(q)' - 1)
      BY <1>1, <1>15 DEF GroupInv, GroupTypes
    <3> QED BY <3>1, <3>2
  <2>2. /\ committed' \in [Partition -> Int] /\ members' \subseteq Member
        /\ generation' \in 0..MaxGeneration
        /\ delivered' \in [Partition -> SUBSET Nat] /\ lost' \in [Partition -> SUBSET Nat]
    BY <1>1 DEF GroupInv, GroupTypes
  <2>3. poll'.member \in members' /\ IsFiniteSet(poll'.read)
    <3>1. IsFiniteSet(poll.read \cup new)
      BY <1>2, <1>10, FS_Union
    <3> QED BY <1>1, <1>2, <1>11, <3>1
  <2> QED BY <1>11, <1>13, <2>1, <2>2, <2>3 DEF GroupTypes
<1>18. PositionsAreRight'
  <2> SUFFICES ASSUME NEW n \in Member, NEW q \in Partition
               PROVE  /\ positions'[n][q] # Absent =>
                            /\ Owns(n, q)' /\ positions'[n][q] >= committed'[q]
                            /\ \A o \in kept'[q] : Owed(q, o)' /\ o < positions'[n][q] => Got(q, o)'
                      /\ Owns(n, q)' => \A o \in delivered'[q] : o < positions'[n][q]
    BY DEF PositionsAreRight
  <2>1. /\ positions[n][q] # Absent =>
              /\ Owns(n, q) /\ positions[n][q] >= committed[q]
              /\ \A o \in kept[q] : Owed(q, o) /\ o < positions[n][q] => Got(q, o)
        /\ Owns(n, q) => \A o \in delivered[q] : o < positions[n][q]
    BY DEF GroupInv, PositionsAreRight
  <2>2. CASE n = m /\ q = p
    <3>1. Owns(n, q)' /\ next >= committed[q]
      BY <1>4, <1>5, <1>8, <1>9, <1>14, <2>2
    <3>3. \A o \in delivered[q] : o < next
      <4>1. \A o \in delivered[q] : o \in Nat /\ o < positions[m][p]
        BY <1>5, <2>1, <2>2, GroupFacts DEF GroupInv
      <4> QED BY <1>8, <1>9, <4>1
    <3>4. positions'[n][q] = next
      BY <1>13, <2>2
    <3>5. \A o \in kept'[q] : Owed(q, o)' /\ o < next => Got(q, o)'
      <4> SUFFICES ASSUME NEW o \in kept[p], Owed(q, o)', o < next PROVE Got(q, o)'
        BY <1>1, <2>2
      <4>1. Owed(q, o)
        BY <1>16
      <4>2. o \in F \/ Got(q, o)
        <5>1. CASE o < offset
          BY <1>4, <2>2, <4>1, <5>1
        <5>2. CASE ~(o < offset)
          <6>1. o \in Nat
            BY <1>8
          <6> QED BY <1>9, <5>2, <6>1
        <5> QED BY <5>1, <5>2
      <4> QED BY <1>16, <2>2, <4>2
    <3> QED BY <1>1, <3>1, <3>3, <3>4, <3>5
  <2>3. CASE n # m \/ q # p
    <3>1. positions'[n][q] = positions[n][q]
      BY <1>13, <2>3
    <3> QED BY <1>1, <1>14, <1>16, <2>1, <3>1
  <2> QED BY <2>2, <2>3
<1>19. PollIsOwn'
  <2> SUFFICES ASSUME NEW n \in Member, NEW q \in Partition, Polls(n)'
               PROVE  /\ q \in Range(poll'.todo) => Owns(n, q)'
                      /\ \A o \in Nat : <<q, o>> \in poll'.read =>
                            Owns(n, q)' /\ o < End(q)' /\ o < positions'[n][q] /\ o \notin delivered'[q]
    BY DEF PollIsOwn
  <2>1. n = m
    BY <1>11 DEF Polls
  <2>2. /\ q \in Range(poll.todo) => Owns(m, q)
        /\ \A o \in Nat : <<q, o>> \in poll.read =>
              Owns(m, q) /\ o < End(q) /\ o < positions[m][q] /\ o \notin delivered[q]
    BY DEF GroupInv, PollIsOwn
  <2>3. q \in Range(poll'.todo) => q \in Range(poll.todo)
    <3>1. poll.todo \in Seq(Partition) /\ poll'.todo = Tail(poll.todo)
      BY <1>2, <1>11 DEF Poll
    <3>2. /\ DOMAIN Tail(poll.todo) = 1..(Len(poll.todo) - 1) /\ Len(poll.todo) \in Nat
          /\ DOMAIN poll.todo = 1..Len(poll.todo)
          /\ \A i \in 1..(Len(poll.todo) - 1) : Tail(poll.todo)[i] = poll.todo[i + 1]
      BY <1>1, <3>1
    <3>3. \A i \in 1..(Len(poll.todo) - 1) : i + 1 \in 1..Len(poll.todo)
      BY <3>2
    <3> QED BY <3>1, <3>2, <3>3 DEF Range
  <2>4. ASSUME NEW o \in Nat, <<q, o>> \in poll.read PROVE o < positions'[m][q]
    <3>1. o < positions[m][q]
      BY <2>2, <2>4
    <3>2. CASE q = p
      BY <1>8, <1>9, <1>13, <3>1, <3>2
    <3>3. CASE q # p
      BY <1>13, <3>1, <3>3
    <3> QED BY <3>2, <3>3
  <2>5. ASSUME NEW o \in Nat, <<q, o>> \in new
        PROVE  Owns(m, q) /\ o < End(q) /\ o < positions'[m][q] /\ o \notin delivered[q]
    <3>1. q = p /\ o \in F
      BY <1>10, <2>5
    <3>2. o < next /\ offset <= o /\ o < End(p)
      BY <1>8, <1>9, <3>1
    <3>3. o \notin delivered[p]
      <4>1. \A e \in delivered[p] : e < positions[m][p]
        BY <1>5 DEF GroupInv, PositionsAreRight
      <4> QED BY <1>8, <1>9, <3>2, <4>1
    <3> QED BY <1>5, <1>13, <3>1, <3>2, <3>3
  <2> QED BY <1>1, <1>11, <1>14, <1>15, <2>1, <2>2, <2>3, <2>4, <2>5
<1>20. PollIsLocated'
  BY <1>11 DEF PollIsLocated, PollsAt
<1> QED BY <1>17, <1>18, <1>19, <1>20 DEF GroupInv

\* A poll that is over: what it had read is returned, or lost.
LEMMA PollEnds ==
    ASSUME LogInv, GroupInv, UNCHANGED logVars, poll # Idle, poll' = Idle,
           UNCHANGED <<committed, members, generation, positions>>,
           delivered' \in [Partition -> SUBSET Nat], lost' \in [Partition -> SUBSET Nat],
           \A p \in Partition : \A o \in Nat :
               /\ o \in delivered'[p] => o \in delivered[p] \/ <<p, o>> \in poll.read
               /\ Got(p, o) => o \in delivered'[p] \/ o \in lost'[p]
    PROVE  GroupInv'
<1>1. UNCHANGED <<appended, kept, logStart>>
  BY DEF logVars
<1> PICK m \in Member : m = poll.member /\ Polls(m) /\ m \in members
  BY PollFacts
<1>2. \A n \in Member, q \in Partition : Owns(n, q)' <=> Owns(n, q)
  BY OwnsStays
<1>3. \A q \in Partition : End(q)' = End(q) /\ Offset(q)' = Offset(q) /\ End(q) \in Nat
                           /\ kept[q] \in SUBSET Nat
  BY <1>1, EndStays, LogFacts DEF LogInv
<1>4. \A q \in Partition, o \in Nat : <<q, o>> \in poll.read =>
         Owns(m, q) /\ o < End(q) /\ o < positions[m][q]
  BY DEF GroupInv, PollIsOwn
<1>5. ASSUME NEW n \in Member, NEW q \in Partition, Owns(n, q), NEW o \in delivered'[q]
      PROVE  o \in 0..(End(q) - 1) /\ o < positions[n][q]
  <2>1. o \in Nat /\ (o \in delivered[q] \/ <<q, o>> \in poll.read)
    BY <1>5
  <2>2. CASE o \in delivered[q]
    BY <1>5, <2>2, GroupFacts DEF GroupInv, PositionsAreRight
  <2>3. CASE <<q, o>> \in poll.read
    <3>1. Owns(m, q) /\ o < End(q) /\ o < positions[m][q]
      BY <1>4, <2>1, <2>3
    <3>2. n = m
      BY <1>5, <3>1, OwnerIsAlone DEF GroupInv, GroupTypes
    <3> QED BY <1>3, <2>1, <3>1, <3>2
  <2> QED BY <2>1, <2>2, <2>3
<1>6. ASSUME NEW q \in Partition, NEW o \in delivered'[q]
      PROVE  o \in 0..(End(q) - 1)
  <2>1. o \in Nat /\ (o \in delivered[q] \/ <<q, o>> \in poll.read)
    BY <1>6
  <2>2. CASE o \in delivered[q]
    BY <2>2 DEF GroupInv, GroupTypes
  <2>3. CASE <<q, o>> \in poll.read
    BY <1>3, <1>4, <2>1, <2>3
  <2> QED BY <2>1, <2>2, <2>3
<1>7. GroupTypes'
  <2>1. \A q \in Partition : /\ committed'[q] \in Offset(q)'
                             /\ \A n \in Member : positions'[n][q] \in Offset(q)'
                             /\ delivered'[q] \subseteq 0..(End(q)' - 1)
    BY <1>3, <1>6 DEF GroupInv, GroupTypes
  <2>2. /\ committed' \in [Partition -> Int] /\ members' \subseteq Member
        /\ generation' \in 0..MaxGeneration /\ positions' \in [Member -> [Partition -> Int]]
    BY DEF GroupInv, GroupTypes
  <2> QED BY <2>1, <2>2 DEF GroupTypes
<1>8. PositionsAreRight'
  <2> SUFFICES ASSUME NEW n \in Member, NEW q \in Partition
               PROVE  /\ positions'[n][q] # Absent =>
                            /\ Owns(n, q)' /\ positions'[n][q] >= committed'[q]
                            /\ \A o \in kept'[q] : Owed(q, o)' /\ o < positions'[n][q] => Got(q, o)'
                      /\ Owns(n, q)' => \A o \in delivered'[q] : o < positions'[n][q]
    BY DEF PositionsAreRight
  <2>1. /\ positions[n][q] # Absent =>
              /\ Owns(n, q) /\ positions[n][q] >= committed[q]
              /\ \A o \in kept[q] : Owed(q, o) /\ o < positions[n][q] => Got(q, o)
    BY DEF GroupInv, PositionsAreRight
  <2>2. ASSUME NEW o \in kept[q], Owed(q, o)' PROVE Owed(q, o)
    BY <1>1, <2>2 DEF Owed, Continues
  <2>3. ASSUME NEW o \in kept[q], Got(q, o) PROVE Got(q, o)'
    <3>1. o \in Nat
      BY <1>3
    <3>2. o \in delivered'[q] \/ o \in lost'[q]
      BY <2>3, <3>1
    <3> QED BY <3>2 DEF Got
  <2> QED BY <1>1, <1>2, <1>5, <2>1, <2>2, <2>3
<1>9. PollIsOwn' /\ PollIsLocated'
  BY DEF PollIsOwn, PollIsLocated, Polls, PollsAt
<1> QED BY <1>7, <1>8, <1>9 DEF GroupInv

LEMMA WithReadFacts ==
    ASSUME GroupInv, poll # Idle, NEW seen \in [Partition -> SUBSET Nat]
    PROVE  /\ WithRead(seen) \in [Partition -> SUBSET Nat]
           /\ \A p \in Partition : \A o :
                 o \in WithRead(seen)[p] <=> o \in seen[p] \/ <<p, o>> \in poll.read
<1>1. \A e \in poll.read : e \in Partition \X Nat
  BY PollFacts
<1>2. ASSUME NEW p \in Partition, NEW o
      PROVE  o \in {e[2] : e \in {x \in poll.read : x[1] = p}} <=> <<p, o>> \in poll.read
  <2>1. ASSUME NEW e \in poll.read, e[1] = p, o = e[2] PROVE <<p, o>> \in poll.read
    <3>1. e = <<e[1], e[2]>>
      BY <1>1
    <3> QED BY <2>1, <3>1
  <2>2. ASSUME <<p, o>> \in poll.read PROVE o \in {e[2] : e \in {x \in poll.read : x[1] = p}}
    BY <2>2
  <2> QED BY <2>1, <2>2
<1>3. \A p \in Partition : \A o :
         o \in WithRead(seen)[p] <=> o \in seen[p] \/ <<p, o>> \in poll.read
  BY <1>2 DEF WithRead
<1>4. ASSUME NEW p \in Partition PROVE WithRead(seen)[p] \in SUBSET Nat
  <2>1. ASSUME NEW o \in WithRead(seen)[p] PROVE o \in Nat
    <3>1. CASE o \in seen[p]
      BY <3>1
    <3>2. CASE <<p, o>> \in poll.read
      <4>1. <<p, o>> \in Partition \X Nat
        BY <1>1, <3>2
      <4> QED BY <4>1
    <3> QED BY <1>3, <2>1, <3>1, <3>2
  <2> QED BY <2>1
<1>5. WithRead(seen) = [p \in Partition |-> WithRead(seen)[p]]
  BY DEF WithRead
<1>6. WithRead(seen) \in [Partition -> SUBSET Nat]
  <2> HIDE DEF WithRead
  <2> QED BY <1>4, <1>5
<1> QED BY <1>3, <1>6

LEMMA PollFailsGroup ==
    ASSUME LogInv, GroupInv, UNCHANGED logVars, PollFails
    PROVE  GroupInv'
<1>1. /\ poll # Idle /\ poll' = Idle /\ lost' = WithRead(lost)
      /\ UNCHANGED <<committed, members, generation, positions, delivered>>
  BY DEF PollFails, brokerVars
<1>2. delivered' \in [Partition -> SUBSET Nat] /\ lost \in [Partition -> SUBSET Nat]
  BY <1>1 DEF GroupInv, GroupTypes
<1>3. /\ lost' \in [Partition -> SUBSET Nat]
      /\ \A p \in Partition : \A o : o \in lost'[p] <=> o \in lost[p] \/ <<p, o>> \in poll.read
  BY <1>1, <1>2, WithReadFacts
<1>4. \A p \in Partition : \A o \in Nat :
          /\ o \in delivered'[p] => o \in delivered[p] \/ <<p, o>> \in poll.read
          /\ Got(p, o) => o \in delivered'[p] \/ o \in lost'[p]
  BY <1>1, <1>3 DEF Got
<1> QED BY <1>1, <1>2, <1>3, <1>4, PollEnds

LEMMA PollReturnsGroup ==
    ASSUME LogInv, GroupInv, UNCHANGED logVars, PollReturns
    PROVE  GroupInv'
<1>1. /\ poll # Idle /\ poll' = Idle /\ delivered' = WithRead(delivered)
      /\ UNCHANGED <<committed, members, generation, positions, lost>>
  BY DEF PollReturns, brokerVars
<1>2. lost' \in [Partition -> SUBSET Nat] /\ delivered \in [Partition -> SUBSET Nat]
  BY <1>1 DEF GroupInv, GroupTypes
<1>3. /\ delivered' \in [Partition -> SUBSET Nat]
      /\ \A p \in Partition : \A o :
            o \in delivered'[p] <=> o \in delivered[p] \/ <<p, o>> \in poll.read
  BY <1>1, <1>2, WithReadFacts
<1>4. \A p \in Partition : \A o \in Nat :
          /\ o \in delivered'[p] => o \in delivered[p] \/ <<p, o>> \in poll.read
          /\ Got(p, o) => o \in delivered'[p] \/ o \in lost'[p]
  BY <1>1, <1>3 DEF Got
<1> QED BY <1>1, <1>2, <1>3, <1>4, PollEnds

\* What a commit does to the commits.
LEMMA CommitFacts ==
    ASSUME GroupInv, NEW m \in Member, Commit(m), NEW p \in Partition
    PROVE  /\ poll = Idle
           /\ committed'[p] # committed[p] =>
                 Owns(m, p) /\ positions[m][p] # Absent /\ committed'[p] = positions[m][p]
           /\ Owns(m, p) /\ positions[m][p] # Absent => committed'[p] = positions[m][p]
  BY DEF Commit, Owns

LEMMA CommitGroup ==
    ASSUME LogInv, GroupInv, UNCHANGED logVars, NEW m \in Member, Commit(m)
    PROVE  GroupInv'
<1>1. /\ poll = Idle /\ m \in members
      /\ committed' = [p \in Partition |->
                          IF p \in Range(Assigned(m)) /\ positions[m][p] # Absent
                          THEN positions[m][p] ELSE committed[p]]
      /\ UNCHANGED <<appended, kept, logStart, members, generation, positions, poll,
                     delivered, lost>>
  BY DEF Commit, groupVars, history
<1>2. \A n \in Member, q \in Partition : Owns(n, q)' <=> Owns(n, q)
  BY <1>1, OwnsStays
<1>3. \A q \in Partition : End(q)' = End(q) /\ Offset(q)' = Offset(q)
  BY <1>1, EndStays
<1>4. committed' \in [Partition -> Int]
  <2>1. \A q \in Partition : positions[m][q] \in Int /\ committed[q] \in Int
    BY GroupFacts DEF GroupInv
  <2> QED BY <1>1, <2>1
<1>5. GroupTypes'
  <2>1. ASSUME NEW q \in Partition
        PROVE  /\ committed'[q] \in Offset(q)'
               /\ \A n \in Member : positions'[n][q] \in Offset(q)'
               /\ delivered'[q] \subseteq 0..(End(q)' - 1)
    <3>1. committed'[q] \in Offset(q)
      BY <1>1, GroupFacts DEF GroupInv
    <3>2. /\ \A n \in Member : positions[n][q] \in Offset(q)
          /\ delivered[q] \subseteq 0..(End(q) - 1)
      BY DEF GroupInv, GroupTypes
    <3> QED BY <1>1, <1>3, <3>1, <3>2
  <2>2. /\ members' \subseteq Member
        /\ generation' \in 0..MaxGeneration /\ positions' \in [Member -> [Partition -> Int]]
        /\ delivered' \in [Partition -> SUBSET Nat] /\ lost' \in [Partition -> SUBSET Nat]
        /\ poll' \in Poll \cup {Idle}
    BY <1>1 DEF GroupInv, GroupTypes
  <2> QED BY <1>1, <1>4, <2>1, <2>2 DEF GroupTypes
<1>6. PositionsAreRight'
  <2> SUFFICES ASSUME NEW n \in Member, NEW q \in Partition
               PROVE  /\ positions'[n][q] # Absent =>
                            /\ Owns(n, q)' /\ positions'[n][q] >= committed'[q]
                            /\ \A o \in kept'[q] : Owed(q, o)' /\ o < positions'[n][q] => Got(q, o)'
                      /\ Owns(n, q)' => \A o \in delivered'[q] : o < positions'[n][q]
    BY DEF PositionsAreRight
  <2>1. /\ positions[n][q] # Absent =>
              /\ Owns(n, q) /\ positions[n][q] >= committed[q]
              /\ \A o \in kept[q] : Owed(q, o) /\ o < positions[n][q] => Got(q, o)
        /\ Owns(n, q) => \A o \in delivered[q] : o < positions[n][q]
    BY DEF GroupInv, PositionsAreRight
  <2>2. CASE committed'[q] = committed[q]
    <3>1. \A o : (Owed(q, o)' <=> Owed(q, o)) /\ (Got(q, o)' <=> Got(q, o))
      BY <1>1, <2>2 DEF Owed, Continues, Got
    <3> QED BY <1>1, <1>2, <2>1, <2>2, <3>1
  <2>3. CASE committed'[q] # committed[q]
    <3>1. Owns(m, q) /\ positions[m][q] # Absent /\ committed'[q] = positions[m][q]
      BY <2>3, CommitFacts
    <3>2. positions[n][q] # Absent => n = m
      BY <2>1, <3>1, OwnerIsAlone DEF GroupInv, GroupTypes
    <3>3. positions[n][q] \in Int /\ positions[m][q] \in Int /\ kept[q] \in SUBSET Nat
      BY GroupFacts, LogFacts DEF GroupInv, LogInv
    <3>4. \A o \in kept[q] : Owed(q, o)' => o >= positions[m][q]
      BY <3>1, <3>3 DEF Owed, Continues
    <3>5. \A o \in kept[q] : positions[n][q] # Absent /\ Owed(q, o)' => ~(o < positions[n][q])
      BY <3>2, <3>3, <3>4
    <3> QED BY <1>1, <1>2, <2>1, <3>1, <3>2, <3>3, <3>5
  <2> QED BY <2>2, <2>3
<1>7. PollIsOwn' /\ PollIsLocated'
  BY <1>1 DEF PollIsOwn, PollIsLocated, Polls, PollsAt
<1> QED BY <1>5, <1>6, <1>7 DEF GroupInv

------------------------------------------------------------------------------
(* MiniKafka: the invariant is inductive *)

LEMMA InitTopic ==
    ASSUME TopicInit
    PROVE  TopicInv
<1>1. /\ appended = [p \in Partition |-> <<>>] /\ kept = [p \in Partition |-> {}]
      /\ logStart = [p \in Partition |-> 0] /\ committed = [p \in Partition |-> Absent]
      /\ lastSeq = [r \in Producer |-> [p \in Partition |-> Absent]] /\ clock = 0
      /\ nextSeq = [r \in Producer |-> [p \in Partition |-> 0]]
      /\ roundRobin = [r \in Producer |-> 0] /\ sending = [r \in Producer |-> Idle]
      /\ members = {} /\ generation = 0 /\ positions = NoPositions /\ poll = Idle
      /\ delivered = [p \in Partition |-> {}] /\ lost = [p \in Partition |-> {}]
  BY DEF TopicInit
<1>2. \A p \in Partition : End(p) = 0 /\ kept[p] = {} /\ logStart[p] = 0
  BY <1>1 DEF End
<1>3. 0..(0 - 1) = {}
  OBVIOUS
<1>4. LogTypes
  <2>1. appended \in [Partition -> Seq(LogRecord)]
    <3>1. <<>> \in Seq(LogRecord)
      OBVIOUS
    <3> QED BY <1>1, <3>1
  <2>2. 0 \in Partition
    BY TopicAssumption DEF Partition
  <2>3. 0 \in 0..MaxClock
    BY TopicAssumption
  <2>4. \A p \in Partition :
          /\ \A o \in 0..(End(p) - 1) : Record(p, o).time <= clock
          /\ kept[p] \subseteq 0..(End(p) - 1)
          /\ logStart[p] <= End(p)
    BY <1>2, <1>3
  <2> QED BY <1>1, <2>1, <2>2, <2>3, <2>4 DEF LogTypes
<1>5. OnlySupersededAreMissing /\ LogIsOrdered
  BY <1>2, <1>3 DEF OnlySupersededAreMissing, LogIsOrdered
<1>6. NumbersCount
  <2> SUFFICES ASSUME NEW r \in Producer, NEW p \in Partition PROVE Counted(r, p)
    BY DEF NumbersCount
  <2>1. Sent(r, p) = {}
    BY <1>2, <1>3 DEF Sent
  <2>2. Cardinality(Sent(r, p)) = 0
    BY <2>1, FS_EmptySet
  <2>3. ~Sending(r, p) /\ ~Landed(r, p)
    BY <1>1 DEF Sending, Landed
  <2> QED BY <1>1, <2>1, <2>2, <2>3 DEF Counted, Absent
<1>7. GroupTypes
  <2>1. \A p \in Partition, m \in Member : positions[m][p] = Absent
    BY <1>1 DEF NoPositions
  <2>2. \A p \in Partition : Absent \in Offset(p)
    BY <1>2 DEF Offset, Absent
  <2>3. positions \in [Member -> [Partition -> Int]] /\ committed \in [Partition -> Int]
    BY <1>1 DEF NoPositions, Absent
  <2>4. 0 \in 0..MaxGeneration
    BY TopicAssumption
  <2> QED BY <1>1, <2>1, <2>2, <2>3, <2>4 DEF GroupTypes
<1>8. PositionsAreRight
  <2>1. \A m \in Member, p \in Partition : positions[m][p] = Absent /\ delivered[p] = {}
    BY <1>1 DEF NoPositions
  <2> QED BY <2>1 DEF PositionsAreRight
<1>9. PollIsOwn /\ PollIsLocated
  BY <1>1 DEF PollIsOwn, PollIsLocated, Polls, PollsAt
<1> QED BY <1>4, <1>5, <1>6, <1>7, <1>8, <1>9 DEF TopicInv, LogInv, GroupInv

\* The broker's and the producers' actions, and the group's.
LogStep ==
    \/ \E r \in Producer : SendStep(r) \/ \E key \in Key \cup {NoKey} : SendStart(r, key)
    \/ Compact \/ Expire \/ ClockTicks

GroupStep ==
    \/ \E m \in Member : Join(m) \/ Leave(m) \/ PollStart(m) \/ Commit(m)
    \/ PollStep

LEMMA LogStepMoves ==
    ASSUME LogInv, LogStep
    PROVE  LogMoves /\ UNCHANGED groupView
<1>1. \A p \in Partition : End(p) \in Nat /\ logStart[p] \in Nat /\ appended[p] \in Seq(LogRecord)
  BY LogFacts DEF LogInv
<1>2. ASSUME UNCHANGED appended, UNCHANGED logStart, \A p \in Partition : kept'[p] \subseteq kept[p]
      PROVE  LogMoves
  BY <1>1, <1>2 DEF LogMoves, End
<1>3. CASE ClockTicks
  BY <1>2, <1>3 DEF ClockTicks, groupView, groupVars, history
<1>4. CASE Compact
  <2>1. \A p \in Partition : kept'[p] \subseteq kept[p]
    BY <1>4 DEF Compact
  <2> QED BY <1>2, <1>4, <2>1 DEF Compact, groupView, groupVars, history
<1>5. CASE Expire
  <2>1. UNCHANGED appended /\ UNCHANGED groupView /\ \A p \in Partition : kept'[p] \subseteq kept[p]
    BY <1>5 DEF Expire, groupView, groupVars, history
  <2>2. \A p \in Partition : logStart[p] <= logStart'[p] /\ logStart'[p] \in Nat
    BY <1>5, ExpireStart
  <2> QED BY <1>1, <2>1, <2>2 DEF LogMoves, End
<1>6. ASSUME NEW r \in Producer, NEW key \in Key \cup {NoKey}, SendStart(r, key)
      PROVE  LogMoves /\ UNCHANGED groupView
  <2>1. UNCHANGED <<appended, kept, logStart>> /\ UNCHANGED groupView
    BY <1>6 DEF SendStart, brokerVars, groupView, groupVars, history
  <2> QED BY <1>2, <2>1
<1>7. ASSUME NEW r \in Producer, SendDone(r)
      PROVE  LogMoves /\ UNCHANGED groupView
  <2>1. UNCHANGED <<appended, kept, logStart>> /\ UNCHANGED groupView
    BY <1>7 DEF SendDone, brokerVars, groupView, groupVars, history
  <2> QED BY <1>2, <2>1
<1>8. ASSUME NEW r \in Producer, Attempt(r)
      PROVE  LogMoves /\ UNCHANGED groupView
  <2>1. UNCHANGED logStart /\ UNCHANGED groupView
    BY <1>8 DEF Attempt, groupView, groupVars, history
  <2>2. CASE UNCHANGED <<appended, kept>>
    BY <1>2, <2>1, <2>2
  <2>3. CASE ~IsRetry(r, sending[r])
    <3>1. sending[r] \in Send
      BY <1>8 DEF Attempt, LogInv, LogTypes
    <3> PICK p \in Partition, rec \in LogRecord :
          /\ p = sending[r].partition
          /\ rec = [key |-> sending[r].key, time |-> clock, producer |-> r,
                    sequence |-> sending[r].sequence]
      <4>1. [key |-> sending[r].key, time |-> clock, producer |-> r,
             sequence |-> sending[r].sequence] \in LogRecord
        BY <3>1 DEF LogRecord, Send, LogInv, LogTypes
      <4> QED BY <3>1, <4>1 DEF Send
    <3>2. /\ appended' = [appended EXCEPT ![p] = Append(@, rec)]
          /\ kept' = [kept EXCEPT ![p] = @ \cup {End(p)}]
      BY <1>8, <2>3 DEF Attempt
    <3>3. appended \in [Partition -> Seq(LogRecord)] /\ kept \in [Partition -> SUBSET Nat]
      BY DEF LogInv, LogTypes
    <3>4. ASSUME NEW q \in Partition
          PROVE  /\ Len(appended'[q]) >= Len(appended[q])
                 /\ \A o \in kept'[q] : o \in kept[q] \/ o = Len(appended[q])
      <4>1. CASE q = p
        <5>1. appended'[q] = Append(appended[q], rec) /\ kept'[q] = kept[q] \cup {Len(appended[q])}
          BY <3>2, <3>3, <4>1 DEF End
        <5> QED BY <1>1, <5>1
      <4>2. CASE q # p
        <5>1. appended'[q] = appended[q] /\ kept'[q] = kept[q]
          BY <3>2, <3>3, <4>2
        <5>2. Len(appended[q]) \in Nat
          BY <1>1
        <5> QED BY <5>1, <5>2
      <4> QED BY <4>1, <4>2
    <3> QED BY <1>1, <2>1, <3>4 DEF LogMoves, End
  <2>4. UNCHANGED <<appended, kept>> \/ ~IsRetry(r, sending[r])
    BY <1>8 DEF Attempt
  <2> QED BY <2>2, <2>3, <2>4
<1> QED BY <1>3, <1>4, <1>5, <1>6, <1>7, <1>8 DEF LogStep, SendStep

LEMMA LogStepLog ==
    ASSUME LogInv, LogStep
    PROVE  LogInv'
<1>1. CASE \E r \in Producer : SendStep(r) \/ \E key \in Key \cup {NoKey} : SendStart(r, key)
  BY <1>1, SendStartLog, AttemptLog, SendDoneLog DEF SendStep
<1>2. CASE Compact \/ Expire \/ ClockTicks
  BY <1>2, CompactLog, ExpireLog, ClockTicksLog
<1> QED BY <1>1, <1>2 DEF LogStep

LEMMA GroupStepLog ==
    ASSUME GroupStep
    PROVE  UNCHANGED logVars
<1>1. ASSUME Rebalance PROVE UNCHANGED logVars
  BY <1>1 DEF Rebalance, brokerVars, producerVars, logVars
<1>2. ASSUME NEW m \in Member, Join(m) \/ Leave(m) \/ PollStart(m) \/ Commit(m)
      PROVE  UNCHANGED logVars
  <2>1. CASE Join(m) \/ Leave(m)
    BY <1>1, <2>1 DEF Join, Leave
  <2>2. CASE PollStart(m)
    BY <2>2 DEF PollStart, brokerVars, producerVars, logVars
  <2>3. CASE Commit(m)
    BY <2>3 DEF Commit, producerVars, logVars
  <2> QED BY <1>2, <2>1, <2>2, <2>3
<1>3. ASSUME PollStep PROVE UNCHANGED logVars
  <2>1. CASE Locate
    BY <2>1 DEF Locate, brokerVars, producerVars, logVars
  <2>2. CASE Fetch
    BY <2>2 DEF Fetch, brokerVars, producerVars, logVars
  <2>3. CASE FetchBelowStart
    BY <2>3 DEF FetchBelowStart, brokerVars, producerVars, logVars
  <2>4. CASE PollFails
    BY <2>4 DEF PollFails, brokerVars, producerVars, logVars
  <2>5. CASE PollReturns
    BY <2>5 DEF PollReturns, brokerVars, producerVars, logVars
  <2> QED BY <1>3, <2>1, <2>2, <2>3, <2>4, <2>5 DEF PollStep
<1> QED BY <1>2, <1>3 DEF GroupStep

LEMMA GroupStepGroup ==
    ASSUME LogInv, GroupInv, GroupStep
    PROVE  GroupInv'
<1>1. UNCHANGED logVars
  BY GroupStepLog
<1>2. ASSUME NEW m \in Member, Join(m) \/ Leave(m) PROVE GroupInv'
  <2>1. Rebalance /\ members' \subseteq Member
    BY <1>2 DEF Join, Leave, GroupInv, GroupTypes
  <2> QED BY <1>1, <2>1, RebalanceGroup
<1>3. ASSUME NEW m \in Member, PollStart(m) PROVE GroupInv'
  BY <1>1, <1>3, PollStartGroup
<1>4. ASSUME NEW m \in Member, Commit(m) PROVE GroupInv'
  BY <1>1, <1>4, CommitGroup
<1>5. CASE PollStep
  BY <1>1, <1>5, LocateGroup, FetchGroup, FetchBelowStartGroup, PollFailsGroup, PollReturnsGroup
  DEF PollStep
<1> QED BY <1>2, <1>3, <1>4, <1>5 DEF GroupStep

LEMMA StepTopic ==
    ASSUME TopicInv, [TopicNext]_topicVars
    PROVE  TopicInv'
<1>1. LogInv /\ GroupInv
  BY DEF TopicInv
<1>2. CASE LogStep
  <2>1. LogInv'
    BY <1>1, <1>2, LogStepLog
  <2>2. GroupInv'
    BY <1>1, <1>2, <2>1, LogStepMoves, GroupStays
  <2> QED BY <2>1, <2>2 DEF TopicInv
<1>3. CASE GroupStep
  <2>1. LogInv'
    BY <1>1, <1>3, GroupStepLog, LogStays
  <2>2. GroupInv'
    BY <1>1, <1>3, GroupStepGroup
  <2> QED BY <2>1, <2>2 DEF TopicInv
<1>4. CASE UNCHANGED topicVars
  <2>1. UNCHANGED logVars /\ UNCHANGED groupView
    BY <1>4 DEF topicVars, brokerVars, producerVars, groupVars, history, logVars, groupView
  <2>2. LogInv'
    BY <1>1, <2>1, LogStays
  <2>3. LogMoves
    <3>1. UNCHANGED <<appended, kept, logStart>>
      BY <2>1 DEF logVars
    <3>2. \A p \in Partition : End(p) \in Nat /\ logStart[p] \in Nat
      BY <1>1, LogFacts DEF LogInv
    <3> QED BY <3>1, <3>2 DEF LogMoves, End
  <2>4. GroupInv'
    BY <1>1, <2>1, <2>2, <2>3, GroupStays
  <2> QED BY <2>2, <2>4 DEF TopicInv
<1> QED BY <1>2, <1>3, <1>4 DEF TopicNext, LogStep, GroupStep

LEMMA TopicIsBrokers ==
    ASSUME TopicInv
    PROVE  BrokerInv
<1>1. LogTypes /\ GroupTypes
  BY DEF TopicInv, LogInv, GroupInv
<1>2. ASSUME poll # Idle, poll.step # "locate"
      PROVE  poll.position \in Offset(Head(poll.todo))
  <2>1. poll.todo # <<>>
    BY <1>1, <1>2 DEF GroupTypes
  <2> PICK m \in Member, p \in Partition : m = poll.member /\ p = Head(poll.todo)
    BY <1>2, <2>1, PollFacts DEF TopicInv
  <2>2. PollsAt(m, p)
    BY <1>2 DEF PollsAt, Polls
  <2>3. poll.position \in 0..End(p) /\ End(p) \in Nat
    BY <1>1, <2>2, LogFacts DEF TopicInv, GroupInv, PollIsLocated
  <2>4. poll.position \in Offset(p)
    BY <2>3 DEF Offset, Absent
  <2> QED BY <2>4
<1>3. TopicTypeOK
  BY <1>1, <1>2 DEF TopicTypeOK, LogTypes, GroupTypes
<1>4. SentOnce
  <2> SUFFICES ASSUME NEW r \in Producer, NEW p \in Partition
               PROVE  /\ \A o \in Sent(r, p) :
                            Record(p, o).sequence = Cardinality({e \in Sent(r, p) : e < o})
                      /\ nextSeq[r][p] \in {Cardinality(Sent(r, p)), Cardinality(Sent(r, p)) - 1}
    BY DEF SentOnce
  <2>1. Counted(r, p)
    BY DEF TopicInv, LogInv, NumbersCount
  <2>2. Cardinality(Sent(r, p)) \in Nat
    BY <1>1, SentFacts
  <2> QED BY <2>1, <2>2 DEF Counted
<1>5. OneOwner
  BY <1>1, OneOwnerHolds DEF GroupTypes
<1> QED BY <1>3, <1>4, <1>5 DEF BrokerInv, TopicInv, LogInv

LEMMA TopicIsInvariant == TopicSpec => []TopicInv
<1>1. TopicInit => TopicInv
  BY InitTopic
<1>2. TopicInv /\ [TopicNext]_topicVars => TopicInv'
  BY StepTopic
<1> QED BY <1>1, <1>2, PTL DEF TopicSpec

\* The logs and the assignment of Broker and ConsumerGroup are right between any
\* two calls: a producer's records lie in the log once each and in its order,
\* however often an attempt was retried; compaction and retention lose only what a
\* newer record supersedes or the log's start is past; every partition has exactly
\* one owner, none with two more than another; no position or commit is beyond
\* the end of its log.
THEOREM LogsAreRight == TopicSpec => []BrokerInv
<1>1. TopicInv => BrokerInv
  BY TopicIsBrokers
<1> QED BY <1>1, TopicIsInvariant, PTL

LEMMA StepCommits ==
    ASSUME TopicInv, [TopicNext]_topicVars
    PROVE  [CommitsDelivered]_topicVars
<1> SUFFICES ASSUME TopicNext PROVE CommitsDelivered
  OBVIOUS
<1>1. LogInv /\ GroupInv
  BY DEF TopicInv
<1>2. CASE committed' = committed
  BY <1>2 DEF CommitsDelivered
<1>3. ASSUME NEW m \in Member, Commit(m) PROVE CommitsDelivered
  <2> SUFFICES ASSUME NEW p \in Partition, committed'[p] # committed[p]
               PROVE  /\ committed'[p] >= Continues(p, committed'[p])
                      /\ \A o \in kept[p] : Continues(p, committed'[p]) <= o /\ o < committed'[p]
                                              => o \in delivered[p] \/ o \in lost[p]
    BY DEF CommitsDelivered
  <2>1. /\ poll = Idle /\ positions[m][p] # Absent /\ committed'[p] = positions[m][p]
    BY <1>1, <1>3, CommitFacts
  <2>2. /\ positions[m][p] >= committed[p]
        /\ \A o \in kept[p] : Owed(p, o) /\ o < positions[m][p] => Got(p, o)
    BY <1>1, <2>1 DEF GroupInv, PositionsAreRight
  <2>3. positions[m][p] \in Nat /\ committed[p] \in Int
    <3>1. positions[m][p] \in Absent..End(p) /\ committed[p] \in Int /\ End(p) \in Nat
      BY <1>1, GroupFacts, LogFacts DEF GroupInv, LogInv, Offset
    <3> QED BY <2>1, <3>1 DEF Absent
  <2>4. \A o \in kept[p] : o \in Nat
    BY <1>1, LogFacts DEF LogInv
  <2>5. committed'[p] >= Continues(p, committed'[p])
    BY <2>1, <2>2, <2>3 DEF Continues
  <2>6. ASSUME NEW o \in kept[p], Continues(p, committed'[p]) <= o, o < committed'[p]
        PROVE  o \in delivered[p] \/ o \in lost[p]
    <3>1. committed[p] # Absent \/ Reset = "earliest"
      BY <2>1, <2>3, <2>4, <2>6 DEF Continues
    <3>2. Continues(p, committed'[p]) = Continues(p, o)
      BY <3>1 DEF Continues
    <3>3. Owed(p, o)
      BY <2>6, <3>1, <3>2 DEF Owed
    <3> QED BY <2>1, <2>2, <2>6, <3>3 DEF Got
  <2> QED BY <2>5, <2>6
<1>4. CASE LogStep
  <2>1. committed' = committed
    BY <1>1, <1>4, LogStepMoves DEF groupView
  <2> QED BY <1>2, <2>1
<1>5. ASSUME NEW m \in Member, Join(m) \/ Leave(m) \/ PollStart(m) PROVE committed' = committed
  BY <1>5 DEF Join, Leave, Rebalance, PollStart, brokerVars
<1>6. CASE PollStep
  <2>1. committed' = committed
    BY <1>6 DEF PollStep, Locate, Fetch, FetchBelowStart, PollFails, PollReturns, brokerVars
  <2> QED BY <1>2, <2>1
<1> QED BY <1>2, <1>3, <1>4, <1>5, <1>6 DEF TopicNext, LogStep

\* At least once, but for what a poll that raised had in hand: ConsumerGroup.commit
\* moves the group's offset forward only, and each record it goes past was returned
\* by a poll of this generation, or read by one that then raised (retention deleted
\* its next offset twice) and so lost it.  A member that leaves or dies before it
\* commits costs the group no record.
THEOREM CommitsCoverDelivered == TopicSpec => CommitIsDelivered
<1>1. TopicInv /\ [TopicNext]_topicVars => [CommitsDelivered]_topicVars
  BY StepCommits
<1> QED BY <1>1, TopicIsInvariant, PTL DEF TopicSpec, CommitIsDelivered

LEMMA PollIsNews ==
    ASSUME TopicInv
    PROVE  ReturnsNews
<1> SUFFICES ASSUME poll # Idle, NEW x \in poll.read PROVE x[2] \notin delivered[x[1]]
  BY DEF ReturnsNews
<1>1. GroupInv
  BY DEF TopicInv
<1> PICK m \in Member : m = poll.member /\ Polls(m)
  BY <1>1, PollFacts
<1> PICK p \in Partition, o \in Nat : x = <<p, o>>
  <2>1. x \in Partition \X Nat
    BY <1>1, PollFacts
  <2> QED BY <2>1
<1>2. o \notin delivered[p]
  BY <1>1 DEF GroupInv, PollIsOwn
<1> QED BY <1>2

\* No redelivery without a rebalance: within a generation no poll of the group
\* returns a record that an earlier poll of any member has returned.
THEOREM NoRedelivery == TopicSpec => DeliveredOnce
<1>1. TopicInv => [ReturnsNews]_topicVars
  BY PollIsNews
<1> QED BY <1>1, TopicIsInvariant, PTL DEF DeliveredOnce
=============================================================================
