------------------------------ MODULE KVCluster ------------------------------
(***************************************************************************)
(* code/hld/kv_cluster.py: KVCluster with its StorageNodes and             *)
(* VectorClocks, for one key (keys share nothing but the nodes' up flags). *)
(*                                                                         *)
(* Every operation is one critical section.  What interleaves is what      *)
(* clients do between a get and the put that uses its context, and what    *)
(* nodes miss while they are down.                                         *)
(***************************************************************************)
EXTENDS Integers, Sequences, FiniteSets, FiniteSetsExt, SequencesExt

CONSTANTS
    Order,           \* the nodes, in ring order from the key on
    N, W, R,         \* home replicas, write and read quorums
    Client,
    MaxWrites,       \* bound: puts
    MaxFails         \* bound: failures of a node

ASSUME ClusterAssumption ==
    /\ Order \in Seq(Range(Order)) /\ IsInjective(Order)
    /\ N \in 1..Len(Order) /\ W \in 1..N /\ R \in 1..N
    /\ MaxWrites \in Nat /\ MaxFails \in Nat

Node == Range(Order)
Home == {Order[i] : i \in 1..N}

VARIABLES
    sloppy,          \* whether a healthy node may stand in for a home that is down
    up,              \* the nodes that are up
    data,            \* data[n]: the siblings n stores
    hints,           \* hints[n][h]: the versions n keeps for the home h
    context,         \* context[c]: the context of c's last get
    acked,           \* history: the versions put has returned
    fails            \* failures so far (bound)

vars == <<sloppy, up, data, hints, context, acked, fails>>

------------------------------------------------------------------------------
(* VectorClock; a counter that is 0 has no entry. *)

Clock == [Node -> Nat]
Zero == [n \in Node |-> 0]

Merge(S) == [n \in Node |-> Max({c[n] : c \in S} \cup {0})]
DescendsFrom(c, d) == \A n \in Node : c[n] >= d[n]
Dominates(c, d) == c # d /\ DescendsFrom(c, d)

\* A version carries the number of its write for its value.
Version == [value : 1..MaxWrites, clock : Clock]

Reconcile(S) == {v \in S : \A o \in S : ~Dominates(o.clock, v.clock)}

TypeOK ==
    /\ sloppy \in BOOLEAN
    /\ up \subseteq Node
    /\ data \in [Node -> SUBSET Version]
    /\ hints \in [Node -> [Home -> SUBSET Version]]
    /\ context \in [Client -> Clock]
    /\ acked \subseteq Version
    /\ fails \in 0..MaxFails

Init ==
    /\ sloppy \in BOOLEAN
    /\ up = Node
    /\ data = [n \in Node |-> {}]
    /\ hints = [n \in Node |-> [h \in Home |-> {}]]
    /\ context = [c \in Client |-> Zero]
    /\ acked = {}
    /\ fails = 0

------------------------------------------------------------------------------
(* Placement *)

\* The healthy nodes past the preference list, by their place on the ring.
Spares == {j \in (N + 1)..Len(Order) : Order[j] \in up}

\* How many homes before the i-th are down: the spares that are taken already.
Taken(i) == Cardinality({j \in 1..(i - 1) : Order[j] \notin up})

\* The j-th node is the next spare when the i-th home's turn comes.
IsNextSpare(j, i) == Cardinality({k \in Spares : k < j}) = Taken(i)

\* Seeded fault: a stand-in whether or not the cluster is sloppy.
HasHolderAlways(i) == Order[i] \in up \/ \E j \in Spares : IsNextSpare(j, i)

HasHolder(i) == Order[i] \in up \/ (sloppy /\ \E j \in Spares : IsNextSpare(j, i))
HolderOf(i) == IF Order[i] \in up THEN Order[i]
               ELSE Order[CHOOSE j \in Spares : IsNextSpare(j, i)]

\* _targets: the homes that have a holder, by their place on the ring.
Targets == {i \in 1..N : HasHolder(i)}
Holders == {HolderOf(i) : i \in Targets}

------------------------------------------------------------------------------
(* Operations *)

\* store, on every node: what it has and what comes in, reconciled.
Stored(incoming) == [n \in Node |-> IF incoming[n] = {} THEN data[n]
                                    ELSE Reconcile(data[n] \cup incoming[n])]

\* The clock of a new version: past the context, and past every counter of the
\* coordinator's own that it stores.
Stamp(via, ctx) ==
    [ctx EXCEPT ![via] = Max({v.clock[via] : v \in data[via]} \cup {@}) + 1]

\* Seeded fault: a stand-in keeps the last hint only.
HintedLast(n, h, version) == {version}

\* A stand-in keeps every concurrent version until its home is back.
Hinted(n, h, version) == Reconcile(hints[n][h] \cup {version})

\* put, through the coordinator via; QuorumError when W is out of reach.
Put(via, ctx) ==
    /\ Cardinality(Targets) >= W /\ via \in Holders
    /\ Cardinality(acked) < MaxWrites
    /\ LET version == [value |-> Cardinality(acked) + 1, clock |-> Stamp(via, ctx)]
           standsIn(n, h) == \E i \in Targets : Order[i] = h /\ HolderOf(i) = n /\ n # h
       IN  /\ data' = Stored([n \in Node |-> IF n \in Holders THEN {version} ELSE {}])
           /\ hints' = [n \in Node |-> [h \in Home |->
                 IF standsIn(n, h) THEN Hinted(n, h, version) ELSE hints[n][h]]]
           /\ acked' = acked \cup {version}
    /\ UNCHANGED <<sloppy, up, context, fails>>

PutBlind == \E via \in Node : Put(via, Zero)
PutInContext(c) == \E via \in Node : Put(via, context[c])

\* The nodes a get asks, the holders of the first R targets, and what they say
\* together.
Asked == {i \in Targets : Cardinality({j \in Targets : j < i}) < R}
Answering == {HolderOf(i) : i \in Asked}
Read == Reconcile(UNION {data[n] : n \in Answering})

\* get: the answers are merged, and written back to those who gave them.
Get(c) ==
    /\ Cardinality(Targets) >= R
    /\ data' = Stored([n \in Node |-> IF n \in Answering THEN Read ELSE {}])
    /\ context' = [context EXCEPT ![c] = Merge({v.clock : v \in Read})]
    /\ UNCHANGED <<sloppy, up, hints, acked, fails>>

Fail(n) ==
    /\ n \in up /\ fails < MaxFails
    /\ up' = up \ {n}
    /\ fails' = fails + 1
    /\ UNCHANGED <<sloppy, data, hints, context, acked>>

\* recover: the hints for n are handed off, and the stand-ins that kept them drop
\* their copies.  (No hint is for a node that is up, so it does nothing there.)
Recover(n) ==
    /\ n \notin up
    /\ up' = up \cup {n}
    /\ LET keepers == IF n \in Home THEN {m \in Node : hints[m][n] # {}} ELSE {}
           handed == UNION {hints[m][n] : m \in keepers}
       IN  /\ data' = [m \in Node |->
                 IF m \in keepers \ Home THEN {}
                 ELSE IF m = n THEN Reconcile(data[m] \cup handed) ELSE data[m]]
           /\ hints' = [m \in Node |-> [h \in Home |->
                 IF h = n THEN {} ELSE hints[m][h]]]
    /\ UNCHANGED <<sloppy, context, acked, fails>>

\* Seeded fault: the first home's siblings replace the second's.
AntiEntropyCopies(m, n) ==
    /\ data[m] # data[n]
    /\ data' = [data EXCEPT ![n] = data[m]]
    /\ UNCHANGED <<sloppy, up, hints, context, acked, fails>>

\* anti_entropy: two homes, up or not, that differ get what both have.
AntiEntropy(m, n) ==
    /\ data[m] # data[n]
    /\ data' = LET both == Reconcile(data[m] \cup data[n])
               IN  [data EXCEPT ![m] = both, ![n] = both]
    /\ UNCHANGED <<sloppy, up, hints, context, acked, fails>>

Next ==
    \/ PutBlind
    \/ \E c \in Client : PutInContext(c) \/ Get(c)
    \/ \E n \in Node : Fail(n) \/ Recover(n)
    \/ \E m, n \in Home : AntiEntropy(m, n)

\* Nodes that are down come back, and any two homes are compared again.
Fairness ==
    /\ \A n \in Node : WF_vars(Recover(n))
    /\ \A m, n \in Home : WF_vars(AntiEntropy(m, n))

Spec == Init /\ [][Next]_vars /\ Fairness

------------------------------------------------------------------------------
(* Properties *)

\* v is among S, or something that has superseded it is.
Covered(v, S) == \E u \in S : u = v \/ Dominates(u.clock, v.clock)

\* No node stores a version beside one that supersedes it, and a hint waits only
\* for a home that is down.
ReplicasAreTidy ==
    /\ \A n \in Node : data[n] = Reconcile(data[n])
    /\ \A n \in Node, h \in Home : hints[n][h] # {} => h \notin up

\* An acknowledged write outlives every failure and hand-off: the version, or one
\* that supersedes it, is stored or hinted somewhere.
NothingIsLost ==
    \A v \in acked : \E n \in Node :
        Covered(v, data[n]) \/ \E h \in Home : Covered(v, hints[n][h])

\* The type invariant, tidy replicas, and no acknowledged write lost.
ReplicasInv == TypeOK /\ ReplicasAreTidy /\ NothingIsLost

\* "With W + R > N every read overlaps the latest write": in a strict quorum a get
\* misses no acknowledged write, whoever failed or came back since.
ReadsOverlap ==
    ~sloppy /\ W + R > N /\ Cardinality(Targets) >= R => \A v \in acked : Covered(v, Read)

\* In the end every hint is delivered and the homes agree, on siblings that miss no
\* acknowledged write.
Converged ==
    /\ \A n \in Node, h \in Home : hints[n][h] = {}
    /\ \A m, n \in Home : data[m] = data[n]
    /\ \A n \in Home : \A v \in acked : Covered(v, data[n])

Converges == <>[]Converged
=============================================================================
