------------------------- MODULE ReplicatedPartition -------------------------
(***************************************************************************)
(* code/hld/partitioned_log.py, class ReplicatedPartition: one partition   *)
(* kept by a leader and followers that pull, an in-sync replica set (ISR), *)
(* and elections when the leader fails.                                    *)
(*                                                                         *)
(* Every public method holds the partition's lock throughout, so it is one *)
(* action.  A replica's SegmentedLog is the sequence of its records        *)
(* (nothing expires here, so logs start at offset 0), and a record is the  *)
(* number of the produce call that made it.  recover, like every method,   *)
(* may be called for any replica, up or down, the leader too; what the     *)
(* theorems assume of the calls is the formula Attended.                   *)
(***************************************************************************)
EXTENDS Integers, Sequences, FiniteSets, FiniteSetsExt, SequencesExt

CONSTANTS
    Order,        \* the replicas in the order of their names
    FirstLeader,  \* replicas[0]
    MinInsync,    \* min_insync
    MaxLag,       \* max_lag, in clock ticks
    MaxRecords,   \* bound: produce calls in one behaviour
    MaxFaults,    \* bound: fail calls in one behaviour
    Stalled       \* liveness only: replicas that may stop fetching for good

Replica == Range(Order)

ASSUME ReplicaAssumption ==
    /\ Order \in Seq(Replica)
    /\ \A i, j \in DOMAIN Order : Order[i] = Order[j] => i = j
    /\ Len(Order) >= 2
    /\ FirstLeader \in Replica
    /\ MinInsync \in 1..Len(Order)
    /\ MaxLag \in Nat /\ MaxRecords \in Nat /\ MaxFaults \in Nat
    /\ Stalled \subseteq Replica

VARIABLES
    log,      \* log[n]: the records of n's SegmentedLog
    leader,   \* _leader
    isr,      \* _isr
    down,     \* _down
    age,      \* age[n]: now - _caught_up[n], counted up to MaxLag + 1
    acked,    \* history: the records acknowledged to an acks=all producer
    produced, \* produce calls so far (bound, and the name of the next record)
    faults,   \* fail calls so far (bound)
    prompt    \* history: nothing was produced between a failure and its recovery

vars == <<log, leader, isr, down, age, acked, produced, faults, prompt>>

End(n) == Len(log[n])

Lowest(ends) == IF ends = {} THEN 0 ELSE Min(ends)

\* The lowest log end offset of the ISR, 0 when the ISR is empty.
HighWatermark == Lowest({End(n) : n \in isr})

Init ==
    /\ log = [n \in Replica |-> <<>>]
    /\ leader = FirstLeader
    /\ isr = Replica
    /\ down = {}
    /\ age = [n \in Replica |-> 0]
    /\ acked = {}
    /\ produced = 0
    /\ faults = 0
    /\ prompt = TRUE

-----------------------------------------------------------------------------
\* A follower log after it has fetched all that source has beyond its end.
Extended(follower, source) ==
    follower \o SubSeq(source, Len(follower) + 1, Len(source))

\* _replicate for every node of S, from a leader whose log is now source: the
\* nodes that reach its end are caught up and in sync.
Pull(S, source) ==
    LET fetching == S \ (down \cup {leader})
        reached == {n \in fetching : Len(Extended(log[n], source)) = Len(source)}
    IN  /\ log' = [n \in Replica |->
                      IF n = leader THEN source
                      ELSE IF n \in fetching THEN Extended(log[n], source)
                      ELSE log[n]]
        /\ isr' = isr \cup reached
        /\ age' = [n \in Replica |-> IF n \in reached THEN 0 ELSE age[n]]

Appended == Append(log[leader], produced + 1)

\* Seeded fault: acks=all answered before the followers have the record.
ProduceAllEarly ==
    /\ produced < MaxRecords
    /\ Cardinality(isr) >= MinInsync
    /\ Pull({}, Appended)
    /\ produced' = produced + 1
    /\ acked' = acked \cup {produced + 1}
    /\ UNCHANGED <<leader, down, faults>>

\* produce(acks=all): refused below min.insync.replicas, else every in-sync
\* follower has fetched the record before the producer is answered.
ProduceAll ==
    /\ produced < MaxRecords
    /\ Cardinality(isr) >= MinInsync
    /\ Pull(isr, Appended)
    /\ produced' = produced + 1
    /\ acked' = acked \cup {produced + 1}
    /\ UNCHANGED <<leader, down, faults>>

\* produce(acks=1 or acks=0): the leader's log only.
ProduceLeader ==
    /\ produced < MaxRecords
    /\ Pull({}, Appended)
    /\ produced' = produced + 1
    /\ UNCHANGED <<leader, down, acked, faults>>

\* replicate(node), or replicate() for every healthy follower at once.
Replicate(S) ==
    /\ Pull(S, log[leader])
    /\ UNCHANGED <<leader, down, acked, produced, faults>>

\* Seeded fault: nobody is ever evicted.
CheckIsrNever == UNCHANGED <<log, leader, isr, down, age, acked, produced, faults>>

\* check_isr: evict the followers that have not caught up for max_lag.
CheckIsr ==
    /\ isr' = {n \in isr : n = leader \/ age[n] <= MaxLag}
    /\ UNCHANGED <<log, leader, down, age, acked, produced, faults>>

Tick ==
    /\ age' = [n \in Replica |-> Min({age[n] + 1, MaxLag + 1})]
    /\ UNCHANGED <<log, leader, isr, down, acked, produced, faults>>

\* Seeded faults: any live replica is elected, the shortest log is elected.
AnyLive(S) == Order[Min({i \in DOMAIN Order : Order[i] \notin down'})]
Shortest(S) ==
    LET best == {n \in S : \A m \in S : End(m) >= End(n)}
    IN  Order[Min({i \in DOMAIN Order : Order[i] \in best})]

\* max(sorted(isr), key=end_offset): the first by name of the longest logs.
Longest(S) ==
    LET best == {n \in S : \A m \in S : End(m) <= End(n)}
    IN  Order[Min({i \in DOMAIN Order : Order[i] \in best})]

\* fail(node): out of the ISR; a failed leader is replaced from the ISR, and an
\* empty ISR raises with the old leader still in place.
Fail(n) ==
    /\ faults < MaxFaults
    /\ n \notin down \/ n = leader
    /\ faults' = faults + 1
    /\ down' = down \cup {n}
    /\ isr' = isr \ {n}
    /\ \/ /\ n # leader \/ isr' = {}
          /\ UNCHANGED <<leader, age>>
       \/ /\ n = leader /\ isr' # {}
          /\ leader' = Longest(isr')
          /\ age' = [age EXCEPT ![leader'] = 0]
    /\ UNCHANGED <<log, acked, produced>>

\* Seeded fault: a replica comes back with its tail.
TruncatedNot(n) == log[n]

Truncated(n) == SubSeq(log[n], 1, Min({End(n), HighWatermark}))

\* recover(node), of a replica that is down or of one that is up: up from now on,
\* cut down to the high watermark, then one fetch from the leader, unless it is
\* the leader itself.
Recover(n) ==
    LET source == log[leader]
        mine == IF n = leader THEN Truncated(n) ELSE Extended(Truncated(n), source)
        reached == n # leader /\ Len(mine) = Len(source)
    IN  /\ down' = down \ {n}
        /\ log' = [log EXCEPT ![n] = mine]
        /\ age' = [age EXCEPT ![n] = 0]
        /\ isr' = IF reached THEN isr \cup {n} ELSE isr
        /\ UNCHANGED <<leader, acked, produced, faults>>

Step ==
    \/ ProduceAll \/ ProduceLeader
    \/ \E n \in Replica : Replicate({n}) \/ Fail(n) \/ Recover(n)
    \/ Replicate(Replica)
    \/ CheckIsr
    \/ Tick

Remember == prompt' = (prompt /\ (produced' # produced => down = {}))

Next == Step /\ Remember

Spec == Init /\ [][Next]_vars

-----------------------------------------------------------------------------
\* What is assumed of the calls.  The last in-sync replica never fails.  And the
\* leader is not recovered while it has a tail above the high watermark: recover
\* would cut the tail off although in-sync followers may have fetched it, and
\* would leave them ahead of their leader.
Attended ==
    /\ isr' # {}
    /\ Recover(leader) => End(leader) = HighWatermark

OnlineSpec == Init /\ [][Next /\ Attended]_vars

\* Followers outside Stalled keep fetching, and the eviction timer keeps running.
Fairness ==
    /\ \A n \in Replica \ Stalled : WF_vars(Replicate({n}) /\ Remember)
    /\ WF_vars(Tick /\ Remember)
    /\ WF_vars(CheckIsr /\ Remember)

FairOnlineSpec == OnlineSpec /\ Fairness

-----------------------------------------------------------------------------
(* Properties                                                              *)

\* Every variable keeps its type.
TypeOK ==
    /\ log \in [Replica -> Seq(1..MaxRecords)]
    /\ leader \in Replica
    /\ isr \subseteq Replica
    /\ down \subseteq Replica
    /\ age \in [Replica -> 0..(MaxLag + 1)]
    /\ acked \subseteq 1..produced
    /\ produced \in 0..MaxRecords
    /\ faults \in 0..MaxFaults
    /\ prompt \in BOOLEAN

\* What fetch can return to a consumer.
Visible == SubSeq(log[leader], 1, Min({HighWatermark, End(leader)}))

\* "Below the high watermark every in-sync replica has the record": the same
\* record at the same offset, whoever leads.
InSyncHaveRecord ==
    \A n \in isr, i \in 1..HighWatermark : i <= End(leader) /\ log[n][i] = log[leader][i]

\* A record a consumer may have read stays where it was read, through elections,
\* evictions and recoveries (while recoveries are prompt).
VisibleIsStable == [][prompt' => IsPrefix(Visible, Visible')]_vars

\* An acks=all record is never gone from all the replicas (while one is in sync).
AckedIsSomewhere == \A r \in acked : \E n \in Replica : r \in Range(log[n])

\* The answer to an acks=all producer holds, and what the high watermark stands for
\* is true: the record is somewhere; while recoveries are prompt the leader, whoever
\* it is, has it, and every in-sync replica has the same committed records.
AckedIsKept ==
    /\ AckedIsSomewhere
    /\ prompt => acked \subseteq Range(log[leader]) /\ InSyncHaveRecord

\* The leader is in sync and no in-sync replica is ahead of it, so an election
\* (of the longest log) loses no offset below the high watermark.
LeaderIsAhead == leader \in isr /\ isr \cap down = {} /\ \A n \in isr : End(n) <= End(leader)

PartitionInv == TypeOK /\ LeaderIsAhead

\* An election throws away only records that no acks=all producer was told of.
LossIsUnacked ==
    [][leader' # leader =>
          \A i \in (Len(log[leader']) + 1)..End(leader) : log[leader][i] \notin acked]_vars

\* A follower that stops fetching does not hold back the others: in the end all
\* the leader has is committed.
AllIsCommitted == <>[](HighWatermark = End(leader))
=============================================================================
