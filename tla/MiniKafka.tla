------------------------------ MODULE MiniKafka ------------------------------
(***************************************************************************)
(* code/hld/mini_kafka.py: one topic of a Broker, its idempotent Producers *)
(* and one ConsumerGroup.                                                  *)
(*                                                                         *)
(* A Broker method holds the broker's lock throughout and is one action.   *)
(* Producer.send and ConsumerGroup.poll hold a lock of their own over      *)
(* several broker calls, so they are one action per broker call, between   *)
(* which the broker serves the other clients.                              *)
(***************************************************************************)
EXTENDS Integers, Sequences, FiniteSets, FiniteSetsExt, SequencesExt

CONSTANTS
    NumPartitions,
    Members,        \* the possible members, in the order of their names
    Producer,
    Key, NoKey,     \* NoKey: an unkeyed record
    PartitionOf,    \* partition_hash(key) % partitions
    Attempts,       \* send(attempts=...)
    MaxPoll,        \* poll(max_records=...)
    Reset,          \* auto_offset_reset
    Retention,      \* in clock ticks
    Idle,           \* no send, or no poll, in progress
    MaxSends,       \* bound: records in the topic
    MaxClock,       \* bound: the clock
    MaxGeneration   \* bound: rebalances

Partition == 0..(NumPartitions - 1)
Member == Range(Members)

ASSUME TopicAssumption ==
    /\ NumPartitions \in Nat \ {0}
    /\ NoKey \notin Key
    /\ PartitionOf \in [Key -> Partition]
    /\ Members \in Seq(Range(Members)) /\ IsInjective(Members)
    /\ Attempts \in Nat \ {0} /\ MaxPoll \in Nat \ {0} /\ Retention \in Nat \ {0}
    /\ Reset \in {"earliest", "latest"}
    /\ MaxSends \in Nat /\ MaxClock \in Nat /\ MaxGeneration \in Nat

\* dict.get without an entry: below every offset and sequence number.
Absent == -1

VARIABLES
    \* Broker
    appended,   \* appended[p]: all records ever appended to p, by offset
    kept,       \* kept[p]: the offsets whose records p still has
    logStart,   \* log_start_offset
    committed,  \* committed[p] of the group
    lastSeq,    \* _sequences: lastSeq[r][p], the last one accepted from r
    clock,      \* the clock
    \* Producer
    nextSeq,    \* _sequences: nextSeq[r][p], the number of the next send
    roundRobin, \* _round_robin, modulo the number of partitions
    sending,    \* sending[r]: the send in progress, or Idle
    \* ConsumerGroup
    members, generation,
    positions,  \* positions[m][p]
    poll,       \* the poll in progress, which holds the group's lock, or Idle
    \* history
    delivered,  \* delivered[p]: offsets returned by polls in this generation
    lost        \* lost[p]: offsets read in this generation by polls that then raised

brokerVars == <<appended, kept, logStart, committed, lastSeq, clock>>
producerVars == <<nextSeq, roundRobin, sending>>
groupVars == <<members, generation, positions, poll>>
history == <<delivered, lost>>
topicVars == <<brokerVars, producerVars, groupVars, history>>

End(p) == Len(appended[p])
Record(p, offset) == appended[p][offset + 1]

\* What is appended, sent and polled.
LogRecord == [key : Key \cup {NoKey}, time : Nat, producer : Producer, sequence : Nat]
Send == [partition : Partition, key : Key \cup {NoKey}, sequence : Nat, left : 0..Attempts]
Poll == [member : Member, todo : Seq(Partition), step : {"locate", "fetch", "refetch"},
         position : Int, read : SUBSET (Partition \X Nat)]

ASSUME IdleAssumption == Idle \notin Send /\ Idle \notin Poll

NoPositions == [m \in Member |-> [p \in Partition |-> Absent]]

TopicInit ==
    /\ appended = [p \in Partition |-> <<>>]
    /\ kept = [p \in Partition |-> {}]
    /\ logStart = [p \in Partition |-> 0]
    /\ committed = [p \in Partition |-> Absent]
    /\ lastSeq = [r \in Producer |-> [p \in Partition |-> Absent]]
    /\ clock = 0
    /\ nextSeq = [r \in Producer |-> [p \in Partition |-> 0]]
    /\ roundRobin = [r \in Producer |-> 0]
    /\ sending = [r \in Producer |-> Idle]
    /\ members = {}
    /\ generation = 0
    /\ positions = NoPositions
    /\ poll = Idle
    /\ delivered = [p \in Partition |-> {}]
    /\ lost = [p \in Partition |-> {}]

-----------------------------------------------------------------------------
(* Producer.send and Broker.append                                         *)

InTopic == MapThenSumSet(End, Partition)

\* partition_for, and the lock of the producer is taken.
SendStart(r, key) ==
    LET p == IF key = NoKey THEN roundRobin[r] ELSE PartitionOf[key] IN
    /\ sending[r] = Idle
    /\ InTopic + Cardinality({q \in Producer : sending[q] # Idle}) < MaxSends
    /\ sending' = [sending EXCEPT ![r] =
                      [partition |-> p, key |-> key, sequence |-> nextSeq[r][p],
                       left |-> Attempts]]
    /\ roundRobin' = [roundRobin EXCEPT ![r] =
                         IF key = NoKey THEN (@ + 1) % NumPartitions ELSE @]
    /\ UNCHANGED <<brokerVars, nextSeq, groupVars, history>>

\* Seeded fault: a retry is not recognised.
IsRetryNever(r, s) == FALSE

\* The sequence number of a send whose record the log already has.
IsRetry(r, s) == s.sequence = lastSeq[r][s.partition]

\* One attempt: the retry is acknowledged, a new record is appended.  (A gap in
\* the numbers is refused, and a Producer never leaves one: SentOnce.)
Attempt(r) ==
    LET s == sending[r]
        p == s.partition
    IN  /\ sending[r] # Idle
        /\ s.left > 0
        /\ sending' = [sending EXCEPT ![r].left = @ - 1]
        /\ \/ /\ IsRetry(r, s)
              /\ UNCHANGED <<appended, kept, lastSeq>>
           \/ /\ ~IsRetry(r, s)
              /\ appended' = [appended EXCEPT ![p] = Append(@,
                    [key |-> s.key, time |-> clock, producer |-> r, sequence |-> s.sequence])]
              /\ kept' = [kept EXCEPT ![p] = @ \cup {End(p)}]
              /\ lastSeq' = [lastSeq EXCEPT ![r][p] = s.sequence]
        /\ UNCHANGED <<logStart, committed, clock, nextSeq, roundRobin, groupVars, history>>

SendDone(r) ==
    /\ sending[r] # Idle
    /\ sending[r].left = 0
    /\ nextSeq' = [nextSeq EXCEPT ![r][sending[r].partition] = sending[r].sequence + 1]
    /\ sending' = [sending EXCEPT ![r] = Idle]
    /\ UNCHANGED <<brokerVars, roundRobin, groupVars, history>>

-----------------------------------------------------------------------------
(* Broker.compact and Broker.expire                                        *)

\* Unkeyed records and the newest record of each key survive compaction.
Survives(p, o) ==
    \/ Record(p, o).key = NoKey
    \/ \A later \in kept[p] : later > o => Record(p, later).key # Record(p, o).key

Compact ==
    /\ kept' = [p \in Partition |-> {o \in kept[p] : Survives(p, o)}]
    /\ UNCHANGED <<appended, logStart, committed, lastSeq, clock, producerVars, groupVars, history>>

\* Time retention; the log then starts at the first record left.
Expire ==
    /\ kept' = [p \in Partition |-> {o \in kept[p] : Record(p, o).time >= clock - Retention}]
    /\ logStart' = [p \in Partition |-> IF kept'[p] = {} THEN End(p) ELSE Min(kept'[p])]
    /\ UNCHANGED <<appended, committed, lastSeq, clock, producerVars, groupVars, history>>

ClockTicks ==
    /\ clock < MaxClock
    /\ clock' = clock + 1
    /\ UNCHANGED <<appended, kept, logStart, committed, lastSeq, producerVars, groupVars, history>>

-----------------------------------------------------------------------------
(* ConsumerGroup membership: range assignment, eager rebalance             *)

\* sorted(self._members): the places of the members in the order of names.
Sorted == {j \in DOMAIN Members : Members[j] \in members}

\* enumerate(members): how many come before m.
Place(m) == CHOOSE j \in DOMAIN Members : Members[j] = m
Index(m) == Cardinality({j \in Sorted : j < Place(m)})

\* Where the partitions of the i-th member begin: the first "extra" members get
\* one more than the others.
Bound(i) ==
    LET base == NumPartitions \div Cardinality(Sorted)
        extra == NumPartitions % Cardinality(Sorted)
    IN  i * base + (IF i < extra THEN i ELSE extra)

\* The partitions of member m in the present generation, in order.
Assigned(m) ==
    [j \in 1..(Bound(Index(m) + 1) - Bound(Index(m))) |-> Bound(Index(m)) + j - 1]

\* Seeded fault: the members keep their positions.
RebalanceKeepsPositions ==
    /\ poll = Idle
    /\ generation < MaxGeneration
    /\ generation' = generation + 1
    /\ delivered' = [p \in Partition |-> {}] /\ lost' = [p \in Partition |-> {}]
    /\ UNCHANGED <<brokerVars, producerVars, poll, positions>>

Rebalance ==
    /\ poll = Idle
    /\ generation < MaxGeneration
    /\ generation' = generation + 1
    /\ positions' = NoPositions
    /\ delivered' = [p \in Partition |-> {}] /\ lost' = [p \in Partition |-> {}]
    /\ UNCHANGED <<brokerVars, producerVars, poll>>

Join(m) ==
    /\ m \notin members
    /\ members' = members \cup {m}
    /\ Rebalance

\* leave, or a missed heartbeat.
Leave(m) ==
    /\ m \in members
    /\ generation < MaxGeneration - 1  \* bound: somebody can still join
    /\ members' = members \ {m}
    /\ Rebalance

-----------------------------------------------------------------------------
(* ConsumerGroup.poll: for each partition of the member in turn, where to   *)
(* start and then a fetch.  Only the group commits, and under its lock, so  *)
(* what _start_offset reads cannot change before the broker's next call.    *)

\* _start_offset
StartOffset(p) ==
    IF committed[p] # Absent THEN committed[p]
    ELSE IF Reset = "earliest" THEN logStart[p] ELSE End(p)

PollStart(m) ==
    /\ poll = Idle
    /\ m \in members
    /\ Assigned(m) # <<>>
    /\ poll' = [member |-> m, todo |-> Assigned(m), step |-> "locate", position |-> Absent,
                read |-> {}]
    /\ UNCHANGED <<brokerVars, producerVars, members, generation, positions, history>>

Locate ==
    LET p == Head(poll.todo)
        known == positions[poll.member][p]
    IN  /\ poll # Idle
        /\ poll.step = "locate"
        /\ poll.todo # <<>> /\ Cardinality(poll.read) < MaxPoll
        /\ poll' = [poll EXCEPT !.step = "fetch",
                       !.position = IF known # Absent THEN known ELSE StartOffset(p)]
        /\ UNCHANGED <<brokerVars, producerVars, members, generation, positions, history>>

\* Partition.read: the first records from an offset on.
Fetched(p, offset, limit) ==
    {o \in kept[p] : /\ o >= offset
                     /\ Cardinality({e \in kept[p] : offset <= e /\ e < o}) < limit}

\* Seeded faults: the position moves on by one whatever was read, or not at all.
AfterOne(position, offsets) == position + 1
AfterStays(position, offsets) == position

After(position, offsets) == IF offsets = {} THEN position ELSE Max(offsets) + 1

\* A fetch that finds its offset in the log, at the first or the second try.
Fetch ==
    LET p == Head(poll.todo)
        offsets == Fetched(p, poll.position, MaxPoll - Cardinality(poll.read))
    IN  /\ poll # Idle
        /\ poll.step \in {"fetch", "refetch"}
        /\ poll.position >= logStart[p]
        /\ positions' = [positions EXCEPT ![poll.member][p] = After(poll.position, offsets)]
        /\ poll' = [poll EXCEPT !.step = "locate", !.todo = Tail(@), !.position = Absent,
                       !.read = @ \cup {<<p, o>> : o \in offsets}]
        /\ UNCHANGED <<brokerVars, producerVars, members, generation, history>>

\* OffsetOutOfRangeError: ask again where to start.
FetchBelowStart ==
    LET p == Head(poll.todo) IN
    /\ poll # Idle
    /\ poll.step = "fetch"
    /\ poll.position < logStart[p]
    /\ poll' = [poll EXCEPT !.step = "refetch", !.position = StartOffset(p)]
    /\ UNCHANGED <<brokerVars, producerVars, members, generation, positions, history>>

\* What the poll at hand has read is added to the offsets in seen.
WithRead(seen) == [p \in Partition |-> seen[p] \cup {e[2] : e \in {x \in poll.read : x[1] = p}}]

\* OffsetOutOfRangeError again: poll raises, and what it has read is lost to the
\* caller while the positions have moved past it.
PollFails ==
    /\ poll # Idle
    /\ poll.step = "refetch"
    /\ poll.position < logStart[Head(poll.todo)]
    /\ poll' = Idle
    /\ lost' = WithRead(lost)
    /\ UNCHANGED <<brokerVars, producerVars, members, generation, positions, delivered>>

PollReturns ==
    /\ poll # Idle
    /\ poll.step = "locate"
    /\ poll.todo = <<>> \/ Cardinality(poll.read) >= MaxPoll
    /\ poll' = Idle
    /\ delivered' = WithRead(delivered)
    /\ UNCHANGED <<brokerVars, producerVars, members, generation, positions, lost>>

\* ConsumerGroup.commit: the positions of the member become the group's.  A
\* position is at most the end of its log, so Broker.commit refuses none.
Commit(m) ==
    /\ poll = Idle
    /\ m \in members
    /\ committed' = [p \in Partition |->
                        IF p \in Range(Assigned(m)) /\ positions[m][p] # Absent
                        THEN positions[m][p] ELSE committed[p]]
    /\ UNCHANGED <<appended, kept, logStart, lastSeq, clock, producerVars, groupVars, history>>

-----------------------------------------------------------------------------
PollStep == Locate \/ Fetch \/ FetchBelowStart \/ PollFails \/ PollReturns

SendStep(r) == Attempt(r) \/ SendDone(r)

TopicNext ==
    \/ \E r \in Producer : SendStep(r) \/ \E key \in Key \cup {NoKey} : SendStart(r, key)
    \/ Compact \/ Expire \/ ClockTicks
    \/ \E m \in Member : Join(m) \/ Leave(m) \/ PollStart(m) \/ Commit(m)
    \/ PollStep

TopicSpec == TopicInit /\ [][TopicNext]_topicVars

\* The clients' side of the contract: whoever is in the group keeps polling and
\* committing, and gets the group's lock in the end; an empty group gets a member.
TopicFairness ==
    /\ WF_topicVars(PollStep)
    /\ \A r \in Producer : WF_topicVars(SendStep(r))
    /\ \A m \in Member : SF_topicVars(PollStart(m)) /\ SF_topicVars(Commit(m))
    /\ WF_topicVars(members = {} /\ \E m \in Member : Join(m))

FairTopicSpec == TopicSpec /\ TopicFairness

-----------------------------------------------------------------------------
(* Properties                                                              *)

Offset(p) == Absent..End(p)

\* Every variable keeps its type; no position and no committed offset is beyond
\* the end of its log, so the ValidationError of Broker.commit is unreachable.
TopicTypeOK ==
    /\ appended \in [Partition -> Seq(LogRecord)]
    /\ kept \in [Partition -> SUBSET Nat]
    /\ logStart \in [Partition -> Nat]
    /\ committed \in [Partition -> Int]
    /\ lastSeq \in [Producer -> [Partition -> Nat \cup {Absent}]]
    /\ clock \in 0..MaxClock
    /\ nextSeq \in [Producer -> [Partition -> Nat]]
    /\ roundRobin \in [Producer -> Partition]
    /\ sending \in [Producer -> Send \cup {Idle}]
    /\ members \subseteq Member
    /\ generation \in 0..MaxGeneration
    /\ positions \in [Member -> [Partition -> Int]]
    /\ delivered \in [Partition -> SUBSET Nat]
    /\ lost \in [Partition -> SUBSET Nat]
    /\ \A p \in Partition :
          /\ \A o \in 0..(End(p) - 1) : Record(p, o).time <= clock
          /\ kept[p] \subseteq 0..(End(p) - 1)
          /\ logStart[p] <= End(p)
          /\ committed[p] \in Offset(p)
          /\ \A m \in Member : positions[m][p] \in Offset(p)
          /\ delivered[p] \subseteq 0..(End(p) - 1)
    /\ poll \in Poll \cup {Idle}
    /\ poll # Idle =>
          /\ poll.member \in members
          /\ poll.step # "locate" => poll.todo # <<>> /\ poll.position \in Offset(Head(poll.todo))

\* The offsets in p of what r has sent.
Sent(r, p) == {o \in 0..(End(p) - 1) : Record(p, o).producer = r}

\* "The log gets neither duplicates nor holes": what a partition has from one
\* producer are its sends in their order, each once however often it was retried,
\* and the broker never meets a gap in the numbers (ConflictError).
SentOnce ==
    \A r \in Producer, p \in Partition :
        /\ \A o \in Sent(r, p) : Record(p, o).sequence = Cardinality({e \in Sent(r, p) : e < o})
        /\ nextSeq[r][p] \in {Cardinality(Sent(r, p)), Cardinality(Sent(r, p)) - 1}

\* From the start of the log on, a record is missing only if compaction found a
\* newer one of its key, so a reader that starts there ends with the last value of
\* every key; and no record that is left is out of reach before the start.
OnlySupersededAreMissing ==
    \A p \in Partition :
        /\ \A o \in (logStart[p]..(End(p) - 1)) \ kept[p] :
              /\ Record(p, o).key # NoKey
              /\ \E later \in (o + 1)..(End(p) - 1) : Record(p, later).key = Record(p, o).key
        /\ \A o \in kept[p] : o >= logStart[p]

\* Every partition has exactly one owner, and no member two partitions more than
\* another.
OneOwner ==
    members # {} =>
        /\ \A p \in Partition : Cardinality({m \in members : p \in Range(Assigned(m))}) = 1
        /\ \A m, n \in members : Len(Assigned(m)) <= Len(Assigned(n)) + 1

\* Logs and assignment are right between any two broker calls.
BrokerInv == TopicTypeOK /\ SentOnce /\ OnlySupersededAreMissing /\ OneOwner

\* Where the group's next commit of p continues, one of the offset o.
Continues(p, o) == IF committed[p] # Absent THEN committed[p]
                   ELSE IF Reset = "earliest" THEN 0 ELSE o

CommitsDelivered ==
    \A p \in Partition : committed'[p] # committed[p] =>
        /\ committed'[p] >= Continues(p, committed'[p])
        /\ \A o \in kept[p] : Continues(p, committed'[p]) <= o /\ o < committed'[p]
                                => o \in delivered[p] \/ o \in lost[p]

\* At least once, but for what a poll that raised had in hand: the committed
\* offset goes forward only, and each record it goes past was returned by a poll
\* of this generation, or was read by one that then raised and lost it.  So what
\* a member leaves uncommitted goes to the next owner.
CommitIsDelivered == [][CommitsDelivered]_topicVars

ReturnsNews ==
    poll # Idle /\ poll' = Idle /\ lost' = lost =>
        \A e \in poll.read : e[2] \notin delivered[e[1]]

\* No redelivery without a rebalance: within a generation no poll returns a
\* record that an earlier one has returned.
DeliveredOnce == [][ReturnsNews]_topicVars

\* Retention has deleted records the group has not committed.
Overtaken(p) == committed[p] # Absent /\ committed[p] < logStart[p]

\* All that is sent is consumed and committed in the end, whoever comes and goes
\* and dies before committing, unless retention overtakes the group.
AllIsConsumed ==
    \/ <>(\E p \in Partition : Overtaken(p))
    \/ <>[](\A p \in Partition : committed[p] = End(p))
=============================================================================
