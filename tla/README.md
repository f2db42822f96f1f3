# Verification of the handbook's distributed-systems code

The repository teaches system design, and its `code/` directory holds a runnable
Python program for each idea. This project models the programs whose correctness
depends on the order of events: several threads or machines, crashes, lost or late
messages, timeouts and retries. The modules are TLA+; TLC checks them on small
instances, and TLAPS proves the safety properties of all of them for every instance.

Contents: 1 inventory, 2 modules and their correspondence to the code, 3 runs and
bounds, 4 fairness, 5 proofs, 6 where code and documents disagree, 7 what is not
modelled, 8 plan.

## 1. Inventory

All programs keep their state in memory and pass it between threads under locks. Time
comes from an injected clock (`code/common/clock.py`), failures from explicit calls
(`crash`, `fail`, `crash_after`) or from the services a program calls.

| Part | Source (`code/hld/`) | State | Operations | What is hard | What makes it correct |
|---|---|---|---|---|---|
| Two-phase commit | `two_phase_commit.py` | participants: store, lock table, prepare records, applied decisions; coordinator: log of records (decision, acks); crash flags | `Coordinator.run/recover/decision_for/crash/crash_at`, `Participant.prepare/commit/abort/recover/crash/crash_after_vote` | locks are per call, so runs, a recovery and participants' inquiries interleave; either side can crash between any two calls | one outcome per transaction; a YES vote binds; no lost update; doubts end |
| Replicated partition | `partitioned_log.py`, `ReplicatedPartition` | one log per replica, leader, ISR, failed set, when each follower was last caught up | `produce` (acks 0/1/all), `replicate`, `check_isr`, `fail`, `recover`, `fetch` | what an election or a returning replica may throw away, and what consumers have read by then | acknowledged records and what consumers have read stay; in-sync means in sync |
| Raft | `raft_election.py` | term, vote, log (persistent); role, leader, commit index, votes, next and match indexes; messages in flight | timers, `submit`, four message handlers, `crash`, `restart`, `partition` | lost, delayed and overtaking messages; split votes; diverging logs; restarts | one leader a term; what is committed is in every later leader's log and stays |
| Broker, producers, consumer group | `mini_kafka.py` | partitions (records, log start), committed offsets, last sequence of each producer; sequence numbers and round robin of a producer; members, assignment, positions, generation | `append`, `fetch`, `commit`, `compact`, `expire`; `send`; `join`, `leave`, `poll`, `commit` | the broker serves others between the calls of one `send` or `poll`; retention and rebalances overtake readers | retries do not duplicate; compaction keeps the last value; at least once; all is consumed |
| Saga orchestrator | `saga.py` | a durable record per saga: state, context, log entries; the driving thread | `start`, `resume`, attempts, compensations, `crash_after` | the orchestrator dies between any two log writes and steps run again; timeouts tell nothing | done means done; reversal only before the pivot; every saga ends |
| Inventory and checkout | `inventory_reservation.py` | stock rows, holds with a TTL, order index; outbox; the saga's context | `stock_in`, `reserve`, `commit`, `release`, `expire`; the four checkout steps | holds lapse while their saga is under way; two sagas of one order share a hold; the sweep is lazy; `reserve` reads the clock before it has the lock | never oversold; one hold per order; a compensated checkout holds nothing |
| Seat holds, waiting room | `seat_hold.py` | seats with versions, holds, bookings; queue, tickets, admission tokens | `hold`, `confirm`, `release`, `expire_holds`; `join`, `admit`, `require` | takeover between TTL and grace; clocks read before the lock; a hold that lost some of its seats | who pays in time gets the seats; bookings are whole and final; holds end |
| Job scheduler | `cron_scheduler.py` | jobs and their next slots; runs with attempt, availability and lease; a ready and a delayed heap | `tick`, `claim`, `heartbeat`, `complete`, `fail`, `reclaim_expired`; `Worker.run_once` | workers die or outlive their lease; clocks read before the lock decide what is due and what has expired | every run is queued or leased, and ends |
| Idempotency store | `idempotency_store.py` | records with claim token, state and expiry | `begin`, `complete`, `release`, `purge_expired`; `IdempotentHandler.execute` | a handler that outlives its claim; a twin that takes it over | one claim at a time; a stored response stands |
| Lease lock, fenced store | `fencing_lock.py` | leases, token counter; highest token per key | `acquire`, `renew`, `release`, `write` | writes, renewals and releases of clients whose lease has ended | the store never goes back to an older holder's work; a live holder is never refused |
| Circuit breaker, retries | `circuit_breaker.py`, `retry.py` | state, generation, window, trials in flight; permits; the budget's tokens | `acquire`, `record`, `release`, `reset`, `snapshot`, `call`; `Retrier.call`, `RetryBudget` | outcomes of an earlier episode; permits never settled; callers that share a budget between two of its calls | outcomes count in their episode; retries stay a share; the breaker never stays shut |
| Dynamo-style cluster | `kv_cluster.py` | siblings and hints of each node, up flags; contexts at the clients | `put`, `get`, `fail`, `recover`, `anti_entropy` | nodes that miss writes, stand-ins for them, clients that write in an old context | no acknowledged write is lost; strict quorums overlap; homes converge |

The rest of the repository (data structures, sketches, stream arithmetic, the 36
object-oriented exercises of `code/lld`, patterns, documents and tooling) is listed in
`PROJECT.json` with the reason it is left out. The parts interact in three places: the
checkout composes the saga orchestrator with the inventory service and the outbox; the
job scheduler asks for handlers that are idempotent by the identity of the run, which is
what the idempotency store provides; and callers retry through a circuit breaker. Each
composition has a module. The other programs are independent of each other.

## 2. Modules

| Module | Models | Checked by | Proofs |
|---|---|---|---|
| `AtomicCommit` | what an atomic commitment promises, without a protocol | refined by `TwoPhaseCommit` | |
| `TwoPhaseCommit` | `two_phase_commit.py` | `MCTwoPhaseCommit`: `tpc_contention`, `tpc_quiet` | `TwoPhaseCommitProofs` |
| `ReplicatedPartition` | class `ReplicatedPartition` | `MCReplicatedPartition`: `rp_online` | `ReplicatedPartitionProofs` |
| `RaftElection` | `raft_election.py` | `MCRaftElection`: `raft_faults`, `raft_figure8` | `RaftElectionProofs` |
| `MiniKafka` | `mini_kafka.py` | `MCMiniKafka`: `kafka_group` | `StoreProofs` |
| `InventoryReservation` | class `InventoryService` | through `Checkout` | `CheckoutProofs` |
| `Saga` | `SagaOrchestrator`, `SagaLog` | through `Checkout` | `CheckoutProofs` |
| `Checkout` | `build_checkout_saga`: EXTENDS the two above | `MCCheckout`: `checkout` | `CheckoutProofs` |
| `SeatSale` | what a ticket sale promises | refined by `SeatHold` | |
| `SeatHold` | `WaitingRoom`, `SeatInventory` | `MCSeatHold`: `seats` | `SeatHoldProofs` |
| `Turns` | what fenced access promises | refined by `FencingLock` | |
| `FencingLock` | `LeaseLockService`, `FencedStore` | `MCFencingLock`: `fenced` | `StoreProofs` |
| `CircuitBreaker` | `circuit_breaker.py` | through `GuardedCalls` | `GuardedCallsProofs` |
| `GuardedCalls` | `Retrier.call`, `RetryBudget` around it: EXTENDS `CircuitBreaker` | `MCGuardedCalls`: `calls` | `GuardedCallsProofs` |
| `CronScheduler` | class `Scheduler` | through `JobExecution` | `JobExecutionProofs` |
| `IdempotencyStore` | class `IdempotencyStore` | through `JobExecution` | `JobExecutionProofs` |
| `JobExecution` | `Worker`, `IdempotentHandler`: EXTENDS the first, INSTANCEs the second | `MCJobExecution`: `jobs` | `JobExecutionProofs` |
| `KVCluster` | `kv_cluster.py` | `MCKVCluster`: `kv` | `StoreProofs` |

`StoreProofs` holds the proofs of three modules, which share the lemmas on finite sets.
`FencingLock` and `MiniKafka` are written to stand beside another module, hence `LockInit`,
`LockSpec`, `TopicInit`, `TopicSpec` where the others have `Init` and `Spec`.

Definitions that exist only to be compared with a definition of the model (a plausible
slip of the code: a dropped guard, a missing reset) carry the comment `Seeded fault:` and are
used by nothing. Each property has one that breaks it, listed in `PROJECT.json`.

**What is one action.** A `with self._lock` block is one action: nothing can come
between two of its statements, and everything the block does, nested calls included, is
in the action. Where a method consists of several blocks or of several calls to locked
objects, it is several actions and a program counter says which comes next.

- *TwoPhaseCommit.* `Coordinator.run` is `RunStart`, `CollectVote` (one call of `prepare`
  each), `AllVotesIn`, `LogDecision`, `DecisionLogged`; `_broadcast`, which `run` and
  `recover` share, is `SkipParticipant`, `SendDecision`, `RecordAck`, `BroadcastDone` for
  the thread at hand; `recover` is `RecoverStart`, `RecoverRecord`, `RecoverEnd`;
  `Participant.recover` is `RecoverParticipant`, then for each transaction in doubt
  `Inquire` or `InquiryFails` and `ApplyAnswer`. The state of every thread and its local
  variables are state of the model (`pc`, `pos`, `unanimous`, `todo`, `doubts`, `answer`),
  because another thread may act between any two of these.
- *ReplicatedPartition.* Each method holds the lock throughout. A record is the number of
  its `produce`; the time of last catch-up is kept as an age in clock ticks, capped one
  above the limit. `recover` may be called for any replica, up or down, the leader too, as
  in the code. `prompt` is a history variable: no record was produced while a replica was
  down. `Attended` is what is assumed of the calls: some replica stays in sync, and
  `recover` is not called for a leader that has a tail above the high watermark.
- *RaftElection.* A delivered message is one action; what a node sends is put in flight with
  it. `on_message` first adopts a newer term (`Adopt`) and then dispatches; the actions do
  both. Messages on their way form a bag from which any may be delivered next, so they are
  late or overtake each other. A message that will be lost is never put in the bag
  (`Exchange` picks which of those sent leave), and at most `MaxInFlight` are under way at
  once.
- *MiniKafka.* Broker methods are atomic. `send` is one action per attempt, `poll` one per
  broker call (`PollStart`, `Locate`, `Fetch`, `FetchBelowStart`, `PollFails`,
  `PollReturns`), and holds the group's lock from the first to the last. An ack may be lost
  after the broker has appended, which is what `send(attempts=...)` simulates. `Idle` stands
  for "no send" or "no poll under way". The list of members in the order of their names is a
  constant; `Sorted` are the places of the present members in it, and `Bound(i)` is
  `bounds[i]` of `_rebalance`. `delivered` and `lost` are history: what polls of this
  generation returned, and what they had read when they raised.
- *Saga.* Of the log only what `_drive` reads is kept: state, done steps, compensated steps.
  A step's action is three points: the call to a service (`Acts`, `Fails`, `TimesOut`,
  `Raises`), the return (`Returns`), the log entry (`Logs`). The thread may die at any of
  them (`Crash`) and the saga may be resumed (`Resume`); the code's `crash_after` injects
  one of these cases. `Raises` is any exception other than the two the orchestrator knows:
  it leaves `start` or `resume` and the saga as it was.
- *InventoryReservation.* One action for each outcome of each method. `reserve` reads the
  clock before the lock; the reading is the parameter `at` of its actions. Hold numbers are
  positions in `holds`. `received` is history.
- *Checkout.* Each action pairs an outcome of a saga step with the service call that causes
  it; `ActionReturns` is the rest of the step's function, its outbox append. `ReserveStart`
  is the clock reading of `reserve`, which `reading` keeps until the call is over or its
  thread dies: time, the sweeper and the other saga's calls may come in between. The payment
  service is the caller's function: it may charge, decline, or time out with or without
  having charged, and it is idempotent per order.
- *SeatHold.* `hold` is `HoldStart` (the token check and the clock reading, before the lock)
  and `Hold`; `admit` and `expire_holds` are split in the same way. `confirm` is `Book` or
  `ConfirmFails`; calls that only answer are left out. A hold is known by its position in
  `holds`.
- *FencingLock.* Every method is one critical section and one action. `given` is what
  clients remember: all leases ever granted, each of which may renew, release or write at
  any time. That is what a paused process, a delayed packet or a misread clock do.
- *CircuitBreaker, GuardedCalls.* `acquire` and `_settle` are one action each for every
  outcome, with the lazy transition out of open inside them (`AdmitFirstTrial`). Instants
  are kept as ages and a permit's generation as "of this episode or not", so neither time
  nor the number of episodes is bounded. `Retrier.call` is a program counter: between
  `Spend` (the failure is recorded) and `Retry` or `GiveUp` (the budget is asked) other
  callers act. `credit` is history: what the successes so far allow in retries.
- *CronScheduler, IdempotencyStore, JobExecution.* `tick`, `claim`, `reclaim_expired`,
  `begin` and `purge_expired` read the clock before the lock; the model gives the locked
  part the age of the reading, up to `MaxStale`. Instants are kept as the time left until
  them. A worker is a program counter through `run_once` and, inside it,
  `IdempotentHandler.execute`; `Crash` takes it back to the start from anywhere. `effects`
  and `dropped` are history.
- *KVCluster.* One key, whose ring order is a constant: keys share nothing but the up flags.
  The homes are the first N places of that order; `Targets` are the places for which a node
  answers, the home or its stand-in, and `Asked` the first R of them. A version's value is
  the number of its write. Every operation is atomic, as in the code; a client keeps the
  context of its last read for a later write.

## 3. Runs

| Run | Instance and bounds | Question |
|---|---|---|
| `tpc_contention` | 2 transactions over 2 participants and 2 keys; 2 faults | Does the protocol implement `AtomicCommit`, and are locks, prepare records and balances right (`StoreIsRight`), with any two crashes, armed crashes or early recoveries? |
| `tpc_quiet` | the same, `recover()` only while no run is in flight, fair | Does delivery leave nobody in doubt, and does every doubt end? |
| `rp_online` | 3 replicas, 4 records, 3 failures, 1 stalled follower, min ISR 2; `Attended` | Do acknowledged and readable records stay, while some replica is in sync and no leader with a tail is recovered? |
| `raft_faults` | 3 nodes, 2 terms, log of 1, 2 messages in flight, 1 crash | Elections and a leader's bookkeeping under loss, overtaking and a restart. |
| `raft_figure8` | 3 nodes, 4 terms, log of 1, 1 message in flight | Are committed entries kept by every later leader? |
| `kafka_group` | 3 partitions, 2 members, 1 producer, 2 sends with 2 attempts, 3 rebalances, 2 ticks, retention 1 | Sends, compaction, assignment, commits and consumption. |
| `checkout` | 2 sagas of any of 2 orders, 2 skus, TTL 1 in 1 tick, 2 attempts, 1 crash | Stock, holds and sagas under lapses, old clock readings, declines, timeouts and a crash. |
| `seats` | 2 users, 2 seats, 2 holds, TTL 1 and grace 1 in 3 ticks | Does the inventory implement `SeatSale`; is paying in time enough; do holds end? |
| `fenced` | 2 clients, 2 resources, 4 grants, TTL 2 in 4 ticks | Do lock and store implement `Turns`, and is a live holder never refused? |
| `calls` | 2 callers, window, cooldown and slow limit 1, 2 trials, 2 successes to close, budget of 4 | Are outcomes, slots and failures counted right, retries bounded, and does the breaker move on? |
| `jobs` | 1 run, 2 workers, 3 attempts, lease 1, claim 2, response 2, readings up to 1 old | Are runs queued or leased, claims exclusive, responses final, and does the run end? |
| `kv` | 2 homes, 2 spares, W 1, R 2, sloppy or strict, 3 writes, 3 failures | Is any acknowledged write lost or unread, and do the homes converge? |

**Why the bounds are enough to mean something.** Two transactions that share a key and
two participants give every conflict the lock table can see; the two deltas at the
shared key cannot both be applied without crossing the floor, so a dropped lock or floor
check shows. Two faults allow a coordinator and a participant to fail in the same
transaction, or one of them twice. For the partition three failures let the leadership
go round all replicas, with four records some read, some acknowledged and some neither;
`MaxLag` 1 separates a slow follower from an evicted one. Raft's four terms are what the
classical scenario needs in which an entry is on a majority and is still overwritten:
`CommittedOfAnyTerm` (counting replicas of older terms) is found by that run. Three
partitions for two members give one member two, so that a poll spans partitions, and
three rebalances take a partition away and give it back. In the checkout the two units of
the contended sku suffice for two of the first order or one of the second; two sagas are
of one order (a retry) or of two (contention). One tick lets a hold lapse while its saga is
at any point, and with a reading from before it the hold's successor is over when it is
granted; the run reaches three holds, two of them expired, a hold handed out after its time
and one sold after it. What one could miss: three sagas at once, more than one crash of an
orchestrator, a third lapse, longer Raft logs.

Two holds on two seats let a late payer have lost one seat, both or none, before or after
the sweep. Four grants over two resources let each lease be taken over while its old
holder writes. In `calls` nothing but the window, the permits lost per episode and the
budget is bounded, so runs of any length and any number of episodes are covered; two
trial slots can both be lost, or one lost and one handed back. In `jobs` a lease and a
claim of a key can end in either order, since a clock reading may be one old; the claim of
a key outlives the lease of the run and the other way round, and three attempts let a run
fail, be answered 409 and be parked. There is one slot: the misfire policies and the order
of the ready heap, which `CronScheduler` contains, are not exercised (two slots take more
than ten million states). In `kv` three failures take both homes down and bring one back
in between, so that hints for one home lie with two stand-ins and a stand-in has hints
for two homes. Reads of two and writes of one overlap by one node.

The bounds are in the guards of the models and named by constants: `MaxFaults`,
`MaxRecords`, `MaxTerm`, `MaxLog`, `MaxInFlight`, `MaxCrashes`, `MaxSends`, `MaxTime`, `MaxClock`,
`MaxGeneration`, `MaxReceived`, `MaxHolds`, `MaxTickets`, `MaxToken`, `MaxWindow`,
`MaxLost`, `MaxSlots`, `MaxStale`, `MaxWrites`, `MaxFails`. At a bound the model stops,
hence `CHECK_DEADLOCK FALSE` where one ends the whole behaviour. Only the two Raft runs
use symmetry, of nodes that nothing distinguishes, and check safety; elsewhere plans,
orders and the order of names distinguish the constants, or liveness is checked.

## 4. Fairness

- *TwoPhaseCommit.* The steps of a thread that has begun (`RunStep`, `BroadcastStep`,
  `RecoveryStep`, `InquiryStep`) are weakly fair: a Python thread outside a lock is
  scheduled again, and the locks are never kept. A node that is down is restarted by
  someone, which the documents assume of an operator; new transactions and crashes
  are not fair.
- *ReplicatedPartition.* Followers outside `Stalled` keep calling `replicate`, the clock
  goes on, and `check_isr` is called again and again (the broker's timer). Nothing is
  assumed of recoveries, failures or producers.
- *MiniKafka.* A poll or send under way goes on. Each member polls and commits again and
  again; strong fairness, since both need the group's lock, which polls of others keep
  taking and giving back. An empty group gets a member.
- *Checkout.* The thread that drives a saga goes on, and someone resumes a saga whose
  thread died (`resume` exists for that). No fairness for the sweeper, the clock,
  restocking or the start of sagas.
- *SeatHold.* The sweeper runs again and again, and time passes. Nothing is assumed of
  buyers: `HoldsEnd` is what the sweeper guarantees alone.
- *GuardedCalls.* Callers run and time passes. The guarded function comes to an end, and
  not for ever in an ignored exception (strong fairness of `Succeed` or `Fail`, which a
  reset can postpone by a new episode but not prevent); nor do the other callers always
  take the trial slot a caller asks for.
- *JobExecution.* The loops that call `tick` and `reclaim_expired` run, time passes, and
  workers run. A worker may stop at any point and any number of times, so long as it does
  not always stop inside `claim`; nothing is assumed of the purge.
- *KVCluster.* Nodes that are down come back, and any two homes are compared again
  (`anti_entropy` exists for being called from time to time). Nothing is assumed of
  clients.
- *Raft* has no liveness property: the model's elections may split for ever, and the
  code's randomised timeouts only make that improbable.

## 5. Proofs

TLAPS proves the results below for every value of the constants that the assumptions allow:
any numbers of transactions, replicas, nodes, partitions, orders, seats, jobs, clients or
callers, and any bound on faults, terms, time and records. An assumption is named in the
module that declares the constants and evaluated by every run; each says what the program's
types or its constructors guarantee, and the ones worth knowing are given with the theorems.

| Module | Theorem | States |
|---|---|---|
| `TwoPhaseCommitProofs` | `Invariance`, `TypeCorrectness` | `Spec => []IInv`, `[]TypeOK` |
| | `AgreementHolds`, `CommitStaysPossible` | `Spec => []Agreement`, `[]CommitIsPossible` |
| | `StoresStayRight` | `Spec => []StoreIsRight` |
| | `DeliveredReleases` | `QuietSpec => []DeliveredMeansReleased` |
| | `PromiseIsKept`, `DecisionStays` | `Spec => YesIsAPromise`, `DecisionIsFinal` |
| | `Refinement` | `Spec => ImplementsAtomicCommit` |
| `ReplicatedPartitionProofs` | `LeaderStaysAhead`, `AckedStays` | `OnlineSpec => []PartitionInv`, `[]AckedIsKept` |
| | `ElectionsLoseUnacked`, `ReadsAreStable` | `OnlineSpec => LossIsUnacked`, `VisibleIsStable` |
| `RaftElectionProofs` | `AtMostOneLeader` | `Spec => []ElectionSafety` |
| | `LeadersKnow`, `CommittedAgrees` | `Spec => []LeaderKnows`, `[]CommittedIsAgreed` |
| | `CommittedKept` | `Spec => CommittedIsKept` |
| `CheckoutProofs` | `StockIsRight`, `SagasTellTheTruth` | `Spec => []StockInv`, `[]SagaInv` |
| | `HandedOutHoldsAreLive` | `Spec => HandedOutIsLive` |
| `SeatHoldProofs` | `SeatsAgree`, `PayInTime` | `Spec => []SeatInv`, `[]PayingInTimeIsEnough` |
| | `ImplementsSeatSale` | `Spec => ImplementsSale` |
| `GuardedCallsProofs` | `CallsAreSafe`, `RetriesAreBounded` | `Spec => []CallsInv`, `[]RetriesArePaidFor` |
| `JobExecutionProofs` | `RunsAreKept`, `OneWorkerAtATime` | `Spec => []JobsInv`, `[]ClaimsAreExclusive` |
| | `ResponsesStand` | `Spec => ResponseStands` |
| `StoreProofs` | `NoWriteIsLost`, `ReadsSeeWrites` | `KVCluster`: `Spec => []ReplicasInv`, `[]ReadsOverlap` |
| | `FencingHolds`, `Refinement` | `LockSpec => []FencingInv`, `ImplementsTurns` |
| | `LogsAreRight` | `TopicSpec => []BrokerInv` |
| | `CommitsCoverDelivered`, `NoRedelivery` | `TopicSpec => CommitIsDelivered`, `DeliveredOnce` |

`DecisionIsFinal`, `CommitIsPossible` and the two-phase commit's `TypeOK` are steps to the
others and not checked on their own (`IInv`, which `tpc_contention` checks, contains the
invariants).

**Two-phase commit.** Assumptions: plans name each participant at most once and at least
one (a `Mapping` has distinct keys, and `run` rejects an empty plan); balances and deltas
are integers; the value that stands for "no entry" is none of the values it is compared
with. `Agreement` alone is not inductive: from a state where one participant holds an
answer ABORT that nobody logged, the next step breaks it. `IInv` adds

1. `ControlOK`: a thread in the broadcast has a decided transaction;
2. `LogCovers`: only logged transactions are voted on or asked about;
3. `DecisionsComeFromLog`: what a participant applied or is about to apply is the
   logged decision;
4. `VotesAreBacked`: until the decision, each YES counted so far is backed by a prepare
   record: this is what early recoveries and inquiries could destroy, and do not, because
   they first log ABORT, after which the votes no longer count;
5. `CommitIsPossible`: under a logged COMMIT every participant of the plan still has its
   record or has committed.

Two facts carry the step: a step changes the records of at most one participant and one
transaction (`OneRecordStep`), where it takes a vote or applies the logged decision
(`RecordStep`), and a decision is only ever written where there was none
(`DecisionStep`). The refinement follows: a record gained is `Consent`, a decision
applied is `Commit` or `Abort` of the abstract specification, anything else a stutter;
that all members have consented when one commits is `CommitIsPossible`, that nobody has
committed when one aborts is `DecisionsComeFromLog`. `StoreIsRight` is inductive beside
`IInv` with what a record knows of its locks: a prepare record's keys are locked by its
transaction, so no other one moves a balance between its check against the floor and its
commit. `DeliveredMeansReleased` needs a recovery to be late (no run in flight), and then
an acknowledgement is a release that no later vote undoes.

**Sums.** Reserved units and balances are sums over sets. `TwoPhaseCommitProofs` and
`CheckoutProofs` begin with the lemmas on how such a sum
changes when an element is added, changed or split off. The library's induction rules take
an operator and cannot be used, so `InductionOnSet` states induction over the naturals for a
*set* of numbers, from well-foundedness; the lemmas then follow for sets of every finite size.

**Replicated partition.** `OnlineSpec` is the program as long as its calls are `Attended`:
an in-sync replica is left, and the leader is not recovered while it has a tail above the
high watermark. All four theorems assume it; section 6, items 3 and 10, says what happens
otherwise. Recoveries of followers, needless and repeated ones too, are not restricted.
`PartitionInv` becomes inductive with: no live replica is ahead of the leader
(`NooneAhead`); a live replica outside the ISR is behind all in it (`OutIsBehind`); of two
followers in sync the one that caught up longer ago is not ahead (`OlderIsShorter`), so that
an eviction by age does not leave a shorter log behind in the ISR. An election, which takes
a longest log in sync, then loses only what is above the high watermark. `AckedIsCommitted`
and `SameOffset` say that acknowledged records are below it; `AgreeWhilePrompt` says that
until the first divergence logs differ only in length.

**Raft.** Elections first (`Inv`), then the logs (`RaftInv`). `ElectionSafety` holds by the
intersection of two majorities. A vote is in up to three places: on its voter's disk, in
flight, and in the set of its candidate (`Voted`). `VotesAreKept` ties each to the disk, or
to the voter's later term, which a restart does not undo; `VotesAreSingle` follows for a
term; `LeadersAreElected` remembers the majority of a leader after its messages are gone.
Lost, late and reordered messages are one lemma (`ExchangeFacts`): nothing arrives that was
not sent.

What is committed cannot be told from the state alone: a commit was decided by a majority
whose logs may since have been overwritten, by a leader that may since have restarted.
`RaftInv` therefore says that there *is* a history, which no variable keeps: `lead[t]`, the log
of the leader of term t when last seen, and `ack[p][t]`, how much of it p has stored in
term t. Every step extends it (`Grows`): a leader's log only gets longer, by entries of its own
term, and a node acknowledges for the term it is in. What the history says:

1. `Matches` (in `LedOK`, `LogsOK`): every log up to an entry of term t is the start of
   `lead[t]`, so that two entries of one term at one index have equal logs before them; that
   is why merging after a match of index and term (`AcceptedLog`) copies the leader's log;
2. `FlyingOK`: what messages say of terms and logs was true when sent and stays so; a late
   or repeated `AppendEntries` is a fragment of `lead[m.term]`, an acknowledgement is within
   `ack`;
3. `KeptOK`: a node keeps what it acknowledged, until the leader of a later term that lacks
   it overrules it (`Overruled`);
4. `VotesOK`: a vote that may still elect c was given when c's log had what the voter had
   acknowledged, or that was overruled before; this is what the comparison of last term and
   last index buys (`UpToDate`);
5. `SafeOK`: a leader has each entry that a majority stored in the term that wrote it; for
   each that it lacks, a majority has moved to a later term and did not store it, so it will
   never be chosen. This is the part that makes the rest inductive: it speaks of what *may
   yet* be chosen, not only of what is. It holds for the winner of an election by 4 and,
   where a voter's entry was overruled, by itself for the term that overruled it
   (`WinnerIsSafe`);
6. `CommitOK`: a commit index is covered by an entry that a majority stored in the term that
   wrote it (`Decided`), which needs `Committed` to count entries of its own term only.

`LeaderKnows` is then 3 for the leader's own term, which nothing overrules;
`CommittedIsAgreed` is 5 and 6, since two majorities meet (`LeaderHasDecided`);
`CommittedIsKept` holds because a follower that merges a later leader's entries finds its
committed ones among them. A node set of at least two is assumed; the program's lone node
elects itself without a message.

**Inventory, saga, checkout.** `Kind`, `Undoable` are the steps that `build_checkout_saga`
passes to the orchestrator (`CheckoutAssumption`). The books balance: reserved units are the total
of the holds in force, units on hand what came in less what was committed, for a table of
holds of any length (`Books`, with the sums above); the order index points at the order's
own hold, so there is one in force (`BooksBalance`). A saga's log has a shape
(`SagaShape`: written in the order of the steps, never reversed once the charge is in it)
and what it says is so in the services (`SagaCalls`), including the step under way that a
crash will repeat. Service calls of *other* sagas are the interference: `Served` bounds what
one call does to everyone's holds (each keeps its order and, once no longer held, its state;
no sale appears but the caller's), and each saga's facts survive it. None of this depends on
how old a reading `reserve` goes by. `HandedOutHoldsAreLive` does: `ReadingsPast` says that
no reading is ahead of the clock, so a sweep by one expires only holds whose time is up
(`NoneIsSweptEarly`), and what survives the sweep was live at the reading; it may be over
at the time of the answer (section 6, item 11).

**Seats.** The step that matters is a takeover: a hold past its TTL loses a seat row
to a later one, keeps the others, and may still be paid. `RowsMatchHolds` (a row's hold has
that seat, and its version) with `PayingInTimeIsEnough` and `SoldStaysSold` is inductive; a
confirmation bumps nothing it does not own. `SeatSale` is refined by the confirmed holds.
The waiting room's place in the queue is ticket minus served, by `RoomInv`. Assumption:
the value for "nobody" is no number.

**Fenced lock.** "A live holder is never refused" (`LiveWriterIsAccepted`) follows from
`LatestGrant`: the entry of a resource, expired or not, carries the highest token ever
given for it, and the store holds only tokens that were given. With `GrantsAreOrdered` and
the types that is inductive; that several clients write with any lease they ever had is no
case of its own, since the store's token is always one of `given`. For the refinement the
state functions `openBar`, `takenBar` and `shownBar` name what `Turns` sees; a grant opens
a turn, a release or the passing of time ends turns, an accepted write shows one, and a
renewal or a refused write is a stutter. Assumptions: the TTL is a positive number, and
the value that stands for "no entry" is no lease, token or turn.

**Breaker and budget.** `CallsInv` is nearly inductive by itself, its parts being chosen
that way: the trial permits of the episode (`EpisodesAreApart`) and the lost ones are what
the slots count (`SlotsAreCounted`), and the window's failures are recounted as it slides.
For the budget, `BudgetInv` relates what is left above the half to the credit, counting each
caller that has recorded its failure and not yet asked as paid. `RetriesArePaidFor` is
claimed for at most half as many callers as the budget has tokens (`FewCallers`); section 6,
item 9, says why there is no claim beyond. Assumption: finitely many callers.

**Jobs.** `Inv` ties three parties together. The scheduler's part is inductive alone
(`CronInv`: a run that waits is in exactly one heap, unless `claim` dropped it, and is
leased exactly while it runs), but `ClaimsAreExclusive` is not: that a worker's claim lasts
does not yet say that the store still has it. `ClaimStands` does: while a claim has time
left, the record of the run's key is that claim's, in progress, and lasts at least as long;
a twin can take the key over only after the record has lapsed, and then the claim has lapsed
too. Claim tokens come from a counter, so no two workers have the same (`ClaimsDiffer`), and
`complete` and `release` of a late worker, which name another token, leave the twin's record
alone. `ResponsesHaveEffects` and `ReportsHaveEffects` carry an effect from the handler to
the stored response and on to the report. The misfire policies, which the run exercises only
with one slot, are in the proof with any number of slots (`DueFacts`, `TickStep`).
Assumptions: intervals, limits and lifetimes are positive, and "no entry" is no worker,
number, run, claim or record.

**Dynamo-style cluster.** What is lost where is decided by three operations that throw
versions away: `Reconcile` drops what another version dominates, `recover` delivers a
stand-in's hint and deletes its copy, and a put replaces what it saw. Dominance is a strict order
and the versions are finitely many, so every version dropped has a maximal one above it that
stays (`MaximalAbove`, `ReconcileKeeps`); "covered" is the relation that survives this,
equality is not. `Inv` says that every acknowledged write is covered in a home or in a
*hint* (`HomesOrHints`). `NothingIsLost`, which also counts the copies at stand-ins, is not
inductive: `recover` deletes them. For reads `WriteQuorum` keeps W homes that cover each
acknowledged write of a strict cluster, for good, since each step keeps what a home covers;
a get asks R of N homes, and two such sets meet (`ReadCovers`). The overlap is claimed where
the code can promise it, W + R > N and no stand-ins; section 6, item 8, has the rest.
Assumption: the ring names no node twice, and W, R and N fit it.

**Broker and consumer group.** The invariant is in two halves, because the broker serves
its clients between the calls of a poll. `LogInv` knows nothing of the group; of what the
log does, the group's half needs only `LogMoves`: logs get longer, no record comes
back, the start does not go back (`GroupStays`).

1. *Sends.* A retry is recognised by its number alone. `Counted` says why that suffices:
   what r has sent to p is numbered 0, 1, 2, ... in log order, the broker's last number and
   the producer's next one both count these records, the producer one too few exactly while
   the send under way has landed (`Landed`).
2. *Retention.* Times never go back in a log (`LogIsOrdered`), so what `expire` deletes is a
   prefix, and the new start hides nothing that is left (`ExpireStart`).
3. *Assignment.* The partitions of the members are the intervals between consecutive bounds,
   of a division with remainder (`BoundFacts`), and members have the ranks 0, 1, 2, ... in
   the order of their names (`Ranks`): so every partition has one owner (`OneOwnerHolds`).
4. *Delivery.* A position belongs to the owner, is not behind the commit, and all below it
   that the group is still owed has been returned, or read by the poll under way
   (`PositionsAreRight`). While a poll is between two of its calls, `PollIsLocated` says the
   same of the offset it is about to fetch: at that offset or, if retention has moved the
   start past it, at the one the reset policy gives. The second is where a member could skip
   records; that it skips only records that are deleted needs `logStart` to be below every
   record that is left. A poll that raises has moved positions past what it read; those
   records go to `lost`, so that the theorem holds the polls and commits after it to account
   too. `CommitIsDelivered` follows, since no poll is under way when a member commits, and
   `DeliveredOnce`, since what a poll reads is at or past its position, and all delivered
   before is below it (`PollIsOwn`).

Assumptions: at least one partition, attempt, record per poll and tick of retention; no
member is listed twice; `Idle` is no send and no poll.

*Only model-checked:* all liveness (`DoubtsAreResolved`, `AllIsCommitted`, `EverySagaEnds`,
`HoldsEnd`, `BreakerMovesOn`, `AllIsConsumed` and the like: fairness and ENABLED are out of
the provers' reach). Every invariant and every safety property of actions that a run checks
is proved.

## 6. Where the code and its documents disagree

These were met while modelling; TLC gives the counterexample of each when the condition
named in brackets is dropped from the property, and the runs above check what does hold.

1. *Early recovery* (`DeliveredMeansReleased`, without `FairQuietSpec`). `recover()` during
   the voting of a run: the recovery's ABORT reaches a participant before the run's
   `prepare` does; it acknowledges, then votes YES and locks, and nobody tells it again. The
   transaction counts as delivered, the locks stay until the participant restarts, whereas
   `two_phase_commit.py` has a YES voter keep its locks "until the decision arrives".
2. *Divergence* (`InSyncHaveRecord` in `AckedIsKept`, and `VisibleIsStable`, without
   `prompt`). An old leader returns after the new one has moved the high watermark past its
   unreplicated tail. Nothing is truncated, and it rejoins the ISR with another record at
   the same offset.
3. *Empty ISR* (`AckedIsKept`, without the conjunct of `Attended` that keeps one replica
   in sync). The last in-sync replica fails, the high watermark reads 0, and returning
   replicas truncate records that `acks=all` had confirmed.
4. *Retention overtakes a group* (`AllIsConsumed`, without `Overtaken`). The reset policy
   answers the committed offset again, and `poll` raises, now and ever after. If it had read
   an earlier partition by then, the position there has moved past records it never returned
   (`CommitIsDelivered`, without `lost`): the member's next `commit` covers them and nobody
   gets them, while the class says "polled-but-uncommitted records are redelivered".
5. *A hold lost after the charge* (`EverySagaEnds`, without its exception). A hold lapses
   and is swept between the charge and the commit. `commit` raises an exception that the
   orchestrator does not know; the paid saga is neither completed nor parked as STUCK, and
   every resume raises again.
6. *A dropped run* (`RunsEnd`, without `dropped`). `claim` reads the clock before the lock.
   A thread that then waits while `tick` makes a run for a later instant, or promotes one,
   pops that run, finds it not yet available, and puts it back nowhere. Its state stays
   PENDING and nobody ever claims it; the module says "delivery is therefore at-least-once".
7. *Writes superseded unseen.* `put` without a context "becomes a sibling of anything
   concurrent", and the store "keeps both versions as siblings instead of guessing a
   winner". But the new version's counter goes past everything its coordinator stores, and
   so, whenever what is stored there has no counter of another node's, a blind or stale
   write supersedes versions that its writer never saw.
8. *Sloppy reads.* "With W + R > N every read overlaps the latest write" holds for a strict
   quorum only (`ReadsOverlap`): stand-ins answer reads, and `recover` takes away a
   stand-in's copy although it may stand in for a second home that is still down.
9. *The retry budget.* `retry.py` says "the extra load a retrying fleet can add is bounded at
   ~10%". Every failure is recorded and the bucket asked in two steps, and the bucket stops at
   0. Once more callers than half the budget has tokens record a failure before any of them
   asks, the bucket stops at 0 and forgets what they took; each success then earns a tenth
   as before, but the balance no longer covers all who wait. `RetriesArePaidFor` therefore
   claims the bound, half a budget and one retry per caller beyond the tenths, only for
   callers that are fewer (`FewCallers`).
10. *Recovering the leader* (`PartitionInv`, `AckedIsKept`, `VisibleIsStable`, without the
    second conjunct of `Attended`). `recover` does not ask whether the replica was down. A
    leads and has produced r1 with `acks=1`; B fetches it, C does not; `recover(A)` cuts A
    back to the high watermark, 0, and B, in sync, is longer than its leader. A produce of r2
    with `acks=all` then counts B, which has r1 at that offset, as caught up, by length, and
    is confirmed; if A fails and B is elected, the leader's log has r1 in place of r2. No
    record was produced while a replica was down. The docstring of `high_watermark` says
    "below it, every in-sync replica has the record", that of `recover` "bring a replica
    back".
11. *An old reading in `reserve`* (`HandedOutIsLive`, with `now` for `reading[s]`). `reserve`
    reads the clock before it takes the lock, and sweeps and grants by that reading. A thread
    that waits for the lock while a hold's time runs out is handed that hold as live, or
    grants one that is over from the start; the next sweep takes it, if no commit comes
    first. The docstring says that "a hold whose TTL lapsed but which no sweeper has touched
    yet is expired before it can be mistaken for a live one".

One remark on what is promised nowhere. The compensation of the checkout's pivot,
`refund_payment`, is never run (`SagaInv`), so a charge whose answer times out until the
attempts are used up is not given back when the reservation is.

## 7. What is not modelled

- In the modelled files: byte sizes and segments of a log (`SegmentedLog`), record
  values, metrics and descriptions, argument checks that reject a call before any state
  changes, `Outbox.relay`, `expected_versions` (the checkout never passes it),
  `FlashSaleCounter`, the toy services and `order_saga` of `saga.py`, Raft's
  simulated network delays, which are any order here, `RoomTypeInventory` of
  `seat_hold.py`, the unchecked `FencedStore`, the breaker's listener and the counters of
  reports, the lengths of retry delays, jobs added or disabled while the scheduler runs,
  and idempotency keys used with another payload.
- The other components of `PROJECT.json`. Most are sequential data structures, numeric
  code or hashing, where tests reach what a model would; the ones marked as planned are
  in section 8.

## 8. Plan

In this order, the most valuable first:

1. `order_saga` on the `Saga` module: two compensations in reverse order, STUCK sagas.
2. `SegmentedLog` as functions, checked against a plain sequence.
3. `cache_stampede` (single-flight loading, leases on a key) and
   `payment_gateway_wallet` (holds, captures, webhooks delivered late or twice).
