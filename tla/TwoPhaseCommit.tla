---------------------------- MODULE TwoPhaseCommit ----------------------------
(***************************************************************************)
(* code/hld/two_phase_commit.py: a Coordinator and its Participants, all   *)
(* in one process, called from several threads and crashed by flags.       *)
(*                                                                         *)
(* Every critical section of the code (a "with self._lock" block) is one   *)
(* action, so what may happen between two of them is exactly what other    *)
(* threads may do there.  One caller thread drives run(t) for each         *)
(* transaction t, one operator thread drives Coordinator.recover, and one  *)
(* thread per participant drives Participant.recover.                      *)
(***************************************************************************)
EXTENDS Integers, Sequences, FiniteSets, FiniteSetsExt

CONSTANTS
    Tx,            \* transaction ids; the caller thread of run(t) is named t
    Participant,   \* the registered resource managers
    Key,           \* the keys of the participants' stores
    Plan,          \* Plan[t]: the participants of t, in the order of the plan
    Delta,         \* Delta[t][p]: key -> change, the plan's entry for p
    Balance,       \* Balance[p][k]: the initial value of k at p
    Floor,         \* no value may drop below it
    Recoverer,     \* the thread that runs Coordinator.recover
    None,          \* "no entry" in the code's dictionaries
    MaxFaults      \* bound: crashes, armed crashes and recoveries of a node
                   \* that is up, in one behaviour

Participants(t) == {Plan[t][i] : i \in 1..Len(Plan[t])}

ASSUME PlanAssumption ==
    /\ Plan \in [Tx -> Seq(Participant)]
    /\ \A t \in Tx : /\ Len(Plan[t]) > 0
                     /\ \A i, j \in 1..Len(Plan[t]) : Plan[t][i] = Plan[t][j] => i = j

ASSUME DataAssumption ==
    /\ Floor \in Int
    /\ Balance \in [Participant -> [Key -> Int]]
    /\ \A t \in Tx, p \in Participant :
          /\ DOMAIN Delta[t][p] \subseteq Key
          /\ \A k \in DOMAIN Delta[t][p] : Delta[t][p][k] \in Int

ASSUME NameAssumption ==
    /\ Recoverer \notin Tx
    /\ None \notin Tx
    /\ None \notin {"commit", "abort", "before", "after"}
    /\ \A K \in SUBSET Key : None \notin [K -> Int]
    /\ MaxFaults \in Nat

VARIABLES
    \* Participant: durable store, WAL of prepare records, decisions; lock table
    data,          \* data[p][k]
    locks,         \* locks[p][k]: the transaction holding k, or None
    prepared,      \* prepared[p][t]: the values to apply on commit, or None
    decided,       \* decided[p][t]: the decision p applied, or None
    down,          \* down[p]
    crashAfterVote,\* crashAfterVote[p]: the armed crash of the next prepare
    doubts,        \* doubts[p]: what Participant.recover has still to ask about
    answer,        \* answer[p]: <<t, decision>> obtained and not yet applied
    \* Coordinator: durable log, crash flags
    logged,        \* transactions with a TxRecord
    decision,      \* decision[t] of the record, None while undecided
    acked,         \* acked[t] of the record
    coordDown,
    crashAt,       \* "before", "after" or None: the armed crash of the next run
    \* the threads inside run, _broadcast and Coordinator.recover
    pc, pos,       \* per thread: where it is, index of the participant it is at
    unanimous,     \* unanimous[t]: every vote collected so far is YES
    todo, current, \* Coordinator.recover: records left, the one being resent
    faults         \* crashes, armed crashes, needless recoveries so far (bound)

partVars  == <<data, locks, prepared, decided>>
failVars  == <<down, crashAfterVote, doubts, answer>>
logVars   == <<logged, decision, acked>>
coordVars == <<coordDown, crashAt>>
runVars   == <<pc, pos, unanimous>>
recVars   == <<todo, current>>
vars == <<partVars, failVars, logVars, coordVars, runVars, recVars, faults>>

Thread == Tx \cup {Recoverer}
Decision == {"commit", "abort"}
Keys(t, p) == DOMAIN Delta[t][p]

\* The transaction a thread inside _broadcast works for.
Job(th) == IF th = Recoverer THEN current ELSE th

Delivered(t) == decision[t] # None /\ Participants(t) \subseteq acked[t]

Init ==
    /\ data = Balance
    /\ locks = [p \in Participant |-> [k \in Key |-> None]]
    /\ prepared = [p \in Participant |-> [t \in Tx |-> None]]
    /\ decided = [p \in Participant |-> [t \in Tx |-> None]]
    /\ down = [p \in Participant |-> FALSE]
    /\ crashAfterVote = [p \in Participant |-> FALSE]
    /\ doubts = [p \in Participant |-> {}]
    /\ answer = [p \in Participant |-> None]
    /\ logged = {}
    /\ decision = [t \in Tx |-> None]
    /\ acked = [t \in Tx |-> {}]
    /\ coordDown = FALSE
    /\ crashAt = None
    /\ pc = [th \in Thread |-> "idle"]
    /\ pos = [th \in Thread |-> 1]
    /\ unanimous = [t \in Tx |-> TRUE]
    /\ todo = {}
    /\ current = None
    /\ faults = 0

-----------------------------------------------------------------------------
(* Participant                                                             *)

\* _apply_locked: pop the prepare record, apply it on COMMIT, free the locks.
Apply(p, t, d) ==
    /\ data' = IF d = "commit" /\ prepared[p][t] # None
               THEN [data EXCEPT ![p] = [k \in Key |->
                        IF k \in Keys(t, p) THEN prepared[p][t][k] ELSE data[p][k]]]
               ELSE data
    /\ prepared' = [prepared EXCEPT ![p][t] = None]
    /\ locks' = [locks EXCEPT ![p] = [k \in Key |->
                    IF locks[p][k] = t THEN None ELSE locks[p][k]]]
    /\ decided' = [decided EXCEPT ![p][t] = d]

NewValues(p, t) == [k \in Keys(t, p) |-> data[p][k] + Delta[t][p][k]]

\* Seeded fault: prepare without its lock check.
RefusesNotForLocks(p, t) == \E k \in Keys(t, p) : NewValues(p, t)[k] < Floor

\* The two refusals of prepare: a key locked by another transaction, a value
\* below the floor.
Refuses(p, t) ==
    \/ \E k \in Keys(t, p) : locks[p][k] \notin {None, t}
    \/ \E k \in Keys(t, p) : NewValues(p, t)[k] < Floor

\* A YES vote: take the locks, write the prepare record, die if a crash is armed.
VoteYes(p, t) ==
    /\ ~Refuses(p, t)
    /\ locks' = [locks EXCEPT ![p] = [k \in Key |->
                    IF k \in Keys(t, p) THEN t ELSE locks[p][k]]]
    /\ prepared' = [prepared EXCEPT ![p][t] = NewValues(p, t)]
    /\ crashAfterVote' = [crashAfterVote EXCEPT ![p] = FALSE]
    /\ down' = [down EXCEPT ![p] = crashAfterVote[p]]
    /\ UNCHANGED <<data, decided, doubts, answer, unanimous>>

\* A retried prepare answers as the first time.
VoteAgain(p, t) ==
    /\ prepared[p][t] # None
    /\ UNCHANGED <<partVars, failVars, unanimous>>

\* NO, or no answer because p is down: the coordinator counts both as NO.
VoteNo(p, t) ==
    /\ down[p] \/ Refuses(p, t)
    /\ unanimous' = [unanimous EXCEPT ![t] = FALSE]
    /\ UNCHANGED <<partVars, failVars>>

-----------------------------------------------------------------------------
(* Coordinator.run                                                         *)

\* The first critical section of run: a fresh record, no decision yet.
RunStart(t) ==
    /\ pc[t] = "idle"
    /\ ~coordDown
    /\ t \notin logged
    /\ logged' = logged \cup {t}
    /\ pc' = [pc EXCEPT ![t] = "voting"]
    /\ UNCHANGED <<partVars, failVars, decision, acked, coordVars, pos,
                   unanimous, recVars, faults>>

\* One prepare call of _collect_votes.
CollectVote(t) ==
    LET p == Plan[t][pos[t]] IN
    /\ pc[t] = "voting"
    /\ pos[t] <= Len(Plan[t])
    /\ \/ ~down[p] /\ VoteAgain(p, t)
       \/ ~down[p] /\ prepared[p][t] = None /\ VoteYes(p, t)
       \/ (down[p] \/ prepared[p][t] = None) /\ VoteNo(p, t)
    /\ pos' = [pos EXCEPT ![t] = @ + 1]
    /\ UNCHANGED <<logVars, coordVars, pc, recVars, faults>>

\* _maybe_crash(point): an armed crash takes the coordinator down and ends the run.
MaybeCrash(t, point, next) ==
    \/ /\ crashAt = point
       /\ crashAt' = None
       /\ coordDown' = TRUE
       /\ pc' = [pc EXCEPT ![t] = "crashed"]
    \/ /\ crashAt # point
       /\ pc' = [pc EXCEPT ![t] = next]
       /\ UNCHANGED coordVars

AllVotesIn(t) ==
    /\ pc[t] = "voting"
    /\ pos[t] > Len(Plan[t])
    /\ MaybeCrash(t, "before", "logging")
    /\ pos' = [pos EXCEPT ![t] = 1]
    /\ UNCHANGED <<partVars, failVars, logVars, unanimous, recVars, faults>>

\* Seeded fault: the decision of run overwrites the abort of an inquiry.
LogDecisionBlindly(t) ==
    /\ pc[t] = "logging"
    /\ decision' = [decision EXCEPT ![t] = IF unanimous[t] THEN "commit" ELSE "abort"]
    /\ pc' = [pc EXCEPT ![t] = "decided"]
    /\ UNCHANGED <<partVars, failVars, logged, acked, coordVars, pos,
                   unanimous, recVars, faults>>

\* The commit point, unless an inquiry or a recovery has already aborted t.
LogDecision(t) ==
    /\ pc[t] = "logging"
    /\ decision' = [decision EXCEPT ![t] =
                       IF @ # None THEN @
                       ELSE IF unanimous[t] THEN "commit" ELSE "abort"]
    /\ pc' = [pc EXCEPT ![t] = "decided"]
    /\ UNCHANGED <<partVars, failVars, logged, acked, coordVars, pos,
                   unanimous, recVars, faults>>

DecisionLogged(t) ==
    /\ pc[t] = "decided"
    /\ MaybeCrash(t, "after", "broadcast")
    /\ UNCHANGED <<partVars, failVars, logVars, pos, unanimous, recVars, faults>>

-----------------------------------------------------------------------------
(* Coordinator._broadcast, called by run and by Coordinator.recover        *)

\* Seeded fault: a participant that did not answer is recorded as acked.
SkipCountsAsAck(th) ==
    LET t == Job(th)
        p == Plan[t][pos[th]]
    IN  /\ pc[th] = "broadcast"
        /\ pos[th] <= Len(Plan[t])
        /\ p \in acked[t] \/ down[p]
        /\ pos' = [pos EXCEPT ![th] = @ + 1]
        /\ acked' = [acked EXCEPT ![t] = @ \cup {p}]
        /\ UNCHANGED <<partVars, failVars, logged, decision, coordVars, pc,
                       unanimous, recVars, faults>>

\* Nothing to send to this participant, or it does not answer: go on.
SkipParticipant(th) ==
    LET t == Job(th)
        p == Plan[t][pos[th]]
    IN  /\ pc[th] = "broadcast"
        /\ pos[th] <= Len(Plan[t])
        /\ p \in acked[t] \/ down[p]
        /\ pos' = [pos EXCEPT ![th] = @ + 1]
        /\ UNCHANGED <<partVars, failVars, logVars, coordVars, pc, unanimous,
                       recVars, faults>>

\* Participant.commit raises InvalidStateError: it holds no prepare record of t
\* and has not committed t before.
CommitRefused(p, t) ==
    /\ decision[t] = "commit"
    /\ prepared[p][t] = None
    /\ decided[p][t] # "commit"

\* participant.commit(t) or participant.abort(t).
SendDecision(th) ==
    LET t == Job(th)
        p == Plan[t][pos[th]]
    IN  /\ pc[th] = "broadcast"
        /\ pos[th] <= Len(Plan[t])
        /\ p \notin acked[t]
        /\ ~down[p]
        /\ \/ /\ CommitRefused(p, t)
              /\ pc' = [pc EXCEPT ![th] = "error"]
              /\ UNCHANGED partVars
           \/ /\ ~CommitRefused(p, t)
              /\ Apply(p, t, decision[t])
              /\ pc' = [pc EXCEPT ![th] = "ack"]
        /\ UNCHANGED <<failVars, logVars, coordVars, pos, unanimous, recVars, faults>>

\* record.acked.add(name), in a critical section of its own.
RecordAck(th) ==
    LET t == Job(th) IN
    /\ pc[th] = "ack"
    /\ acked' = [acked EXCEPT ![t] = @ \cup {Plan[t][pos[th]]}]
    /\ pos' = [pos EXCEPT ![th] = @ + 1]
    /\ pc' = [pc EXCEPT ![th] = "broadcast"]
    /\ UNCHANGED <<partVars, failVars, logged, decision, coordVars, unanimous,
                   recVars, faults>>

BroadcastDone(th) ==
    /\ pc[th] = "broadcast"
    /\ pos[th] > Len(Plan[Job(th)])
    /\ pc' = [pc EXCEPT ![th] = IF th = Recoverer THEN "next" ELSE "done"]
    /\ pos' = [pos EXCEPT ![th] = 1]
    /\ current' = IF th = Recoverer THEN None ELSE current
    /\ UNCHANGED <<partVars, failVars, logVars, coordVars, unanimous, todo, faults>>

-----------------------------------------------------------------------------
(* Coordinator.crash, crash_at and recover                                 *)

SpendUnless(free) ==
    IF free THEN UNCHANGED faults ELSE faults < MaxFaults /\ faults' = faults + 1

\* crash() only raises a flag: a run that is past its first check goes on.
CrashCoordinator ==
    /\ faults < MaxFaults
    /\ ~coordDown
    /\ coordDown' = TRUE
    /\ faults' = faults + 1
    /\ UNCHANGED <<partVars, failVars, logVars, crashAt, runVars, recVars>>

ArmCoordinatorCrash(point) ==
    /\ faults < MaxFaults
    /\ crashAt = None
    /\ crashAt' = point
    /\ faults' = faults + 1
    /\ UNCHANGED <<partVars, failVars, logVars, coordDown, runVars, recVars>>

DisarmCoordinatorCrash ==
    /\ crashAt # None
    /\ crashAt' = None
    /\ UNCHANGED <<partVars, failVars, logVars, coordDown, runVars, recVars, faults>>

\* recover(): up again, with a snapshot of the records.
RecoverStart ==
    /\ pc[Recoverer] = "idle"
    /\ SpendUnless(coordDown)
    /\ coordDown' = FALSE
    /\ todo' = logged
    /\ pc' = [pc EXCEPT ![Recoverer] = "next"]
    /\ UNCHANGED <<partVars, failVars, logVars, crashAt, pos, unanimous, current>>

\* One turn of recover's loop: presume abort, resend what is not delivered.
RecoverRecord(t) ==
    /\ pc[Recoverer] = "next"
    /\ t \in todo
    /\ todo' = todo \ {t}
    /\ decision' = [decision EXCEPT ![t] = IF @ = None THEN "abort" ELSE @]
    /\ \/ /\ Delivered(t)
          /\ UNCHANGED <<pc, current>>
       \/ /\ ~Delivered(t)
          /\ pc' = [pc EXCEPT ![Recoverer] = "broadcast"]
          /\ current' = t
    /\ UNCHANGED <<partVars, failVars, logged, acked, coordVars, pos, unanimous, faults>>

RecoverEnd ==
    /\ pc[Recoverer] = "next"
    /\ todo = {}
    /\ pc' = [pc EXCEPT ![Recoverer] = "idle"]
    /\ UNCHANGED <<partVars, failVars, logVars, coordVars, pos, unanimous, recVars, faults>>

-----------------------------------------------------------------------------
(* Participant.crash, crash_after_vote and recover                         *)

CrashParticipant(p) ==
    /\ faults < MaxFaults
    /\ ~down[p]
    /\ down' = [down EXCEPT ![p] = TRUE]
    /\ faults' = faults + 1
    /\ UNCHANGED <<partVars, crashAfterVote, doubts, answer, logVars, coordVars,
                   runVars, recVars>>

ArmParticipantCrash(p) ==
    /\ faults < MaxFaults
    /\ ~crashAfterVote[p]
    /\ crashAfterVote' = [crashAfterVote EXCEPT ![p] = TRUE]
    /\ faults' = faults + 1
    /\ UNCHANGED <<partVars, down, doubts, answer, logVars, coordVars, runVars, recVars>>

InDoubt(p) == {t \in Tx : prepared[p][t] # None}

\* Seeded fault: a participant comes back without asking.
RecoverWithoutAsking(p) ==
    /\ doubts[p] = {} /\ answer[p] = None
    /\ down[p] \/ InDoubt(p) # {}
    /\ SpendUnless(down[p])
    /\ down' = [down EXCEPT ![p] = FALSE]
    /\ UNCHANGED <<partVars, crashAfterVote, doubts, answer, logVars, coordVars,
                   runVars, recVars>>

\* recover(): up again, with a snapshot of the transactions in doubt.
RecoverParticipant(p) ==
    /\ doubts[p] = {} /\ answer[p] = None
    /\ down[p] \/ InDoubt(p) # {}
    /\ SpendUnless(down[p])
    /\ down' = [down EXCEPT ![p] = FALSE]
    /\ doubts' = [doubts EXCEPT ![p] = InDoubt(p)]
    /\ UNCHANGED <<partVars, crashAfterVote, answer, logVars, coordVars, runVars,
                   recVars>>

\* decision_for: an inquiry aborts an undecided transaction; a transaction the
\* log does not know was never committed.
Inquire(p, t) ==
    /\ t \in doubts[p] /\ answer[p] = None
    /\ ~coordDown
    /\ decision' = [decision EXCEPT ![t] =
                       IF t \in logged /\ @ = None THEN "abort" ELSE @]
    /\ answer' = [answer EXCEPT ![p] =
                     <<t, IF t \in logged THEN decision'[t] ELSE "abort">>]
    /\ doubts' = [doubts EXCEPT ![p] = @ \ {t}]
    /\ UNCHANGED <<partVars, down, crashAfterVote, logged, acked, coordVars,
                   runVars, recVars, faults>>

\* Seeded fault: no answer from the coordinator is taken for an abort.
InquiryFailureAborts(p) ==
    /\ answer[p] = None
    /\ coordDown
    /\ \E t \in doubts[p] :
          /\ Apply(p, t, "abort")
          /\ doubts' = [doubts EXCEPT ![p] = @ \ {t}]
    /\ UNCHANGED <<down, crashAfterVote, answer, logVars, coordVars, runVars,
                   recVars, faults>>

\* The coordinator is down: recover returns, the rest stays in doubt.
InquiryFails(p) ==
    /\ doubts[p] # {} /\ answer[p] = None
    /\ coordDown
    /\ doubts' = [doubts EXCEPT ![p] = {}]
    /\ UNCHANGED <<partVars, down, crashAfterVote, answer, logVars, coordVars,
                   runVars, recVars, faults>>

ApplyAnswer(p) ==
    /\ answer[p] # None
    /\ Apply(p, answer[p][1], answer[p][2])
    /\ answer' = [answer EXCEPT ![p] = None]
    /\ UNCHANGED <<down, crashAfterVote, doubts, logVars, coordVars, runVars,
                   recVars, faults>>

-----------------------------------------------------------------------------
RunStep(t) ==
    \/ CollectVote(t) \/ AllVotesIn(t) \/ LogDecision(t) \/ DecisionLogged(t)

BroadcastStep(th) ==
    \/ SkipParticipant(th) \/ SendDecision(th) \/ RecordAck(th) \/ BroadcastDone(th)

RecoveryStep == RecoverEnd \/ \E t \in Tx : RecoverRecord(t)

InquiryStep(p) ==
    InquiryFails(p) \/ ApplyAnswer(p) \/ \E t \in Tx : Inquire(p, t)

Crash ==
    \/ CrashCoordinator
    \/ DisarmCoordinatorCrash
    \/ \E point \in {"before", "after"} : ArmCoordinatorCrash(point)
    \/ \E p \in Participant : CrashParticipant(p) \/ ArmParticipantCrash(p)

Next ==
    \/ \E t \in Tx : RunStart(t) \/ RunStep(t)
    \/ \E th \in Thread : BroadcastStep(th)
    \/ RecoverStart
    \/ RecoveryStep
    \/ \E p \in Participant : RecoverParticipant(p) \/ InquiryStep(p)
    \/ Crash

Spec == Init /\ [][Next]_vars

-----------------------------------------------------------------------------
(* recover() called only while no run is in flight: what a crash that kills *)
(* the coordinator's process would guarantee, and what crash() does not.    *)

NoRunInFlight == \A t \in Tx : pc[t] \in {"idle", "done", "crashed"}

QuietNext == Next /\ (RecoverStart => NoRunInFlight)

\* Threads keep running, and somebody restarts a node that is down.
Fairness ==
    /\ \A t \in Tx : WF_vars(RunStep(t))
    /\ \A th \in Thread : WF_vars(BroadcastStep(th))
    /\ WF_vars(RecoveryStep)
    /\ \A p \in Participant : WF_vars(InquiryStep(p))
    /\ WF_vars(coordDown /\ NoRunInFlight /\ RecoverStart)
    /\ \A p \in Participant : WF_vars(down[p] /\ RecoverParticipant(p))

QuietSpec == Init /\ [][QuietNext]_vars
FairQuietSpec == QuietSpec /\ Fairness

-----------------------------------------------------------------------------
(* Properties                                                              *)

\* Every variable keeps its type.
TypeOK ==
    /\ data \in [Participant -> [Key -> Int]]
    /\ locks \in [Participant -> [Key -> Tx \cup {None}]]
    /\ DOMAIN prepared = Participant
    /\ \A p \in Participant :
          /\ DOMAIN prepared[p] = Tx
          /\ \A t \in Tx : prepared[p][t] \in [Keys(t, p) -> Int] \cup {None}
    /\ decided \in [Participant -> [Tx -> Decision \cup {None}]]
    /\ down \in [Participant -> BOOLEAN]
    /\ crashAfterVote \in [Participant -> BOOLEAN]
    /\ doubts \in [Participant -> SUBSET Tx]
    /\ answer \in [Participant -> (Tx \X Decision) \cup {None}]
    /\ logged \in SUBSET Tx
    /\ decision \in [Tx -> Decision \cup {None}]
    /\ acked \in [Tx -> SUBSET Participant]
    /\ coordDown \in BOOLEAN
    /\ crashAt \in {"before", "after", None}
    /\ pc \in [Thread -> {"idle", "voting", "logging", "decided", "broadcast", "ack",
                          "next", "done", "crashed", "error"}]
    /\ pos \in [Thread -> Nat \ {0}]
    /\ unanimous \in [Tx -> BOOLEAN]
    /\ todo \in SUBSET Tx
    /\ current \in Tx \cup {None}
    /\ faults \in Nat

\* Atomic commit: no participant applies COMMIT where another applied ABORT, in
\* whatever order votes, faults, inquiries and both broadcasts interleave.
Agreement ==
    \A t \in Tx, p, q \in Participant :
        ~(decided[p][t] = "commit" /\ decided[q][t] = "abort")

\* Once COMMIT is logged, every participant of the plan still has its prepare
\* record or has committed: the InvalidStateError of Participant.commit is
\* unreachable, so no _broadcast dies half way.
CommitIsPossible ==
    \A t \in Tx : decision[t] = "commit" =>
        \A p \in Participants(t) : prepared[p][t] # None \/ decided[p][t] = "commit"

\* A key is locked by t exactly while t is prepared there and writes it: a lock
\* neither outlives its prepare record nor is missing under one.
LocksMatchPrepared ==
    \A p \in Participant, t \in Tx, k \in Key :
        locks[p][k] = t <=> (prepared[p][t] # None /\ k \in Keys(t, p))

\* The transactions committed at p that change k there.
Writers(p, k) == {t \in Tx : decided[p][t] = "commit" /\ k \in Keys(t, p)}

\* No lost update, no double apply: every value is the initial balance plus the
\* deltas of the transactions committed at that participant, each counted once.
BalancesAddUp ==
    \A p \in Participant, k \in Key :
        data[p][k] = Balance[p][k] + SumFunction([t \in Writers(p, k) |-> Delta[t][p][k]])

\* The floor that prepare checks still holds when the values are applied, however
\* much later that is.
FloorRespected ==
    \A p \in Participant, k \in Key :
        Balance[p][k] >= Floor => data[p][k] >= Floor

\* The stores are right at every moment, whatever is prepared, retried or applied
\* twice: locks and prepare records agree, balances add up, no floor is broken.
StoreIsRight == LocksMatchPrepared /\ BalancesAddUp /\ FloorRespected

\* The promise of a YES vote: a prepare record is given up only for a decision
\* the coordinator has logged, never by the participant alone.
PromiseStep ==
    \A p \in Participant, t \in Tx :
        prepared[p][t] # None /\ prepared'[p][t] = None =>
            decision[t] # None /\ decided'[p][t] = decision[t]
YesIsAPromise == [][PromiseStep]_vars

\* A decision, once in the log, is never replaced.
DecisionIsFinal ==
    [][\A t \in Tx : decision[t] # None => decision'[t] = decision[t]]_vars

\* What a participant has made of t: the decision it applied, or else whether it
\* holds a prepare record.
OutcomeOf(t, p) ==
    IF decided[p][t] = "commit" THEN "committed"
    ELSE IF decided[p][t] = "abort" THEN "aborted"
    ELSE IF prepared[p][t] # None THEN "prepared"
    ELSE "working"

Promise == INSTANCE AtomicCommit
    WITH Members <- [t \in Tx |-> Participants(t)],
         outcome <- [t \in Tx |-> [p \in Participant |-> OutcomeOf(t, p)]]

\* The protocol, with its crashes, retries and inquiries, implements atomic
\* commitment: a commit only with everybody's consent, an abort only while
\* nobody has committed, and no way back from either.
ImplementsAtomicCommit == Promise!Spec

\* "A YES voter keeps its locks until the decision arrives": a transaction whose
\* decision every participant has acknowledged leaves no participant in doubt.
DeliveredMeansReleased ==
    \A t \in Tx : Delivered(t) => \A p \in Participant : prepared[p][t] = None

-----------------------------------------------------------------------------
(* The inductive invariant behind Agreement, CommitIsPossible, YesIsAPromise,  *)
(* DecisionIsFinal and ImplementsAtomicCommit.                                 *)

\* A thread inside _broadcast has a decided transaction and, waiting to record
\* an ack, a position in its plan; only the recoverer goes through "next"; a run
\* starts at the first participant.
ControlOK ==
    /\ pc[Recoverer] \in {"idle", "next", "broadcast", "ack", "error"}
    /\ \A t \in Tx : pc[t] # "next"
    /\ \A t \in Tx : pc[t] = "idle" => pos[t] = 1
    /\ \A th \in Thread : pc[th] \in {"broadcast", "ack"} =>
          Job(th) \in Tx /\ decision[Job(th)] # None
    /\ \A th \in Thread : pc[th] = "ack" => pos[th] <= Len(Plan[Job(th)])
    /\ \A t \in Tx : pc[t] = "decided" => decision[t] # None

\* Only transactions in the log are voted on, asked about and decided.
LogCovers ==
    /\ \A t \in Tx : t \notin logged => pc[t] = "idle" /\ decision[t] = None
    /\ \A p \in Participant, t \in Tx : prepared[p][t] # None \/ t \in doubts[p] =>
          t \in logged /\ p \in Participants(t)
    /\ todo \subseteq logged

\* Whatever a participant applied, or is about to apply, is the logged decision.
DecisionsComeFromLog ==
    /\ \A p \in Participant, t \in Tx :
          decided[p][t] # None => decided[p][t] = decision[t]
    /\ \A p \in Participant : answer[p] # None =>
          answer[p][2] = decision[answer[p][1]] /\ p \in Participants(answer[p][1])

\* Until t is decided, the YES votes collected so far are backed by records.
VotesAreBacked ==
    \A t \in Tx : unanimous[t] /\ decision[t] = None =>
        /\ pc[t] = "voting" => \A i \in 1..Len(Plan[t]) :
              i < pos[t] => prepared[Plan[t][i]][t] # None
        /\ pc[t] = "logging" => \A p \in Participants(t) : prepared[p][t] # None

IInv == /\ TypeOK /\ ControlOK /\ LogCovers
        /\ DecisionsComeFromLog /\ VotesAreBacked /\ CommitIsPossible

-----------------------------------------------------------------------------
\* 2PC blocks only while somebody is down: with nodes restarted, every
\* transaction in doubt is eventually resolved.
DoubtsAreResolved ==
    \A p \in Participant, t \in Tx : prepared[p][t] # None ~> prepared[p][t] = None
=============================================================================
