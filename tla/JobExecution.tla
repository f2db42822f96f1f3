----------------------------- MODULE JobExecution -----------------------------
(***************************************************************************)
(* Workers (code/hld/cron_scheduler.py, Worker) that claim runs from the   *)
(* Scheduler and execute them behind an IdempotentHandler                  *)
(* (code/hld/idempotency_store.py), with the identity of the run as the    *)
(* key: what the scheduler asks of its handlers ("handlers must be         *)
(* idempotent, which is what the run record's identity is for").  An       *)
(* answer 409 is raised to the worker, so that the run is tried again.     *)
(*                                                                         *)
(* A worker can stop at any point and come back without memory; its lease  *)
(* and its claim stay behind.                                              *)
(***************************************************************************)
EXTENDS CronScheduler

CONSTANTS ResponseTTL, InProgressTTL

ASSUME StoreAssumption == {ResponseTTL, InProgressTTL} \subseteq Nat \ {0}

VARIABLES
    records, nextToken,             \* IdempotencyStore
    pc,        \* per worker
    job,       \* job[w]: the run w is executing, or None
    claim,     \* claim[w]: [token, left] of w's claim of the key, or None
    beginAge,  \* beginAge[w]: age of the clock reading of w's call of begin, or None
    effects    \* history: effects[r]: the claims whose handler took effect

I == INSTANCE IdempotencyStore WITH Key <- Run, Nobody <- None, Horizon <- MaxStale

\* A claim whose clock reading was old may be over when it is made.
Claim == [token : Nat \ {0}, left : LongAgo..InProgressTTL]

ASSUME NoClaimAssumption == None \notin Claim /\ None \notin I!Record

storeVars == <<records, nextToken>>
workerVars == <<pc, job, claim, beginAge>>
vars == <<cronVars, storeVars, workerVars, effects>>

TypeOK ==
    /\ CronTypeOK
    /\ I!StoreTypeOK
    /\ pc \in [Worker -> {"idle", "claiming", "claimed", "beginning", "handling", "recording",
                          "reporting", "failing"}]
    /\ job \in [Worker -> Run \cup {None}]
    /\ beginAge \in [Worker -> Age \cup {None}]
    /\ claim \in [Worker -> Claim \cup {None}]
    /\ \A w \in Worker : claim[w] # None => claim[w].token < nextToken
    /\ effects \in [Run -> SUBSET (1..(nextToken - 1))]

Init ==
    /\ CronInit
    /\ I!StoreInit
    /\ pc = [w \in Worker |-> "idle"]
    /\ job = [w \in Worker |-> None]
    /\ claim = [w \in Worker |-> None]
    /\ beginAge = [w \in Worker |-> None]
    /\ effects = [r \in Run |-> {}]

Goto(w, from, to) == pc[w] = from /\ pc' = [pc EXCEPT ![w] = to]

\* run_once returns, or raises, and the worker forgets the run.
Return(w, from) ==
    /\ Goto(w, from, "idle")
    /\ job' = [job EXCEPT ![w] = None]
    /\ claim' = [claim EXCEPT ![w] = None]
    /\ UNCHANGED beginAge

------------------------------------------------------------------------------
(* Worker.run_once *)

Ask(w) ==
    /\ Goto(w, "idle", "claiming")
    /\ ClaimStart(w)
    /\ UNCHANGED <<storeVars, job, claim, beginAge, effects>>

Receive(w) ==
    /\ \/ \E r \in Run :
             /\ ClaimRun(w, r) /\ Goto(w, "claiming", "claimed")
             /\ job' = [job EXCEPT ![w] = r]
       \/ ClaimNothing(w) /\ Goto(w, "claiming", "idle") /\ UNCHANGED job
    /\ UNCHANGED <<storeVars, claim, beginAge, effects>>

\* IdempotentHandler.execute: begin, with the clock read before the lock.
BeginStart(w) ==
    /\ Goto(w, "claimed", "beginning")
    /\ beginAge' = [beginAge EXCEPT ![w] = 0]
    /\ UNCHANGED <<cronVars, storeVars, job, claim, effects>>

Begin(w) ==
    /\ LET k == job[w]
           age == beginAge[w]
       IN  \/ /\ Goto(w, "beginning", "handling")
              /\ I!BeginNew(k, age)
              /\ claim' = [claim EXCEPT ![w] = [token |-> nextToken, left |-> InProgressTTL - age]]
           \/ /\ Goto(w, "beginning", "reporting")
              /\ I!Replays(k, age)
              /\ UNCHANGED <<storeVars, claim>>
           \/ /\ Goto(w, "beginning", "failing")
              /\ I!InProgress(k, age)
              /\ UNCHANGED <<storeVars, claim>>
    /\ beginAge' = [beginAge EXCEPT ![w] = None]
    /\ UNCHANGED <<cronVars, job, effects>>

TakesEffect(w) == effects' = [effects EXCEPT ![job[w]] = @ \cup {claim[w].token}]

\* The handler returns, or fails with a HandbookError: either is a response.
Handle(w) ==
    /\ Goto(w, "handling", "recording")
    /\ TakesEffect(w)
    /\ UNCHANGED <<cronVars, storeVars, job, claim, beginAge>>

\* Any other exception: nobody knows whether the effect happened.  The claim is
\* kept, unless a handler that did nothing has released it.
HandlerRaises(w) ==
    /\ Goto(w, "handling", "failing")
    /\ \/ (TakesEffect(w) \/ UNCHANGED effects) /\ UNCHANGED storeVars
       \/ I!Drop(job[w], claim[w].token) /\ UNCHANGED effects
    /\ UNCHANGED <<cronVars, job, claim, beginAge>>

\* A long handler keeps its lease.
KeepAlive(w) ==
    /\ pc[w] = "handling"
    /\ Heartbeat(job[w], w)
    /\ UNCHANGED <<storeVars, workerVars, effects>>

\* store.complete; a ConflictError is one more failure of the handler.
RecordResponse(w) ==
    /\ \/ Goto(w, "recording", "reporting") /\ I!Store(job[w], claim[w].token)
       \/ /\ Goto(w, "recording", "failing")
          /\ ~I!Current(job[w], claim[w].token)
          /\ UNCHANGED storeVars
    /\ UNCHANGED <<cronVars, job, claim, beginAge, effects>>

\* scheduler.complete and scheduler.fail; both raise when the lease is gone.
Report(w) ==
    /\ Return(w, "reporting")
    /\ \/ Complete(job[w], w)
       \/ ~Owns(job[w], w) /\ UNCHANGED cronVars
    /\ UNCHANGED <<storeVars, effects>>

ReportFailure(w) ==
    /\ Return(w, "failing")
    /\ \/ Fail(job[w], w)
       \/ ~Owns(job[w], w) /\ UNCHANGED cronVars
    /\ UNCHANGED <<storeVars, effects>>

\* The worker's process stops, wherever it is.
Crash(w) ==
    /\ pc[w] # "idle"
    /\ pc' = [pc EXCEPT ![w] = "idle"]
    /\ job' = [job EXCEPT ![w] = None]
    /\ claim' = [claim EXCEPT ![w] = None]
    /\ beginAge' = [beginAge EXCEPT ![w] = None]
    /\ claimAge' = [claimAge EXCEPT ![w] = None]
    /\ UNCHANGED <<nextSlot, nextIn, runs, ready, delayed, dropped,
                   storeVars, effects>>

------------------------------------------------------------------------------
\* The loops that call tick, reclaim_expired and purge_expired.
RunTick == \E age \in Age : Tick(age) /\ UNCHANGED <<storeVars, workerVars, effects>>
RunReaper == \E age \in Age : Reap(age) /\ UNCHANGED <<storeVars, workerVars, effects>>

Service ==
    \/ RunTick \/ RunReaper
    \/ \E age \in Age : I!Purge(age) /\ UNCHANGED <<cronVars, workerVars, effects>>

Passes ==
    /\ CronMayAge
    /\ \A w \in Worker : MayAge(beginAge[w])
    /\ CronPasses /\ I!StorePasses
    /\ beginAge' = [w \in Worker |-> Older(beginAge[w])]
    /\ claim' = [w \in Worker |->
          IF claim[w] = None THEN None ELSE [claim[w] EXCEPT !.left = IF @ > 0 THEN @ - 1 ELSE 0]]
    /\ UNCHANGED <<pc, job, effects>>

Step(w) ==
    \/ Ask(w) \/ Receive(w) \/ BeginStart(w) \/ Begin(w) \/ Handle(w) \/ HandlerRaises(w)
    \/ RecordResponse(w) \/ Report(w) \/ ReportFailure(w)

Next ==
    \/ \E w \in Worker : Step(w) \/ KeepAlive(w) \/ Crash(w)
    \/ Service
    \/ Passes

\* The scheduler's loops and the workers run, and time passes.  Workers may stop
\* for ever and again, so long as they do not always stop inside claim.
Fairness ==
    /\ \A w \in Worker : WF_vars(Step(w)) /\ SF_vars(Receive(w))
    /\ WF_vars(RunTick) /\ WF_vars(RunReaper)
    /\ SF_vars(Passes)

Spec == Init /\ [][Next]_vars /\ Fairness

------------------------------------------------------------------------------
(* Properties *)

JobsInv == TypeOK /\ RunsAreQueued

\* A run is done by one worker at a time for as long as that worker's claim of
\* its key lasts, whatever becomes of its lease and whatever clock readings
\* others judge by: the claim is still the record's.  And what a run is reported
\* done with has taken effect.
ClaimsAreExclusive ==
    /\ \A w \in Worker : (pc[w] \in {"handling", "recording"} /\ claim[w].left > 0) =>
          /\ records[job[w]] # None
          /\ records[job[w]].token = claim[w].token
          /\ records[job[w]].state = "in_progress"
    /\ \A r \in Run :
          /\ runs[r] # None /\ runs[r].state = "succeeded" => effects[r] # {}
          /\ records[r] # None /\ records[r].state = "completed" => records[r].token \in effects[r]

\* A stored response stands: until its time is over it is the answer to everybody
\* who asks, and no late worker's replaces it.
ResponseStands ==
    [][\A r \in Run :
          (records[r] # None /\ records[r].state = "completed" /\ records[r].left > 0) =>
              /\ records'[r] # None
              /\ records'[r].token = records[r].token /\ records'[r].state = "completed"]_vars

\* Every run comes to an end: it succeeds, is parked as dead, or was dropped.
Ended(r) == r \in dropped \/ (runs[r] # None /\ runs[r].state \in {"succeeded", "dead"})

RunsEnd == \A r \in Run : runs[r] # None ~> Ended(r)
=============================================================================
