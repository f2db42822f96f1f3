-------------------------------- MODULE Saga --------------------------------
(***************************************************************************)
(* SagaOrchestrator of code/hld/saga.py: the thread that drives a saga     *)
(* over its durable log.  Of the log only what _drive reads is kept: the   *)
(* saga's state, the steps with a done and those with a compensated entry. *)
(* What a step's action or compensation does is left to the module that    *)
(* composes this one with the services, which takes Acts, Returns, Fails,  *)
(* TimesOut and Raises together with an action of the service called.      *)
(***************************************************************************)
EXTENDS Integers, Sequences, FiniteSetsExt

CONSTANTS
    Sagas,
    Kind,           \* the steps' kinds, in their order
    Undoable,       \* the steps that have a compensation
    MaxAttempts,    \* max_attempts
    MaxCrashes      \* bound: deaths of an orchestrator thread

Step == DOMAIN Kind

\* SagaOrchestrator._validate
ASSUME SagaAssumption ==
    /\ Kind \in Seq({"compensatable", "pivot", "retriable"}) /\ Kind # << >>
    /\ Undoable \subseteq Step
    /\ \A i \in Step : Kind[i] = "compensatable" => i \in Undoable
    /\ \A i, j \in Step : i < j /\ Kind[i] = "pivot" => Kind[j] = "retriable"
    /\ \A j \in Step : Kind[j] = "retriable" /\ (\E i \in Step : Kind[i] = "compensatable")
                          => \E i \in 1..(j - 1) : Kind[i] = "pivot"
    /\ MaxAttempts \in Nat \ {0} /\ MaxCrashes \in Nat

VARIABLES
    state,      \* SagaRecord.state, "none" before start
    done,       \* steps_with("done")
    undone,     \* steps_with("compensated")
    pc,         \* where the thread that drives the saga is
    attempt,    \* of _attempt
    crashes     \* bound

sagaVars == <<state, done, undone, pc, attempt, crashes>>

\* idle: no thread drives the saga.    try: about to call an action.
\* inAction: the action's call to a service has returned, not the action.
\* acted: the action has returned, its done or compensated entry is not written.
Pc == {"idle", "try", "inAction", "acted"}

SagaTypeOK ==
    /\ state \in [Sagas -> {"none", "running", "compensating", "completed", "compensated", "stuck"}]
    /\ done \in [Sagas -> SUBSET Step] /\ undone \in [Sagas -> SUBSET Step]
    /\ pc \in [Sagas -> Pc]
    /\ attempt \in [Sagas -> 1..MaxAttempts]
    /\ crashes \in 0..MaxCrashes

SagaInit ==
    /\ state = [s \in Sagas |-> "none"]
    /\ done = [s \in Sagas |-> {}] /\ undone = [s \in Sagas |-> {}]
    /\ pc = [s \in Sagas |-> "idle"]
    /\ attempt = [s \in Sagas |-> 1]
    /\ crashes = 0

-----------------------------------------------------------------------------
Forward(s) == Step \ done[s]
ToUndo(s) == (done[s] \cap Undoable) \ undone[s]

\* The thread is to run the action of step i, or its compensation.
Runs(s, i) == state[s] = "running" /\ Forward(s) # {} /\ i = Min(Forward(s))
Undoes(s, i) == state[s] = "compensating" /\ ToUndo(s) # {} /\ i = Max(ToUndo(s))
At(s, i) == Runs(s, i) \/ Undoes(s, i)

Ended(s) == state[s] \in {"completed", "compensated", "stuck"}

Start(s) ==
    /\ state[s] = "none"
    /\ state' = [state EXCEPT ![s] = "running"]
    /\ pc' = [pc EXCEPT ![s] = "try"]
    /\ UNCHANGED <<done, undone, attempt, crashes>>

\* Seeded fault: resume does not continue compensations.
ResumeForwardOnly(s) ==
    /\ pc[s] = "idle" /\ state[s] = "running"
    /\ pc' = [pc EXCEPT ![s] = "try"]
    /\ attempt' = [attempt EXCEPT ![s] = 1]
    /\ UNCHANGED <<state, done, undone, crashes>>

\* Seeded fault: resume takes the step in flight for done.
ResumePastStep(s) ==
    /\ pc[s] = "idle" /\ state[s] \in {"running", "compensating"}
    /\ pc' = [pc EXCEPT ![s] = IF \E i \in Step : At(s, i) THEN "acted" ELSE "try"]
    /\ attempt' = [attempt EXCEPT ![s] = 1]
    /\ UNCHANGED <<state, done, undone, crashes>>

\* resume, for a saga that no thread drives (SagaLog: a record is only ever
\* driven by one); of a saga that ended it only returns the state.
Resume(s) ==
    /\ pc[s] = "idle" /\ state[s] \in {"running", "compensating"}
    /\ pc' = [pc EXCEPT ![s] = "try"]
    /\ UNCHANGED <<state, done, undone, attempt, crashes>>

\* The action of the step at hand has made its call to a service.
Acts(s, i) ==
    /\ pc[s] = "try" /\ At(s, i)
    /\ pc' = [pc EXCEPT ![s] = "inAction"]
    /\ attempt' = [attempt EXCEPT ![s] = 1]
    /\ UNCHANGED <<state, done, undone, crashes>>

\* The action has returned.
Returns(s, i) ==
    /\ pc[s] = "inAction" /\ At(s, i)
    /\ pc' = [pc EXCEPT ![s] = "acted"]
    /\ UNCHANGED <<state, done, undone, attempt, crashes>>

\* The done entry of _run_forward, the compensated entry of _compensate.
Logs(s, i) ==
    /\ pc[s] = "acted" /\ At(s, i)
    /\ done' = IF Runs(s, i) THEN [done EXCEPT ![s] = @ \cup {i}] ELSE done
    /\ undone' = IF Undoes(s, i) THEN [undone EXCEPT ![s] = @ \cup {i}] ELSE undone
    /\ pc' = [pc EXCEPT ![s] = "try"]
    /\ UNCHANGED <<state, attempt, crashes>>

\* _attempt has returned False.
AfterFailure(s, i) ==
    IF Undoes(s, i) \/ Kind[i] = "retriable" THEN "stuck" ELSE "compensating"

GivesUp(s, i) ==
    /\ state' = [state EXCEPT ![s] = AfterFailure(s, i)]
    /\ pc' = [pc EXCEPT ![s] = IF AfterFailure(s, i) = "stuck" THEN "idle" ELSE "try"]
    /\ attempt' = [attempt EXCEPT ![s] = 1]

\* The action raises StepFailed.  A death between the failed entry and the
\* new state leaves what a death before the call leaves.
Fails(s, i) ==
    /\ pc[s] = "try" /\ At(s, i)
    /\ GivesUp(s, i)
    /\ UNCHANGED <<done, undone, crashes>>

\* The action raises TransientError.
TimesOut(s, i) ==
    /\ pc[s] = "try" /\ At(s, i)
    /\ IF attempt[s] < MaxAttempts
         THEN attempt' = [attempt EXCEPT ![s] = @ + 1] /\ UNCHANGED <<state, pc>>
         ELSE GivesUp(s, i)
    /\ UNCHANGED <<done, undone, crashes>>

\* The action raises anything else, out of start or resume.
Raises(s, i) ==
    /\ pc[s] = "try" /\ At(s, i)
    /\ pc' = [pc EXCEPT ![s] = "idle"]
    /\ attempt' = [attempt EXCEPT ![s] = 1]
    /\ UNCHANGED <<state, done, undone, crashes>>

\* No step is left, forward or to compensate.
Finish(s) ==
    /\ pc[s] = "try" /\ \A i \in Step : ~At(s, i)
    /\ state' = [state EXCEPT ![s] = IF @ = "running" THEN "completed" ELSE "compensated"]
    /\ pc' = [pc EXCEPT ![s] = "idle"]
    /\ UNCHANGED <<done, undone, attempt, crashes>>

\* The orchestrator dies between two writes of its log; crash_after injects
\* the case where that is before a done entry.
Crash(s) ==
    /\ pc[s] # "idle" /\ crashes < MaxCrashes
    /\ pc' = [pc EXCEPT ![s] = "idle"]
    /\ attempt' = [attempt EXCEPT ![s] = 1]
    /\ crashes' = crashes + 1
    /\ UNCHANGED <<state, done, undone>>
=============================================================================
