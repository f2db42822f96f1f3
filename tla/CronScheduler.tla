----------------------------- MODULE CronScheduler -----------------------------
(***************************************************************************)
(* code/hld/cron_scheduler.py: Scheduler, its jobs, their runs and the     *)
(* leases workers hold on runs.                                            *)
(*                                                                         *)
(* tick, claim and reclaim_expired read the clock before they take the     *)
(* lock, and other threads may run in between; everything else is one      *)
(* critical section.  Instants are kept as the time left until them, and a *)
(* clock reading as its age, so no bound on the clock is needed: only a    *)
(* bound on how long a thread may wait for the lock (MaxStale), and on the *)
(* number of slots of a job.  Any thread may call tick or reclaim_expired  *)
(* at any time, so those take a reading of any age; a worker's call of     *)
(* claim is kept, as that worker does nothing else meanwhile.              *)
(***************************************************************************)
EXTENDS Integers, FiniteSets, FiniteSetsExt

CONSTANTS
    Job, Worker,
    Interval,        \* Interval[j]: time between j's slots
    Priority,        \* Priority[j]: higher first
    Misfire,         \* Misfire[j]: "skip", "fire_once" or "catch_up"
    CatchUpLimit,
    MaxAttempts,
    Backoff,         \* Backoff[a]: delay before attempt a (backoff_base ** a)
    Lease,
    None,
    MaxSlots,        \* bound: slots of a job
    MaxStale         \* bound: age of a clock reading when the lock is taken

ASSUME SchedulerAssumption ==
    /\ Interval \in [Job -> Nat \ {0}] /\ Priority \in [Job -> Int]
    /\ Misfire \in [Job -> {"skip", "fire_once", "catch_up"}]
    /\ {CatchUpLimit, MaxAttempts, Lease, MaxSlots} \subseteq Nat \ {0}
    /\ Backoff \in [1..MaxAttempts -> Nat]
    /\ MaxStale \in Nat

VARIABLES
    nextSlot,        \* nextSlot[j]: number of the slot j is due for next
    nextIn,          \* nextIn[j]: time left until it
    runs,            \* runs[<<j, n>>]: the run of j's slot n, or None
    ready, delayed,  \* the runs in the two heaps
    claimAge,        \* claimAge[w]: w's call of claim: age of its clock reading, or None
    dropped          \* history: runs that claim popped and did not keep

cronVars == <<nextSlot, nextIn, runs, ready, delayed, claimAge, dropped>>

Run == Job \X (1..MaxSlots)
Age == 0..MaxStale

\* Far enough in the past to be past for every reading.  The instants that are not
\* read again (when a leased run was available, when a lease no more held ends, when
\* the slot beyond the bound is) stay where they are.
LongAgo == 0 - MaxStale
Sooner(left) == IF left > LongAgo THEN left - 1 ELSE left
Span(j) == Interval[j] * MaxSlots + MaxStale

JobRun(attempt, state, availableIn, owner, leaseLeft) ==
    [attempt |-> attempt, state |-> state, availableIn |-> availableIn,
     owner |-> owner, leaseLeft |-> leaseLeft]

JobRuns == [attempt : 1..MaxAttempts, state : {"pending", "running", "succeeded", "dead"},
            availableIn : Int, owner : Worker \cup {None}, leaseLeft : LongAgo..Lease]

ASSUME NoneAssumption == None \notin Worker /\ None \notin Int /\ None \notin JobRuns

CronTypeOK ==
    /\ nextSlot \in [Job -> 1..(MaxSlots + 1)]
    /\ DOMAIN nextIn = Job /\ \A j \in Job : nextIn[j] \in (0 - Span(j))..Interval[j]
    /\ runs \in [Run -> JobRuns \cup {None}]
    /\ ready \subseteq Run /\ delayed \subseteq Run /\ dropped \subseteq Run
    /\ claimAge \in [Worker -> Age \cup {None}]

\* add_job, for every job, with the first run due at once.
CronInit ==
    /\ nextSlot = [j \in Job |-> 1] /\ nextIn = [j \in Job |-> 0]
    /\ runs = [r \in Run |-> None]
    /\ ready = {} /\ delayed = {} /\ dropped = {}
    /\ claimAge = [w \in Worker |-> None]

------------------------------------------------------------------------------
(* Scheduling *)

\* The slots of j a clock reading of this age finds due.
Due(j, age) ==
    {n \in nextSlot[j]..MaxSlots : nextIn[j] + (n - nextSlot[j]) * Interval[j] <= 0 - age}

\* _slots: what the misfire policy leaves of several.
Kept(j, due) ==
    CASE Cardinality(due) <= 1       -> due
      [] Misfire[j] = "skip"         -> {}
      [] Misfire[j] = "fire_once"    -> {Max(due)}
      [] Misfire[j] = "catch_up"     -> {n \in due : n > Max(due) - CatchUpLimit}

\* _promote: the delayed runs whose backoff is over by a reading of this age.
Promoted(age) == {r \in delayed : runs[r].availableIn <= 0 - age}

\* tick, locked: runs for the due slots that have none yet, then _promote.
Tick(age) ==
    /\ LET due == [j \in Job |-> Due(j, age)]
           fresh == {r \in Run : r[2] \in Kept(r[1], due[r[1]]) /\ runs[r] = None}
           slotIn(r) == nextIn[r[1]] + (r[2] - nextSlot[r[1]]) * Interval[r[1]]
       IN  /\ runs' = [r \in Run |->
                IF r \in fresh
                THEN JobRun(1, "pending", IF slotIn(r) < LongAgo THEN LongAgo ELSE slotIn(r), None, 0)
                ELSE runs[r]]
           /\ nextSlot' = [j \in Job |-> nextSlot[j] + Cardinality(due[j])]
           /\ nextIn' = [j \in Job |-> nextIn[j] + Cardinality(due[j]) * Interval[j]]
           /\ ready' = ready \cup fresh \cup Promoted(age)
           /\ delayed' = delayed \ Promoted(age)
    /\ UNCHANGED <<claimAge, dropped>>

------------------------------------------------------------------------------
(* Leases *)

ClaimStart(w) ==
    /\ claimAge[w] = None
    /\ claimAge' = [claimAge EXCEPT ![w] = 0]
    /\ UNCHANGED <<nextSlot, nextIn, runs, ready, delayed, dropped>>

\* The order of the ready heap: priority, then the instant of the slot.  Runs that are
\* equal in both come in the order of their ids, which is left open.
SlotTime(r) == (r[2] - 1) * Interval[r[1]]
Before(r, s) ==
    \/ Priority[r[1]] > Priority[s[1]]
    \/ Priority[r[1]] = Priority[s[1]] /\ SlotTime(r) < SlotTime(s)

\* A popped run that may be leased, by a reading of this age.
Leasable(r, age) == runs[r].state = "pending" /\ runs[r].availableIn <= 0 - age

\* claim, locked: runs are popped in order until one may be leased; those popped
\* before it are in no heap any more.
ClaimRun(w, r) ==
    /\ claimAge[w] # None
    /\ LET age == claimAge[w]
           heap == ready \cup Promoted(age)
       IN \E popped \in SUBSET {s \in heap : ~Leasable(s, age)} :
           /\ r \in heap /\ Leasable(r, age)
           /\ \A s \in heap : /\ Before(s, r) => s \in popped
                             /\ Before(r, s) => s \notin popped
           /\ runs' = [runs EXCEPT ![r].state = "running", ![r].owner = w,
                                   ![r].leaseLeft = Lease - age, ![r].availableIn = 0]
           /\ ready' = heap \ (popped \cup {r})
           /\ delayed' = delayed \ Promoted(age)
           /\ dropped' = dropped \cup popped
    /\ claimAge' = [claimAge EXCEPT ![w] = None]
    /\ UNCHANGED <<nextSlot, nextIn>>

\* claim finds nothing it may lease, and has emptied the heap.
ClaimNothing(w) ==
    /\ claimAge[w] # None
    /\ LET heap == ready \cup Promoted(claimAge[w])
       IN  /\ \A r \in heap : ~Leasable(r, claimAge[w])
           /\ dropped' = dropped \cup heap
           /\ delayed' = delayed \ Promoted(claimAge[w])
    /\ ready' = {}
    /\ claimAge' = [claimAge EXCEPT ![w] = None]
    /\ UNCHANGED <<nextSlot, nextIn, runs>>

\* _own: w holds a live lease on r.
Owns(r, w) == runs[r].owner = w /\ runs[r].leaseLeft > 0

Heartbeat(r, w) ==
    /\ Owns(r, w)
    /\ runs' = [runs EXCEPT ![r].leaseLeft = Lease]
    /\ UNCHANGED <<nextSlot, nextIn, ready, delayed, claimAge, dropped>>

Complete(r, w) ==
    /\ Owns(r, w)
    /\ runs' = [runs EXCEPT ![r].state = "succeeded", ![r].owner = None, ![r].leaseLeft = 0]
    /\ UNCHANGED <<nextSlot, nextIn, ready, delayed, claimAge, dropped>>

\* _requeue: into the dead-letter list, or another attempt after a backoff.
Requeued(run) ==
    IF run.attempt >= MaxAttempts
    THEN [run EXCEPT !.state = "dead", !.owner = None, !.leaseLeft = 0]
    ELSE JobRun(run.attempt + 1, "pending", Backoff[run.attempt + 1], None, 0)

\* Seeded fault: a requeued run is put into no heap.
RequeueForgotten(R) ==
    /\ runs' = [r \in Run |-> IF r \in R THEN Requeued(runs[r]) ELSE runs[r]]
    /\ UNCHANGED delayed

Requeue(R) ==
    /\ runs' = [r \in Run |-> IF r \in R THEN Requeued(runs[r]) ELSE runs[r]]
    /\ delayed' = delayed \cup {r \in R : runs[r].attempt < MaxAttempts}

Fail(r, w) ==
    /\ Owns(r, w)
    /\ Requeue({r})
    /\ UNCHANGED <<nextSlot, nextIn, ready, claimAge, dropped>>

\* reclaim_expired, locked.
Reap(age) ==
    /\ Requeue({r \in Run : /\ runs[r] # None /\ runs[r].state = "running"
                            /\ runs[r].leaseLeft <= 0 - age})
    /\ UNCHANGED <<nextSlot, nextIn, ready, claimAge, dropped>>

------------------------------------------------------------------------------
(* Time.  Older ages a reading; nobody waits for the lock beyond MaxStale. *)

Older(age) == IF age = None THEN None ELSE age + 1

\* The reading, when there is one, may get older.
MayAge(age) == IF age = None THEN TRUE ELSE age < MaxStale

CronMayAge == \A w \in Worker : MayAge(claimAge[w])

CronPasses ==
    /\ nextIn' = [j \in Job |->
          IF nextSlot[j] <= MaxSlots /\ nextIn[j] > 0 - Span(j) THEN nextIn[j] - 1 ELSE nextIn[j]]
    /\ runs' = [r \in Run |->
          IF runs[r] = None THEN None
          ELSE [runs[r] EXCEPT !.availableIn = IF runs[r].state = "pending" THEN Sooner(@) ELSE @,
                               !.leaseLeft = IF runs[r].owner # None THEN Sooner(@) ELSE @]]
    /\ claimAge' = [w \in Worker |-> Older(claimAge[w])]
    /\ UNCHANGED <<nextSlot, ready, delayed, dropped>>

------------------------------------------------------------------------------
(* Properties *)

\* "Delivery is therefore at-least-once" as far as it holds: every run that waits is
\* in exactly one heap, unless claim dropped it; no other run is in any; and a run is
\* leased to somebody exactly while it is running.
RunsAreQueued ==
    /\ ready \cap delayed = {}
    /\ \A r \in Run :
          /\ (runs[r] # None /\ runs[r].state = "pending") <=> r \in ready \cup delayed \cup dropped
          /\ runs[r] # None => (runs[r].owner # None <=> runs[r].state = "running")
          /\ r \in dropped => r \notin ready \cup delayed
=============================================================================
