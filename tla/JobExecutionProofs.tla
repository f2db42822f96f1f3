--------------------------- MODULE JobExecutionProofs ---------------------------
(***************************************************************************)
(* TLAPS proofs about JobExecution, for every set of jobs and workers and  *)
(* every choice of the intervals, leases and lifetimes: runs are in a heap *)
(* or leased, one worker does a run while its claim lasts, and a response  *)
(* that is stored stands.                                                  *)
(***************************************************************************)
EXTENDS JobExecution, FiniteSetTheorems, TLAPS

------------------------------------------------------------------------------
(* The inductive invariant *)

Handling == {"handling", "recording"}

\* What a worker has in hand at each place of its code.
WorkersInv ==
    \A w \in Worker :
        /\ pc[w] \notin {"idle", "claiming"} => job[w] \in Run /\ runs[job[w]] # None
        /\ pc[w] = "beginning" => beginAge[w] # None
        /\ pc[w] \in Handling => claim[w] # None

\* No two workers have the same claim.
ClaimsDiffer ==
    \A v, w \in Worker :
        v # w /\ pc[v] \in Handling /\ pc[w] \in Handling => claim[v].token # claim[w].token

\* As long as a worker's claim lasts it is the record's, and the record lasts as long.
ClaimStands(w) ==
    claim[w].left > 0 =>
        /\ records[job[w]] # None
        /\ records[job[w]].token = claim[w].token
        /\ records[job[w]].state = "in_progress"
        /\ records[job[w]].left >= claim[w].left

ClaimsStand == \A w \in Worker : pc[w] \in Handling => ClaimStands(w)

\* Nothing is stored, reported or done without an effect of the handler.
ResponsesHaveEffects ==
    \A r \in Run :
        /\ records[r] # None /\ records[r].state = "completed" => records[r].token \in effects[r]
        /\ runs[r] # None /\ runs[r].state = "succeeded" => effects[r] # {}

ReportsHaveEffects ==
    \A w \in Worker :
        /\ pc[w] = "recording" => claim[w].token \in effects[job[w]]
        /\ pc[w] = "reporting" => effects[job[w]] # {}

Inv ==
    /\ TypeOK /\ RunsAreQueued /\ WorkersInv
    /\ ClaimsDiffer /\ ClaimsStand /\ ResponsesHaveEffects /\ ReportsHaveEffects

------------------------------------------------------------------------------
(* The scheduler *)

CronInv == CronTypeOK /\ RunsAreQueued

\* A step makes no run disappear, and reports none done.
RunsStay ==
    \A r \in Run :
        /\ runs[r] # None => runs'[r] # None
        /\ runs'[r] # None /\ runs'[r].state = "succeeded" =>
              runs[r] # None /\ runs[r].state = "succeeded"

\* The lease of a run and the state of a run change together.
LEMMA RunFacts ==
    ASSUME CronInv, NEW r \in Run, runs[r] # None
    PROVE  /\ runs[r] \in JobRuns
           /\ runs[r].owner # None <=> runs[r].state = "running"
           /\ runs[r].state = "pending" <=> r \in ready \cup delayed \cup dropped
  BY DEF CronInv, CronTypeOK, RunsAreQueued

\* Consecutive slots: their number is at most that of the slots up to the bound, and
\* the one after them is due within the interval.
LEMMA DueFacts ==
    ASSUME CronTypeOK, NEW j \in Job, NEW age \in Age
    PROVE  /\ nextSlot[j] + Cardinality(Due(j, age)) \in 1..(MaxSlots + 1)
           /\ nextIn[j] + Cardinality(Due(j, age)) * Interval[j] \in (0 - Span(j))..Interval[j]
<1> DEFINE first == nextSlot[j]
           at == nextIn[j]
           step == Interval[j]
           due == Due(j, age)
           number == Cardinality(due)
<1>1. /\ first \in 1..(MaxSlots + 1) /\ at \in (0 - Span(j))..step
      /\ step \in Nat \ {0} /\ MaxSlots \in Nat /\ age \in Nat
      /\ MaxStale \in Nat
  BY SchedulerAssumption DEF CronTypeOK, Age
<1>2. due = {n \in first..MaxSlots : at + (n - first) * step <= 0 - age}
  BY DEF Due
<1>s. Span(j) \in Int
  BY <1>1 DEF Span
<1> HIDE DEF first, at, step, due
<1>3. IsFiniteSet(first..MaxSlots) /\ Cardinality(first..MaxSlots) = MaxSlots - first + 1
  <2>1. CASE first <= MaxSlots
    BY <1>1, <2>1, FS_Interval
  <2>2. CASE first = MaxSlots + 1
    <3>1. first..MaxSlots = {}
      BY <1>1, <2>2
    <3> QED BY <1>1, <2>2, <3>1, FS_EmptySet
  <2> QED BY <1>1, <2>1, <2>2
<1>4. IsFiniteSet(due) /\ number \in Nat /\ number <= MaxSlots - first + 1
  <2>1. due \subseteq first..MaxSlots
    BY <1>2
  <2> QED BY <1>3, <2>1, FS_Subset, FS_CardinalityType
<1> HIDE DEF number
<1>5. at + number * step >= 0 - Span(j)
  <2>1. number * step \in Nat
    BY <1>1, <1>4
  <2> QED BY <1>1, <1>s, <2>1
<1>6. at + number * step <= step
  <2>1. CASE number = 0
    BY <1>1, <2>1
  <2>2. CASE number # 0
    <3> SUFFICES ASSUME at + number * step > step PROVE FALSE
      BY <1>1, <1>4
    <3>1. at + (number - 1) * step > 0
      BY <1>1, <1>4
    <3> DEFINE last == first + number - 2
    <3>2. due \subseteq first..last
      <4> SUFFICES ASSUME NEW n \in due, n > last PROVE FALSE
        BY <1>1, <1>2, <1>4
      <4>1. n \in Int /\ n >= first /\ at + (n - first) * step <= 0
        BY <1>1, <1>2
      <4>2. (n - first) - (number - 1) \in Nat
        BY <1>1, <1>4, <4>1
      <4>3. ((n - first) - (number - 1)) * step \in Nat
        BY <1>1, <4>2
      <4>4. (n - first) * step >= (number - 1) * step
        BY <1>1, <1>4, <4>1, <4>3
      <4> QED BY <1>1, <1>4, <3>1, <4>1, <4>4
    <3>3. IsFiniteSet(first..last) /\ Cardinality(first..last) = number - 1
      <4>1. CASE number >= 2
        BY <1>1, <1>4, <4>1, FS_Interval
      <4>2. CASE number = 1
        <5>1. first \in Int /\ last \in Int /\ last < first
          BY <1>1, <4>2
        <5> HIDE DEF last
        <5>2. first..last = {}
          BY <5>1
        <5>3. IsFiniteSet({}) /\ Cardinality({}) = 0 /\ number - 1 = 0
          BY <4>2, FS_EmptySet
        <5> QED BY <5>2, <5>3
      <4> QED BY <1>4, <2>2, <4>1, <4>2
    <3>4. number <= number - 1
      BY <3>2, <3>3, FS_Subset DEF number
    <3> QED BY <1>4, <3>4
  <2> QED BY <2>1, <2>2
<1> QED BY <1>1, <1>4, <1>5, <1>6, <1>s DEF number, due, first, at, step

LEMMA TickStep ==
    ASSUME CronInv, NEW age \in Age, Tick(age)
    PROVE  CronInv' /\ RunsStay
<1> DEFINE due == [j \in Job |-> Due(j, age)]
           fresh == {r \in Run : r[2] \in Kept(r[1], due[r[1]]) /\ runs[r] = None}
           slotIn(r) == nextIn[r[1]] + (r[2] - nextSlot[r[1]]) * Interval[r[1]]
           made(r) == JobRun(1, "pending", IF slotIn(r) < LongAgo THEN LongAgo ELSE slotIn(r), None, 0)
<1>1. /\ runs' = [r \in Run |-> IF r \in fresh THEN made(r) ELSE runs[r]]
      /\ nextSlot' = [j \in Job |-> nextSlot[j] + Cardinality(due[j])]
      /\ nextIn' = [j \in Job |-> nextIn[j] + Cardinality(due[j]) * Interval[j]]
      /\ ready' = ready \cup fresh \cup Promoted(age)
      /\ delayed' = delayed \ Promoted(age)
      /\ UNCHANGED <<claimAge, dropped>>
  BY DEF Tick
<1>2. fresh \subseteq Run /\ \A r \in fresh : runs[r] = None
  OBVIOUS
<1>3. \A r \in fresh : made(r) \in JobRuns /\ made(r).state = "pending" /\ made(r).owner = None
  <2> SUFFICES ASSUME NEW r \in fresh
               PROVE  made(r) \in JobRuns /\ made(r).state = "pending" /\ made(r).owner = None
    OBVIOUS
  <2>1. r[1] \in Job /\ r[2] \in 1..MaxSlots
    BY DEF Run
  <2>2. nextIn[r[1]] \in Int /\ nextSlot[r[1]] \in Int /\ Interval[r[1]] \in Int /\ r[2] \in Int
    BY <2>1, SchedulerAssumption DEF CronInv, CronTypeOK, Span
  <2>3. slotIn(r) \in Int
    BY <2>2
  <2>4. LongAgo \in Int /\ 0 \in LongAgo..Lease /\ 1 \in 1..MaxAttempts
    BY SchedulerAssumption DEF LongAgo
  <2> HIDE DEF slotIn
  <2>5. (IF slotIn(r) < LongAgo THEN LongAgo ELSE slotIn(r)) \in Int
    BY <2>3, <2>4
  <2> QED BY <2>4, <2>5 DEF JobRuns, JobRun
<1> HIDE DEF fresh, made
<1>4. Promoted(age) \subseteq delayed
  BY DEF Promoted
<1>5. CronTypeOK'
  <2>1. nextSlot' \in [Job -> 1..(MaxSlots + 1)]
    BY <1>1, DueFacts DEF CronInv
  <2>2. DOMAIN nextIn' = Job /\ \A j \in Job : nextIn'[j] \in (0 - Span(j))..Interval[j]
    BY <1>1, DueFacts DEF CronInv
  <2>3. runs' \in [Run -> JobRuns \cup {None}]
    BY <1>1, <1>3 DEF CronInv, CronTypeOK
  <2> QED BY <1>1, <1>2, <1>4, <2>1, <2>2, <2>3 DEF CronInv, CronTypeOK
<1>6. RunsAreQueued'
  <2>1. \A r \in fresh : r \notin ready \cup delayed \cup dropped
    BY <1>2 DEF CronInv, RunsAreQueued
  <2>2. \A r \in fresh : made(r) # None
    BY <1>3, NoneAssumption
  <2> QED BY <1>1, <1>2, <1>3, <1>4, <2>1, <2>2 DEF CronInv, RunsAreQueued
<1>7. RunsStay
  <2>1. \A r \in fresh : made(r).state # "succeeded"
    BY <1>3
  <2> QED BY <1>1, <1>2, <2>1 DEF RunsStay
<1> QED BY <1>5, <1>6, <1>7 DEF CronInv

LEMMA ClaimStartStep ==
    ASSUME CronInv, NEW w \in Worker, ClaimStart(w)
    PROVE  CronInv' /\ RunsStay
<1>1. claimAge' \in [Worker -> Age \cup {None}]
  BY SchedulerAssumption DEF CronInv, CronTypeOK, ClaimStart, Age
<1>2. UNCHANGED <<nextSlot, nextIn, runs, ready, delayed, dropped>>
  BY DEF ClaimStart
<1> QED BY <1>1, <1>2 DEF CronInv, CronTypeOK, RunsAreQueued, RunsStay

\* A run that changes, and stays what it is as far as the heaps are concerned.
LEMMA OneRunChanges ==
    ASSUME CronInv, NEW r \in Run, NEW run \in JobRuns, runs' = [runs EXCEPT ![r] = run],
           run.state # "succeeded"
    PROVE  /\ runs' \in [Run -> JobRuns \cup {None}]
           /\ RunsStay
           /\ runs'[r] = run /\ run # None
           /\ \A q \in Run : q # r => runs'[q] = runs[q]
<1>1. run # None
  BY NoneAssumption
<1>2. runs \in [Run -> JobRuns \cup {None}]
  BY DEF CronInv, CronTypeOK
<1>3. runs' \in [Run -> JobRuns \cup {None}] /\ runs'[r] = run /\ \A q \in Run : q # r => runs'[q] = runs[q]
  BY <1>2
<1> QED BY <1>1, <1>3 DEF RunsStay

LeasedTo(run, w, left) ==
    [run EXCEPT !.state = "running", !.owner = w, !.leaseLeft = left, !.availableIn = 0]

LEMMA LeasedFacts ==
    ASSUME NEW run \in JobRuns, NEW w \in Worker, NEW left \in LongAgo..Lease
    PROVE  /\ LeasedTo(run, w, left) \in JobRuns
           /\ LeasedTo(run, w, left).state = "running" /\ LeasedTo(run, w, left).owner = w
<1> DEFINE a == [run EXCEPT !.state = "running"]
           b == [a EXCEPT !.owner = w]
           c == [b EXCEPT !.leaseLeft = left]
           d == [c EXCEPT !.availableIn = 0]
<1>1. a \in JobRuns /\ a.state = "running"
  BY DEF JobRuns
<1> HIDE DEF a
<1>2. b \in JobRuns /\ b.state = "running" /\ b.owner = w
  BY <1>1 DEF JobRuns
<1> HIDE DEF b
<1>3. c \in JobRuns /\ c.state = "running" /\ c.owner = w
  BY <1>2 DEF JobRuns
<1> HIDE DEF c
<1>4. d \in JobRuns /\ d.state = "running" /\ d.owner = w
  BY <1>3 DEF JobRuns
<1> QED BY <1>4 DEF d, c, b, a, LeasedTo

LEMMA ClaimRunStep ==
    ASSUME CronInv, NEW w \in Worker, NEW r \in Run, ClaimRun(w, r)
    PROVE  CronInv' /\ RunsStay /\ runs'[r] # None
<1> DEFINE age == claimAge[w]
           heap == ready \cup Promoted(age)
           leased == LeasedTo(runs[r], w, Lease - age)
<1>1. PICK popped \in SUBSET {s \in heap : ~Leasable(s, age)} :
           /\ r \in heap /\ Leasable(r, age)
           /\ runs' = [runs EXCEPT ![r].state = "running", ![r].owner = w,
                                   ![r].leaseLeft = Lease - age, ![r].availableIn = 0]
           /\ ready' = heap \ (popped \cup {r})
           /\ delayed' = delayed \ Promoted(age)
           /\ dropped' = dropped \cup popped
  BY DEF ClaimRun
<1>2. claimAge' = [claimAge EXCEPT ![w] = None] /\ UNCHANGED <<nextSlot, nextIn>>
  BY DEF ClaimRun
<1>3. age \in Age
  BY DEF ClaimRun, CronInv, CronTypeOK
<1>4. Promoted(age) \subseteq delayed /\ heap \subseteq ready \cup delayed
  BY DEF Promoted
<1>5. runs[r] # None /\ runs[r] \in JobRuns /\ runs[r].state = "pending"
  BY <1>1, <1>4, RunFacts DEF CronInv, RunsAreQueued, Leasable
<1>6. leased \in JobRuns /\ leased.state = "running" /\ leased.owner = w
  <2>1. Lease - age \in LongAgo..Lease
    BY <1>3, SchedulerAssumption DEF Age, LongAgo
  <2> QED BY <1>5, <2>1, LeasedFacts
<1>7. runs' = [runs EXCEPT ![r] = leased]
  BY <1>1, <1>5 DEF JobRuns, LeasedTo
<1> HIDE DEF age, leased
<1>8. /\ runs' \in [Run -> JobRuns \cup {None}] /\ RunsStay /\ runs'[r] = leased /\ leased # None
      /\ \A q \in Run : q # r => runs'[q] = runs[q]
  BY <1>6, <1>7, OneRunChanges
<1>9. popped \subseteq heap /\ r \notin popped
  BY <1>1
<1> HIDE DEF heap
<1>10. CronTypeOK'
  <2>1. heap \subseteq Run
    BY <1>4 DEF CronInv, CronTypeOK
  <2> QED BY <1>1, <1>2, <1>8, <1>9, <2>1 DEF CronInv, CronTypeOK
<1>11. RunsAreQueued'
  <2>1. ready' \cap delayed' = {}
    BY <1>1, <1>4 DEF CronInv, RunsAreQueued, heap
  <2>2. ready' \cup delayed' \cup dropped' = (ready \cup delayed \cup dropped) \ {r}
    BY <1>1, <1>4, <1>9 DEF CronInv, RunsAreQueued, heap
  <2>3. \A q \in Run : q \in dropped' => q \notin ready' \cup delayed'
    BY <1>1, <1>4, <1>9 DEF CronInv, RunsAreQueued, heap
  <2>4. w # None
    BY NoneAssumption
  <2> QED BY <1>6, <1>8, <2>1, <2>2, <2>3, <2>4 DEF CronInv, RunsAreQueued
<1> QED BY <1>8, <1>10, <1>11 DEF CronInv

LEMMA ClaimNothingStep ==
    ASSUME CronInv, NEW w \in Worker, ClaimNothing(w)
    PROVE  CronInv' /\ RunsStay
<1>1. Promoted(claimAge[w]) \subseteq delayed
  BY DEF Promoted
<1>2. CronTypeOK'
  BY <1>1 DEF ClaimNothing, CronInv, CronTypeOK
<1>3. RunsAreQueued'
  BY <1>1 DEF ClaimNothing, CronInv, RunsAreQueued
<1> QED BY <1>2, <1>3 DEF CronInv, RunsStay, ClaimNothing

LEMMA HeartbeatStep ==
    ASSUME CronInv, NEW w \in Worker, NEW r \in Run, runs[r] # None, Heartbeat(r, w)
    PROVE  CronInv' /\ RunsStay
<1> DEFINE kept == [runs[r] EXCEPT !.leaseLeft = Lease]
<1>1. runs[r] \in JobRuns /\ runs[r].owner = w /\ w # None /\ runs[r].state = "running"
  BY RunFacts, NoneAssumption DEF Heartbeat, Owns
<1>2. kept \in JobRuns /\ kept.state = runs[r].state /\ kept.owner = runs[r].owner
  <2>1. Lease \in LongAgo..Lease
    BY SchedulerAssumption DEF LongAgo
  <2> QED BY <1>1, <2>1 DEF JobRuns
<1>3. runs' = [runs EXCEPT ![r] = kept]
  BY DEF Heartbeat
<1> HIDE DEF kept
<1>4. /\ runs' \in [Run -> JobRuns \cup {None}] /\ RunsStay /\ runs'[r] = kept /\ kept # None
      /\ \A q \in Run : q # r => runs'[q] = runs[q]
  BY <1>1, <1>2, <1>3, OneRunChanges
<1>5. UNCHANGED <<nextSlot, nextIn, ready, delayed, claimAge, dropped>>
  BY DEF Heartbeat
<1>6. CronTypeOK'
  BY <1>4, <1>5 DEF CronInv, CronTypeOK
<1>7. RunsAreQueued'
  BY <1>1, <1>2, <1>4, <1>5 DEF CronInv, RunsAreQueued
<1> QED BY <1>4, <1>6, <1>7 DEF CronInv

LEMMA CompleteStep ==
    ASSUME CronInv, NEW w \in Worker, NEW r \in Run, runs[r] # None, Complete(r, w)
    PROVE  /\ CronInv'
           /\ \A q \in Run : /\ runs[q] # None => runs'[q] # None
                             /\ q # r => runs'[q] = runs[q]
<1> DEFINE done == [runs[r] EXCEPT !.state = "succeeded", !.owner = None, !.leaseLeft = 0]
<1>1. runs[r] \in JobRuns /\ runs[r].owner = w /\ w # None /\ runs[r].state = "running"
  BY RunFacts, NoneAssumption DEF Complete, Owns
<1>2. done \in JobRuns /\ done.state = "succeeded" /\ done.owner = None
  <2>1. 0 \in LongAgo..Lease
    BY SchedulerAssumption DEF LongAgo
  <2> QED BY <1>1, <2>1 DEF JobRuns
<1>3. runs' = [runs EXCEPT ![r] = done]
  BY <1>1 DEF Complete, JobRuns
<1> HIDE DEF done
<1>4. runs \in [Run -> JobRuns \cup {None}] /\ done # None
  BY <1>2, NoneAssumption DEF CronInv, CronTypeOK
<1>5. /\ runs' \in [Run -> JobRuns \cup {None}] /\ runs'[r] = done
      /\ \A q \in Run : q # r => runs'[q] = runs[q]
  BY <1>2, <1>3, <1>4
<1>6. UNCHANGED <<nextSlot, nextIn, ready, delayed, claimAge, dropped>>
  BY DEF Complete
<1>7. CronTypeOK'
  BY <1>5, <1>6 DEF CronInv, CronTypeOK
<1>8. RunsAreQueued'
  BY <1>1, <1>2, <1>4, <1>5, <1>6 DEF CronInv, RunsAreQueued
<1> QED BY <1>4, <1>5, <1>7, <1>8 DEF CronInv

LEMMA RequeuedFacts ==
    ASSUME NEW run \in JobRuns
    PROVE  /\ Requeued(run) \in JobRuns /\ Requeued(run) # None /\ Requeued(run).owner = None
           /\ Requeued(run).state = (IF run.attempt < MaxAttempts THEN "pending" ELSE "dead")
<1>1. /\ run.attempt \in 1..MaxAttempts /\ MaxAttempts \in Nat \ {0}
      /\ 0 \in LongAgo..Lease
  BY SchedulerAssumption DEF JobRuns, LongAgo
<1>2. CASE run.attempt >= MaxAttempts
  <2>1. Requeued(run) = [run EXCEPT !.state = "dead", !.owner = None, !.leaseLeft = 0]
    BY <1>2 DEF Requeued
  <2>2. Requeued(run) \in JobRuns /\ Requeued(run).owner = None /\ Requeued(run).state = "dead"
    BY <1>1, <2>1 DEF JobRuns
  <2> QED BY <1>1, <1>2, <2>2, NoneAssumption
<1>3. CASE run.attempt < MaxAttempts
  <2>1. run.attempt + 1 \in 1..MaxAttempts /\ ~(run.attempt >= MaxAttempts)
    BY <1>1, <1>3
  <2>2. Backoff[run.attempt + 1] \in Int
    BY <2>1, SchedulerAssumption
  <2>3. Requeued(run) = [attempt |-> run.attempt + 1, state |-> "pending",
                         availableIn |-> Backoff[run.attempt + 1], owner |-> None, leaseLeft |-> 0]
    BY <2>1 DEF Requeued, JobRun
  <2>4. Requeued(run) \in JobRuns /\ Requeued(run).owner = None /\ Requeued(run).state = "pending"
    BY <1>1, <2>1, <2>2, <2>3 DEF JobRuns
  <2> QED BY <1>3, <2>4, NoneAssumption
<1> QED BY <1>1, <1>2, <1>3

\* Leases are taken from runs that are running.
LEMMA RequeueStep ==
    ASSUME CronInv, NEW R \in SUBSET Run, \A r \in R : runs[r] # None /\ runs[r].state = "running",
           Requeue(R), UNCHANGED <<nextSlot, nextIn, ready, claimAge, dropped>>
    PROVE  CronInv' /\ RunsStay
<1> DEFINE again == {r \in R : runs[r].attempt < MaxAttempts}
<1>1. /\ runs' = [r \in Run |-> IF r \in R THEN Requeued(runs[r]) ELSE runs[r]]
      /\ delayed' = delayed \cup again
  BY DEF Requeue
<1>2. \A r \in R : /\ runs'[r] \in JobRuns /\ runs'[r] # None /\ runs'[r].owner = None
                   /\ runs'[r].state = (IF r \in again THEN "pending" ELSE "dead")
                   /\ r \notin ready \cup delayed \cup dropped
  BY <1>1, RunFacts, RequeuedFacts
<1>3. \A r \in Run \ R : runs'[r] = runs[r]
  BY <1>1
<1>4. again \subseteq R
  OBVIOUS
<1>d. DOMAIN runs' = Run /\ runs' = [r \in Run |-> runs'[r]]
  BY <1>1
<1> HIDE DEF again
<1>5. CronTypeOK'
  <2>1. runs' \in [Run -> JobRuns \cup {None}]
    BY <1>d, <1>2, <1>3 DEF CronInv, CronTypeOK
  <2> QED BY <1>1, <1>4, <2>1 DEF CronInv, CronTypeOK
<1>6. RunsAreQueued'
  <2>1. ready' \cap delayed' = {}
    BY <1>1, <1>2, <1>4 DEF CronInv, RunsAreQueued
  <2>2. ASSUME NEW r \in Run
        PROVE  /\ (runs'[r] # None /\ runs'[r].state = "pending") <=> r \in ready' \cup delayed' \cup dropped'
               /\ runs'[r] # None => (runs'[r].owner # None <=> runs'[r].state = "running")
               /\ r \in dropped' => r \notin ready' \cup delayed'
    <3>1. CASE r \in R
      BY <1>1, <1>2, <3>1
    <3>2. CASE r \notin R
      BY <1>1, <1>3, <1>4, <3>2 DEF CronInv, RunsAreQueued
    <3> QED BY <3>1, <3>2
  <2> QED BY <2>1, <2>2 DEF RunsAreQueued
<1>7. RunsStay
  BY <1>2, <1>3 DEF RunsStay
<1> QED BY <1>5, <1>6, <1>7 DEF CronInv

LEMMA FailStep ==
    ASSUME CronInv, NEW w \in Worker, NEW r \in Run, runs[r] # None, Fail(r, w)
    PROVE  CronInv' /\ RunsStay
<1>1. runs[r].state = "running"
  BY RunFacts, NoneAssumption DEF Fail, Owns
<1>2. Requeue({r}) /\ UNCHANGED <<nextSlot, nextIn, ready, claimAge, dropped>>
  BY DEF Fail
<1> QED BY <1>1, <1>2, RequeueStep

LEMMA ReapStep ==
    ASSUME CronInv, NEW age \in Age, Reap(age)
    PROVE  CronInv' /\ RunsStay
<1> DEFINE R == {r \in Run : /\ runs[r] # None /\ runs[r].state = "running"
                            /\ runs[r].leaseLeft <= 0 - age}
<1>1. Requeue(R) /\ UNCHANGED <<nextSlot, nextIn, ready, claimAge, dropped>>
  BY DEF Reap
<1>2. R \in SUBSET Run /\ \A r \in R : runs[r] # None /\ runs[r].state = "running"
  OBVIOUS
<1> HIDE DEF R
<1> QED BY <1>1, <1>2, RequeueStep

\* Sooner keeps within the bounds.
LEMMA SoonerFacts ==
    /\ \A left \in Int : Sooner(left) \in Int
    /\ \A left \in LongAgo..Lease : Sooner(left) \in LongAgo..Lease
  BY SchedulerAssumption DEF Sooner, LongAgo

LEMMA CronPassesStep ==
    ASSUME CronInv, CronMayAge, CronPasses
    PROVE  CronInv' /\ RunsStay
<1>1. UNCHANGED <<nextSlot, ready, delayed, dropped>>
  BY DEF CronPasses
<1>2. DOMAIN nextIn' = Job /\ \A j \in Job : nextIn'[j] \in (0 - Span(j))..Interval[j]
  <2>1. DOMAIN nextIn' = Job
    BY DEF CronPasses
  <2>2. ASSUME NEW j \in Job PROVE nextIn'[j] \in (0 - Span(j))..Interval[j]
    <3>1. Span(j) \in Int /\ Interval[j] \in Int /\ nextIn[j] \in (0 - Span(j))..Interval[j]
      BY SchedulerAssumption DEF CronInv, CronTypeOK, Span
    <3>2. nextIn'[j] = IF nextSlot[j] <= MaxSlots /\ nextIn[j] > 0 - Span(j) THEN nextIn[j] - 1 ELSE nextIn[j]
      BY DEF CronPasses
    <3> QED BY <3>1, <3>2
  <2> QED BY <2>1, <2>2
<1>3. claimAge' \in [Worker -> Age \cup {None}]
  <2>1. ASSUME NEW w \in Worker PROVE Older(claimAge[w]) \in Age \cup {None}
    <3>1. claimAge[w] \in Age \cup {None} /\ MayAge(claimAge[w])
      BY DEF CronInv, CronTypeOK, CronMayAge
    <3> QED BY <3>1, SchedulerAssumption DEF Older, MayAge, Age
  <2> QED BY <2>1 DEF CronPasses
<1>4. ASSUME NEW r \in Run, runs[r] # None
      PROVE  /\ runs'[r] \in JobRuns /\ runs'[r] # None
             /\ runs'[r].state = runs[r].state /\ runs'[r].owner = runs[r].owner
  <2> DEFINE run == runs[r]
             available == IF run.state = "pending" THEN Sooner(run.availableIn) ELSE run.availableIn
             left == IF run.owner # None THEN Sooner(run.leaseLeft) ELSE run.leaseLeft
  <2>1. run \in JobRuns
    BY <1>4, RunFacts
  <2>2. runs'[r] = [run EXCEPT !.availableIn = available, !.leaseLeft = left]
    BY <1>4 DEF CronPasses
  <2>3. available \in Int /\ left \in LongAgo..Lease
    BY <2>1, SoonerFacts DEF JobRuns
  <2> HIDE DEF available, left, run
  <2>4. runs'[r] \in JobRuns /\ runs'[r].state = run.state /\ runs'[r].owner = run.owner
    BY <2>1, <2>2, <2>3 DEF JobRuns
  <2> QED BY <2>4, NoneAssumption DEF run
<1>5. \A r \in Run : runs[r] = None => runs'[r] = None
  BY DEF CronPasses
<1>6. CronTypeOK'
  <2>1. DOMAIN runs' = Run /\ runs' = [r \in Run |-> runs'[r]]
    BY DEF CronPasses
  <2>2. runs' \in [Run -> JobRuns \cup {None}]
    BY <1>4, <1>5, <2>1
  <2> QED BY <1>1, <1>2, <1>3, <2>2 DEF CronInv, CronTypeOK
<1>7. RunsAreQueued'
  BY <1>1, <1>4, <1>5 DEF CronInv, RunsAreQueued
<1>8. RunsStay
  BY <1>4, <1>5 DEF RunsStay
<1> QED BY <1>6, <1>7, <1>8 DEF CronInv

------------------------------------------------------------------------------
(* The idempotency store *)

LEMMA RecordFacts ==
    ASSUME I!StoreTypeOK, NEW k \in Run, records[k] # None
    PROVE  /\ records[k] \in I!Record /\ records[k].left \in Int
           /\ records[k].token \in Nat /\ records[k].token < nextToken
  BY DEF I!StoreTypeOK, I!Record

\* begin gives the key to a claim nobody has had.
LEMMA BeginNewFacts ==
    ASSUME I!StoreTypeOK, NEW k \in Run, NEW age \in Age, I!BeginNew(k, age)
    PROVE  /\ I!StoreTypeOK' /\ nextToken \in Nat \ {0} /\ nextToken' = nextToken + 1
           /\ records[k] # None => records[k].left <= 0
           /\ records'[k] # None /\ records'[k].token = nextToken
           /\ records'[k].state = "in_progress" /\ records'[k].left = InProgressTTL - age
           /\ \A q \in Run : q # k => records'[q] = records[q]
<1> DEFINE record == [state |-> "in_progress", token |-> nextToken, left |-> InProgressTTL - age]
<1>1. /\ records \in [Run -> I!Record \cup {None}] /\ nextToken \in Nat \ {0}
      /\ \A q \in Run : records[q] # None => records[q].token < nextToken
  BY DEF I!StoreTypeOK
<1>2. record \in I!Record /\ record # None
  BY <1>1, SchedulerAssumption, StoreAssumption, NoClaimAssumption DEF Age, I!Record
<1>3. /\ records' = [records EXCEPT ![k] = record] /\ nextToken' = nextToken + 1
      /\ records[k] # None => records[k].left <= 0 - age
  BY DEF I!BeginNew, I!Free, I!Expired
<1>4. records[k] # None => records[k].left <= 0
  BY <1>3, RecordFacts, SchedulerAssumption DEF Age
<1>5. /\ record.token = nextToken /\ record.state = "in_progress"
      /\ record.left = InProgressTTL - age
  OBVIOUS
<1> HIDE DEF record
<1>6. /\ records'[k] = record /\ records' \in [Run -> I!Record \cup {None}]
      /\ \A q \in Run : q # k => records'[q] = records[q]
  BY <1>1, <1>2, <1>3
<1>7. \A q \in Run : records'[q] # None => records'[q].token < nextToken'
  <2> SUFFICES ASSUME NEW q \in Run, records'[q] # None PROVE records'[q].token < nextToken'
    OBVIOUS
  <2>1. CASE q = k
    BY <1>1, <1>3, <1>5, <1>6, <2>1
  <2>2. CASE q # k
    <3>1. records[q].token \in Int /\ records[q].token < nextToken
      BY <1>1, <1>6, <2>2, RecordFacts
    <3> QED BY <1>1, <1>3, <1>6, <2>2, <3>1
  <2> QED BY <2>1, <2>2
<1>8. I!StoreTypeOK'
  BY <1>1, <1>3, <1>6, <1>7 DEF I!StoreTypeOK
<1> QED BY <1>1, <1>2, <1>3, <1>4, <1>5, <1>6, <1>8

\* complete keeps the claim in the record.
LEMMA StoreFacts ==
    ASSUME I!StoreTypeOK, NEW k \in Run, NEW token, I!Store(k, token)
    PROVE  /\ I!StoreTypeOK' /\ nextToken' = nextToken
           /\ records[k] # None /\ records[k].token = token
           /\ records'[k] # None /\ records'[k].token = token /\ records'[k].state = "completed"
           /\ \A q \in Run : q # k => records'[q] = records[q]
<1> DEFINE record == [state |-> "completed", token |-> token, left |-> ResponseTTL]
<1>1. /\ records[k] # None /\ records[k].token = token /\ nextToken' = nextToken
      /\ records' = [records EXCEPT ![k] = record]
  BY DEF I!Store, I!Current
<1>2. token \in Nat /\ token < nextToken /\ records \in [Run -> I!Record \cup {None}]
  BY <1>1 DEF I!StoreTypeOK, I!Record
<1>3. record \in I!Record /\ record # None
  BY <1>2, StoreAssumption, NoClaimAssumption DEF I!Record
<1>4. record.token = token /\ record.state = "completed"
  OBVIOUS
<1> HIDE DEF record
<1>5. /\ records'[k] = record /\ records' \in [Run -> I!Record \cup {None}]
      /\ \A q \in Run : q # k => records'[q] = records[q]
  BY <1>1, <1>2, <1>3
<1>6. I!StoreTypeOK'
  BY <1>1, <1>2, <1>4, <1>5 DEF I!StoreTypeOK
<1> QED BY <1>1, <1>3, <1>4, <1>5, <1>6

\* release forgets a claim that is in progress.
LEMMA DropFacts ==
    ASSUME I!StoreTypeOK, NEW k \in Run, NEW token, I!Drop(k, token)
    PROVE  /\ I!StoreTypeOK' /\ nextToken' = nextToken
           /\ \A q \in Run : \/ records'[q] = records[q]
                             \/ /\ q = k /\ records[q] # None /\ records[q].token = token
                                /\ records[q].state = "in_progress" /\ records'[q] = None
<1>1. nextToken' = nextToken /\ records \in [Run -> I!Record \cup {None}]
  BY DEF I!StoreTypeOK, I!Drop
<1>2. CASE I!Current(k, token) /\ records[k].state = "in_progress"
  <2>1. records' = [records EXCEPT ![k] = None]
    BY <1>2 DEF I!Drop
  <2> QED BY <1>1, <1>2, <2>1 DEF I!StoreTypeOK, I!Current
<1>3. CASE ~(I!Current(k, token) /\ records[k].state = "in_progress")
  <2>1. records' = records
    BY <1>3 DEF I!Drop
  <2> QED BY <1>1, <2>1 DEF I!StoreTypeOK
<1> QED BY <1>2, <1>3

LEMMA PurgeFacts ==
    ASSUME I!StoreTypeOK, NEW age \in Age, I!Purge(age)
    PROVE  /\ I!StoreTypeOK' /\ nextToken' = nextToken
           /\ \A q \in Run : \/ records'[q] = records[q]
                             \/ records[q].left <= 0 /\ records'[q] = None
<1>1. /\ nextToken' = nextToken /\ records \in [Run -> I!Record \cup {None}]
      /\ records' = [q \in Run |-> IF I!Expired(q, age) THEN None ELSE records[q]]
  BY DEF I!StoreTypeOK, I!Purge
<1>2. ASSUME NEW q \in Run, I!Expired(q, age) PROVE records[q].left <= 0 /\ records'[q] = None
  <2>1. records[q].left \in Int /\ records[q].left <= 0 - age
    BY <1>2, RecordFacts DEF I!Expired
  <2> QED BY <1>1, <1>2, <2>1, SchedulerAssumption DEF Age
<1>3. \A q \in Run : ~I!Expired(q, age) => records'[q] = records[q]
  BY <1>1
<1>4. I!StoreTypeOK'
  BY <1>1, <1>2, <1>3 DEF I!StoreTypeOK
<1> QED BY <1>1, <1>2, <1>3, <1>4

\* Time takes one from what is left of a record, until that is far below zero.
LEMMA StorePassesFacts ==
    ASSUME I!StoreTypeOK, I!StorePasses
    PROVE  /\ I!StoreTypeOK' /\ nextToken' = nextToken
           /\ \A q \in Run : records[q] = None => records'[q] = None
           /\ \A q \in Run : records[q] # None =>
                 /\ records'[q] # None
                 /\ records'[q].state = records[q].state /\ records'[q].token = records[q].token
                 /\ records'[q].left >= records[q].left - 1
<1>1. /\ nextToken' = nextToken /\ nextToken \in Nat \ {0}
      /\ records \in [Run -> I!Record \cup {None}]
      /\ DOMAIN records' = Run /\ records' = [q \in Run |-> records'[q]]
  BY DEF I!StoreTypeOK, I!StorePasses
<1>2. \A q \in Run : records[q] = None => records'[q] = None
  BY DEF I!StorePasses
<1>3. ASSUME NEW q \in Run, records[q] # None
      PROVE  /\ records'[q] # None /\ records'[q] \in I!Record
             /\ records'[q].state = records[q].state /\ records'[q].token = records[q].token
             /\ records'[q].left >= records[q].left - 1
  <2> DEFINE record == records[q]
  <2>1. record \in I!Record /\ record # None
    BY <1>3, RecordFacts
  <2>2. records'[q] = record \/ records'[q] = [record EXCEPT !.left = @ - 1]
    BY <1>3 DEF I!StorePasses
  <2> HIDE DEF record
  <2>3. /\ records'[q] \in I!Record
        /\ records'[q].state = record.state /\ records'[q].token = record.token
        /\ records'[q].left >= record.left - 1
    BY <2>1, <2>2 DEF I!Record
  <2> QED BY <2>1, <2>3, NoClaimAssumption DEF record
<1>4. records' \in [Run -> I!Record \cup {None}]
  BY <1>1, <1>2, <1>3
<1>5. I!StoreTypeOK'
  BY <1>1, <1>2, <1>3, <1>4 DEF I!StoreTypeOK
<1> QED BY <1>1, <1>2, <1>3, <1>5

------------------------------------------------------------------------------
(* The workers *)

Places == {"idle", "claiming", "claimed", "beginning", "handling", "recording",
           "reporting", "failing"}

LEMMA MoveFacts ==
    ASSUME TypeOK, NEW w \in Worker, NEW from, NEW to \in Places, Goto(w, from, to)
    PROVE  /\ pc' \in [Worker -> Places] /\ pc[w] = from /\ pc'[w] = to
           /\ \A v \in Worker : v # w => pc'[v] = pc[v]
<1>1. pc \in [Worker -> Places]
  BY DEF TypeOK, Places
<1> QED BY <1>1 DEF Goto

LEMMA ClaimFacts ==
    ASSUME TypeOK, WorkersInv, NEW w \in Worker, pc[w] \in Handling
    PROVE  /\ claim[w] \in Claim /\ claim[w] # None
           /\ claim[w].token \in Nat \ {0} /\ claim[w].token < nextToken /\ claim[w].left \in Int
           /\ job[w] \in Run /\ runs[job[w]] # None
<1>1. claim[w] # None /\ job[w] \in Run /\ runs[job[w]] # None
  BY DEF WorkersInv, Handling
<1>2. claim[w] \in Claim /\ claim[w].token < nextToken
  BY <1>1 DEF TypeOK
<1>3. LongAgo \in Int /\ InProgressTTL \in Int
  BY SchedulerAssumption, StoreAssumption DEF LongAgo
<1> QED BY <1>1, <1>2, <1>3 DEF Claim

\* What the workers know of the runs outlives every step of the scheduler but a report.
LEMMA SchedulerSteps ==
    ASSUME Inv, CronInv', RunsStay, UNCHANGED <<storeVars, workerVars, effects>>
    PROVE  Inv'
<1>1. UNCHANGED <<records, nextToken, pc, job, claim, beginAge, effects>>
  BY DEF storeVars, workerVars
<1>2. TypeOK' /\ RunsAreQueued'
  BY <1>1 DEF Inv, TypeOK, CronInv, I!StoreTypeOK
<1>3. WorkersInv'
  BY <1>1 DEF Inv, WorkersInv, RunsStay
<1>4. ClaimsDiffer' /\ ClaimsStand' /\ ReportsHaveEffects'
  BY <1>1 DEF Inv, ClaimsDiffer, ClaimsStand, ClaimStands, ReportsHaveEffects
<1>5. ResponsesHaveEffects'
  BY <1>1 DEF Inv, ResponsesHaveEffects, RunsStay
<1> QED BY <1>2, <1>3, <1>4, <1>5 DEF Inv

\* The same for a worker that goes where nothing is asked of its claim.
LEMMA QuietMoves ==
    ASSUME Inv, CronInv', RunsStay, UNCHANGED storeVars, NEW w \in Worker,
           effects' \in [Run -> SUBSET (1..(nextToken - 1))], \A r \in Run : effects[r] \subseteq effects'[r],
           pc' \in [Worker -> Places], pc'[w] \in {"idle", "claiming", "claimed", "beginning", "failing"},
           job' \in [Worker -> Run \cup {None}], claim' \in [Worker -> Claim \cup {None}],
           beginAge' \in [Worker -> Age \cup {None}],
           claim'[w] \in {claim[w], None},
           pc'[w] \notin {"idle", "claiming"} => job'[w] \in Run /\ runs'[job'[w]] # None,
           pc'[w] = "beginning" => beginAge'[w] # None,
           \A v \in Worker : v # w => /\ pc'[v] = pc[v] /\ job'[v] = job[v]
                                     /\ claim'[v] = claim[v] /\ beginAge'[v] = beginAge[v]
    PROVE  Inv'
<1>1. UNCHANGED <<records, nextToken>>
  BY DEF storeVars
<1>2. TypeOK' /\ RunsAreQueued'
  <2>1. \A v \in Worker : claim'[v] # None => claim'[v].token < nextToken'
    BY <1>1 DEF Inv, TypeOK
  <2> QED BY <1>1, <2>1 DEF Inv, TypeOK, CronInv, I!StoreTypeOK, Places
<1>3. WorkersInv'
  BY <1>1 DEF Inv, WorkersInv, RunsStay, Handling
<1>4. pc'[w] \notin Handling /\ pc'[w] \notin {"recording", "reporting"}
  BY DEF Handling
<1>5. ClaimsDiffer'
  BY <1>4 DEF Inv, ClaimsDiffer
<1>6. ClaimsStand'
  BY <1>1, <1>4 DEF Inv, ClaimsStand, ClaimStands
<1>7. ReportsHaveEffects'
  <2> SUFFICES ASSUME NEW v \in Worker
               PROVE  /\ pc'[v] = "recording" => claim'[v].token \in effects'[job'[v]]
                      /\ pc'[v] = "reporting" => effects'[job'[v]] # {}
    BY DEF ReportsHaveEffects
  <2>1. CASE v = w
    BY <1>4, <2>1
  <2>2. CASE v # w
    <3>1. pc[v] \in {"recording", "reporting"} => job[v] \in Run
      BY DEF Inv, WorkersInv
    <3> QED BY <2>2, <3>1 DEF Inv, ReportsHaveEffects
  <2> QED BY <2>1, <2>2
<1>8. ResponsesHaveEffects'
  BY <1>1 DEF Inv, ResponsesHaveEffects, RunsStay
<1> QED BY <1>2, <1>3, <1>5, <1>6, <1>7, <1>8 DEF Inv

\* What Inv says of the variables a worker's step leaves alone.
LEMMA WorkerTypes ==
    ASSUME Inv
    PROVE  /\ CronInv /\ I!StoreTypeOK
           /\ pc \in [Worker -> Places] /\ job \in [Worker -> Run \cup {None}]
           /\ claim \in [Worker -> Claim \cup {None}] /\ beginAge \in [Worker -> Age \cup {None}]
           /\ effects \in [Run -> SUBSET (1..(nextToken - 1))]
  BY DEF Inv, TypeOK, CronInv, Places

LEMMA AskStep ==
    ASSUME Inv, NEW w \in Worker, Ask(w)
    PROVE  Inv'
<1>1. CronInv' /\ RunsStay
  BY WorkerTypes, ClaimStartStep DEF Ask
<1>2. /\ pc' \in [Worker -> Places] /\ pc'[w] = "claiming"
      /\ \A v \in Worker : v # w => pc'[v] = pc[v]
  BY WorkerTypes DEF Ask, Goto, Places
<1>3. UNCHANGED <<storeVars, job, claim, beginAge, effects>>
  BY DEF Ask
<1> QED BY <1>1, <1>2, <1>3, WorkerTypes, QuietMoves

LEMMA ReceiveStep ==
    ASSUME Inv, NEW w \in Worker, Receive(w)
    PROVE  Inv'
<1>1. UNCHANGED <<storeVars, claim, beginAge, effects>>
  BY DEF Receive
<1>2. CASE ClaimNothing(w) /\ Goto(w, "claiming", "idle") /\ UNCHANGED job
  <2>1. CronInv' /\ RunsStay
    BY <1>2, WorkerTypes, ClaimNothingStep
  <2>2. /\ pc' \in [Worker -> Places] /\ pc'[w] = "idle"
        /\ \A v \in Worker : v # w => pc'[v] = pc[v]
    BY <1>2, WorkerTypes DEF Goto, Places
  <2> QED BY <1>1, <1>2, <2>1, <2>2, WorkerTypes, QuietMoves
<1>3. ASSUME NEW r \in Run, ClaimRun(w, r), Goto(w, "claiming", "claimed"),
             job' = [job EXCEPT ![w] = r]
      PROVE  Inv'
  <2>1. CronInv' /\ RunsStay /\ runs'[r] # None
    BY <1>3, WorkerTypes, ClaimRunStep
  <2>2. /\ pc' \in [Worker -> Places] /\ pc'[w] = "claimed"
        /\ \A v \in Worker : v # w => pc'[v] = pc[v]
    BY <1>3, WorkerTypes DEF Goto, Places
  <2>3. /\ job' \in [Worker -> Run \cup {None}] /\ job'[w] = r
        /\ \A v \in Worker : v # w => job'[v] = job[v]
    BY <1>3, WorkerTypes
  <2> QED BY <1>1, <2>1, <2>2, <2>3, WorkerTypes, QuietMoves
<1> QED BY <1>2, <1>3 DEF Receive

\* Without a step of the scheduler.
LEMMA SchedulerRests ==
    ASSUME Inv, UNCHANGED cronVars
    PROVE  CronInv' /\ RunsStay
<1>1. UNCHANGED <<nextSlot, nextIn, runs, ready, delayed, claimAge, dropped>>
  BY DEF cronVars
<1> QED BY <1>1, WorkerTypes DEF CronInv, CronTypeOK, RunsAreQueued, RunsStay

LEMMA BeginStartStep ==
    ASSUME Inv, NEW w \in Worker, BeginStart(w)
    PROVE  Inv'
<1>1. CronInv' /\ RunsStay /\ UNCHANGED <<runs, storeVars, job, claim, effects>>
  BY SchedulerRests DEF BeginStart, cronVars
<1>2. /\ pc' \in [Worker -> Places] /\ pc'[w] = "beginning" /\ pc[w] = "claimed"
      /\ \A v \in Worker : v # w => pc'[v] = pc[v]
  BY WorkerTypes DEF BeginStart, Goto, Places
<1>3. /\ beginAge' \in [Worker -> Age \cup {None}] /\ beginAge'[w] # None
      /\ \A v \in Worker : v # w => beginAge'[v] = beginAge[v]
  BY WorkerTypes, SchedulerAssumption, NoneAssumption DEF BeginStart, Age
<1>4. job[w] \in Run /\ runs[job[w]] # None
  BY <1>2 DEF Inv, WorkersInv
<1> QED BY <1>1, <1>2, <1>3, <1>4, WorkerTypes, QuietMoves

LEMMA ReportFailureStep ==
    ASSUME Inv, NEW w \in Worker, ReportFailure(w)
    PROVE  Inv'
<1>1. /\ pc' \in [Worker -> Places] /\ pc'[w] = "idle" /\ pc[w] = "failing"
      /\ job' \in [Worker -> Run \cup {None}] /\ claim' \in [Worker -> Claim \cup {None}]
      /\ claim'[w] = None /\ UNCHANGED <<beginAge, storeVars, effects>>
      /\ \A v \in Worker : v # w => pc'[v] = pc[v] /\ job'[v] = job[v] /\ claim'[v] = claim[v]
  BY WorkerTypes DEF ReportFailure, Return, Goto, Places
<1>2. job[w] \in Run /\ runs[job[w]] # None
  BY <1>1 DEF Inv, WorkersInv
<1>3. CronInv' /\ RunsStay
  <2>1. CASE Fail(job[w], w)
    BY <1>2, <2>1, WorkerTypes, FailStep
  <2>2. CASE UNCHANGED cronVars
    BY <2>2, SchedulerRests
  <2> QED BY <2>1, <2>2 DEF ReportFailure
<1> QED BY <1>1, <1>3, WorkerTypes, QuietMoves

LEMMA CrashStep ==
    ASSUME Inv, NEW w \in Worker, Crash(w)
    PROVE  Inv'
<1>1. /\ pc' \in [Worker -> Places] /\ pc'[w] = "idle"
      /\ job' \in [Worker -> Run \cup {None}] /\ claim' \in [Worker -> Claim \cup {None}]
      /\ claim'[w] = None
      /\ beginAge' \in [Worker -> Age \cup {None}]
      /\ UNCHANGED <<storeVars, effects>>
      /\ \A v \in Worker : v # w => /\ pc'[v] = pc[v] /\ job'[v] = job[v]
                                   /\ claim'[v] = claim[v] /\ beginAge'[v] = beginAge[v]
  BY WorkerTypes DEF Crash, Places
<1>2. CronInv' /\ RunsStay
  BY WorkerTypes DEF Crash, CronInv, CronTypeOK, RunsAreQueued, RunsStay
<1> QED BY <1>1, <1>2, WorkerTypes, QuietMoves

LEMMA HandleStep ==
    ASSUME Inv, NEW w \in Worker, Handle(w)
    PROVE  Inv'
<1>1. /\ pc' \in [Worker -> Places] /\ pc[w] = "handling" /\ pc'[w] = "recording"
      /\ \A v \in Worker : v # w => pc'[v] = pc[v]
  BY WorkerTypes DEF Handle, Goto, Places
<1>2. CronInv' /\ RunsStay /\ UNCHANGED <<runs, records, nextToken, job, claim, beginAge>>
  BY SchedulerRests DEF Handle, cronVars, storeVars
<1>3. /\ claim[w].token \in Nat \ {0} /\ claim[w].token < nextToken /\ nextToken \in Nat
      /\ job[w] \in Run
  BY <1>1, WorkerTypes, ClaimFacts DEF Inv, Handling, I!StoreTypeOK
<1>4. /\ effects' \in [Run -> SUBSET (1..(nextToken - 1))] /\ claim[w].token \in effects'[job[w]]
      /\ \A r \in Run : effects[r] \subseteq effects'[r]
  <2>1. claim[w].token \in 1..(nextToken - 1)
    BY <1>3
  <2>2. effects' = [effects EXCEPT ![job[w]] = @ \cup {claim[w].token}]
    BY DEF Handle, TakesEffect
  <2> QED BY <1>3, <2>1, <2>2, WorkerTypes
<1>5. TypeOK' /\ RunsAreQueued'
  BY <1>1, <1>2, <1>4 DEF Inv, TypeOK, CronInv, I!StoreTypeOK, Places
<1>6. WorkersInv'
  BY <1>1, <1>2 DEF Inv, WorkersInv, Handling
<1>7. ClaimsDiffer' /\ ClaimsStand'
  BY <1>1, <1>2 DEF Inv, ClaimsDiffer, ClaimsStand, ClaimStands, Handling
<1>8. ReportsHaveEffects'
  <2>1. \A v \in Worker : pc[v] \in {"recording", "reporting"} => job[v] \in Run
    BY DEF Inv, WorkersInv
  <2> QED BY <1>1, <1>2, <1>4, <2>1 DEF Inv, ReportsHaveEffects
<1>9. ResponsesHaveEffects'
  BY <1>2, <1>4 DEF Inv, ResponsesHaveEffects
<1> QED BY <1>5, <1>6, <1>7, <1>8, <1>9 DEF Inv

LEMMA HandlerRaisesStep ==
    ASSUME Inv, NEW w \in Worker, HandlerRaises(w)
    PROVE  Inv'
<1>1. /\ pc' \in [Worker -> Places] /\ pc[w] = "handling" /\ pc'[w] = "failing"
      /\ \A v \in Worker : v # w => pc'[v] = pc[v]
  BY WorkerTypes DEF HandlerRaises, Goto, Places
<1>2. CronInv' /\ RunsStay /\ UNCHANGED <<runs, job, claim, beginAge>>
  BY SchedulerRests DEF HandlerRaises, cronVars
<1>3. /\ claim[w].token \in Nat \ {0} /\ claim[w].token < nextToken /\ nextToken \in Nat
      /\ job[w] \in Run /\ runs[job[w]] # None
  BY <1>1, WorkerTypes, ClaimFacts DEF Inv, Handling, I!StoreTypeOK
<1>4. CASE (TakesEffect(w) \/ UNCHANGED effects) /\ UNCHANGED storeVars
  <2>1. /\ effects' \in [Run -> SUBSET (1..(nextToken - 1))]
        /\ \A r \in Run : effects[r] \subseteq effects'[r]
    <3>1. claim[w].token \in 1..(nextToken - 1)
      BY <1>3
    <3> QED BY <1>3, <1>4, <3>1, WorkerTypes DEF TakesEffect
  <2> QED BY <1>1, <1>2, <1>3, <1>4, <2>1, WorkerTypes, QuietMoves
<1>5. CASE I!Drop(job[w], claim[w].token) /\ UNCHANGED effects
  <2>1. /\ I!StoreTypeOK' /\ nextToken' = nextToken
        /\ \A q \in Run : \/ records'[q] = records[q]
                          \/ /\ q = job[w] /\ records[q] # None /\ records[q].token = claim[w].token
                             /\ records[q].state = "in_progress" /\ records'[q] = None
    BY <1>3, <1>5, WorkerTypes, DropFacts
  <2>2. TypeOK' /\ RunsAreQueued'
    BY <1>1, <1>2, <1>5, <2>1 DEF Inv, TypeOK, CronInv, Places
  <2>3. WorkersInv'
    BY <1>1, <1>2 DEF Inv, WorkersInv, Handling
  <2>4. ClaimsDiffer'
    BY <1>1, <1>2 DEF Inv, ClaimsDiffer, Handling
  <2>5. ClaimsStand'
    <3> SUFFICES ASSUME NEW v \in Worker, pc'[v] \in Handling PROVE ClaimStands(v)'
      BY DEF ClaimsStand
    <3>1. v # w /\ pc[v] \in Handling
      BY <1>1 DEF Handling
    <3>2. job[v] \in Run /\ claim[v].token # claim[w].token /\ ClaimStands(v)
      BY <1>1, <3>1 DEF Inv, ClaimsDiffer, ClaimsStand, WorkersInv, Handling
    <3> QED BY <1>2, <2>1, <3>2 DEF ClaimStands
  <2>6. ReportsHaveEffects'
    BY <1>1, <1>2, <1>5 DEF Inv, ReportsHaveEffects
  <2>7. ResponsesHaveEffects'
    BY <1>2, <1>5, <2>1 DEF Inv, ResponsesHaveEffects
  <2> QED BY <2>2, <2>3, <2>4, <2>5, <2>6, <2>7 DEF Inv
<1> QED BY <1>4, <1>5 DEF HandlerRaises

LEMMA RecordResponseStep ==
    ASSUME Inv, NEW w \in Worker, RecordResponse(w)
    PROVE  Inv'
<1>1. CronInv' /\ RunsStay /\ UNCHANGED <<runs, job, claim, beginAge, effects>>
  BY SchedulerRests DEF RecordResponse, cronVars
<1>2. pc[w] = "recording"
  BY DEF RecordResponse, Goto
<1>3. /\ claim[w].token \in Nat \ {0} /\ job[w] \in Run /\ runs[job[w]] # None
      /\ claim[w].token \in effects[job[w]]
  BY <1>2, ClaimFacts DEF Inv, Handling, ReportsHaveEffects
<1>4. CASE Goto(w, "recording", "failing") /\ UNCHANGED storeVars
  <2>1. /\ pc' \in [Worker -> Places] /\ pc'[w] = "failing"
        /\ \A v \in Worker : v # w => pc'[v] = pc[v]
    BY <1>4, WorkerTypes DEF Goto, Places
  <2> QED BY <1>1, <1>3, <1>4, <2>1, WorkerTypes, QuietMoves
<1>5. CASE Goto(w, "recording", "reporting") /\ I!Store(job[w], claim[w].token)
  <2>1. /\ pc' \in [Worker -> Places] /\ pc'[w] = "reporting"
        /\ \A v \in Worker : v # w => pc'[v] = pc[v]
    BY <1>5, WorkerTypes DEF Goto, Places
  <2>2. /\ I!StoreTypeOK' /\ nextToken' = nextToken
        /\ records[job[w]] # None /\ records[job[w]].token = claim[w].token
        /\ records'[job[w]] # None /\ records'[job[w]].token = claim[w].token
        /\ records'[job[w]].state = "completed"
        /\ \A q \in Run : q # job[w] => records'[q] = records[q]
    BY <1>3, <1>5, WorkerTypes, StoreFacts
  <2>3. TypeOK' /\ RunsAreQueued'
    BY <1>1, <2>1, <2>2 DEF Inv, TypeOK, CronInv, Places
  <2>4. WorkersInv'
    BY <1>1, <1>2, <2>1 DEF Inv, WorkersInv, Handling
  <2>5. ClaimsDiffer'
    BY <1>1, <2>1 DEF Inv, ClaimsDiffer, Handling
  <2>6. ClaimsStand'
    <3> SUFFICES ASSUME NEW v \in Worker, pc'[v] \in Handling PROVE ClaimStands(v)'
      BY DEF ClaimsStand
    <3>1. v # w /\ pc[v] \in Handling
      BY <2>1 DEF Handling
    <3>2. job[v] \in Run /\ claim[v].token # claim[w].token /\ ClaimStands(v)
      BY <1>2, <3>1 DEF Inv, ClaimsDiffer, ClaimsStand, WorkersInv, Handling
    <3> QED BY <1>1, <2>2, <3>2 DEF ClaimStands
  <2>7. ReportsHaveEffects'
    BY <1>1, <1>3, <2>1 DEF Inv, ReportsHaveEffects
  <2>8. ResponsesHaveEffects'
    BY <1>1, <1>3, <2>2 DEF Inv, ResponsesHaveEffects
  <2> QED BY <2>3, <2>4, <2>5, <2>6, <2>7, <2>8 DEF Inv
<1> QED BY <1>4, <1>5 DEF RecordResponse

LEMMA BeginStep ==
    ASSUME Inv, NEW w \in Worker, Begin(w)
    PROVE  Inv'
<1> DEFINE k == job[w]
           age == beginAge[w]
<1>1. CronInv' /\ RunsStay /\ UNCHANGED <<runs, job, effects>>
  BY SchedulerRests DEF Begin, cronVars
<1>2. pc[w] = "beginning" /\ k \in Run /\ runs[k] # None /\ age \in Age
  <2>1. pc[w] = "beginning"
    BY DEF Begin, Goto
  <2>2. k \in Run /\ runs[k] # None /\ age # None
    BY <2>1 DEF Inv, WorkersInv
  <2> QED BY <2>1, <2>2, WorkerTypes
<1>3. /\ beginAge' \in [Worker -> Age \cup {None}]
      /\ \A v \in Worker : v # w => beginAge'[v] = beginAge[v]
  BY WorkerTypes DEF Begin
<1>4. CASE Goto(w, "beginning", "failing") /\ UNCHANGED <<storeVars, claim>>
  <2>1. /\ pc' \in [Worker -> Places] /\ pc'[w] = "failing"
        /\ \A v \in Worker : v # w => pc'[v] = pc[v]
    BY <1>4, WorkerTypes DEF Goto, Places
  <2> QED BY <1>1, <1>2, <1>3, <1>4, <2>1, WorkerTypes, QuietMoves
<1>5. CASE Goto(w, "beginning", "reporting") /\ I!Replays(k, age) /\ UNCHANGED <<storeVars, claim>>
  <2>1. /\ pc' \in [Worker -> Places] /\ pc'[w] = "reporting"
        /\ \A v \in Worker : v # w => pc'[v] = pc[v]
    BY <1>5, WorkerTypes DEF Goto, Places
  <2>2. UNCHANGED <<records, nextToken, claim>>
    BY <1>5 DEF storeVars
  <2>3. effects[k] # {}
    <3>1. records[k] # None /\ records[k].state = "completed"
      BY <1>5 DEF I!Replays, I!Free
    <3> QED BY <1>2, <3>1 DEF Inv, ResponsesHaveEffects
  <2>4. TypeOK' /\ RunsAreQueued'
    BY <1>1, <1>3, <2>1, <2>2 DEF Inv, TypeOK, CronInv, I!StoreTypeOK, Places
  <2>5. WorkersInv'
    BY <1>1, <1>2, <1>3, <2>1, <2>2 DEF Inv, WorkersInv, Handling
  <2>6. ClaimsDiffer' /\ ClaimsStand'
    BY <1>1, <2>1, <2>2 DEF Inv, ClaimsDiffer, ClaimsStand, ClaimStands, Handling
  <2>7. ReportsHaveEffects' /\ ResponsesHaveEffects'
    BY <1>1, <2>1, <2>2, <2>3 DEF Inv, ReportsHaveEffects, ResponsesHaveEffects
  <2> QED BY <2>4, <2>5, <2>6, <2>7 DEF Inv
<1>6. CASE /\ Goto(w, "beginning", "handling") /\ I!BeginNew(k, age)
           /\ claim' = [claim EXCEPT ![w] = [token |-> nextToken, left |-> InProgressTTL - age]]
  <2> DEFINE mine == [token |-> nextToken, left |-> InProgressTTL - age]
  <2>1. /\ pc' \in [Worker -> Places] /\ pc'[w] = "handling"
        /\ \A v \in Worker : v # w => pc'[v] = pc[v]
    BY <1>6, WorkerTypes DEF Goto, Places
  <2>2. /\ I!StoreTypeOK' /\ nextToken \in Nat \ {0} /\ nextToken' = nextToken + 1
        /\ records[k] # None => records[k].left <= 0
        /\ records'[k] # None /\ records'[k].token = nextToken
        /\ records'[k].state = "in_progress" /\ records'[k].left = InProgressTTL - age
        /\ \A q \in Run : q # k => records'[q] = records[q]
    BY <1>2, <1>6, WorkerTypes, BeginNewFacts
  <2>3. mine \in Claim /\ mine # None /\ mine.token = nextToken /\ mine.left = InProgressTTL - age
    <3>1. InProgressTTL - age \in LongAgo..InProgressTTL
      BY <1>2, SchedulerAssumption, StoreAssumption DEF Age, LongAgo
    <3> QED BY <2>2, <3>1, NoClaimAssumption DEF Claim
  <2>4. claim' = [claim EXCEPT ![w] = mine]
    BY <1>6
  <2>i. InProgressTTL - age \in Int
    BY <1>2, SchedulerAssumption, StoreAssumption DEF Age
  <2> HIDE DEF mine
  <2>5. /\ claim' \in [Worker -> Claim \cup {None}] /\ claim'[w] = mine
        /\ \A v \in Worker : v # w => claim'[v] = claim[v]
    BY <2>3, <2>4, WorkerTypes
  <2>6. TypeOK' /\ RunsAreQueued'
    <3>1. \A v \in Worker : claim'[v] # None => claim'[v].token < nextToken'
      <4> SUFFICES ASSUME NEW v \in Worker, claim'[v] # None PROVE claim'[v].token < nextToken'
        OBVIOUS
      <4>1. CASE v = w
        BY <2>2, <2>3, <2>5, <4>1
      <4>2. CASE v # w
        <5>1. claim[v] \in Claim /\ claim[v].token < nextToken
          BY <2>5, <4>2 DEF Inv, TypeOK
        <5> QED BY <2>2, <2>5, <4>2, <5>1 DEF Claim
      <4> QED BY <4>1, <4>2
    <3>2. 1..(nextToken - 1) \subseteq 1..(nextToken' - 1)
      BY <2>2
    <3>3. effects' \in [Run -> SUBSET (1..(nextToken' - 1))]
      BY <1>1, <3>2, WorkerTypes
    <3> QED BY <1>1, <1>3, <2>1, <2>2, <2>5, <3>1, <3>3 DEF Inv, TypeOK, CronInv, Places
  <2>7. WorkersInv'
    BY <1>1, <1>2, <1>3, <2>1, <2>3, <2>5 DEF Inv, WorkersInv, Handling
  <2>8. ASSUME NEW v \in Worker, v # w, pc'[v] \in Handling
        PROVE  /\ pc[v] \in Handling /\ claim'[v] = claim[v] /\ claim[v].token \in Nat
               /\ claim[v].token < nextToken /\ claim[v].left \in Int /\ job[v] \in Run
    BY <2>1, <2>5, <2>8, ClaimFacts DEF Inv
  <2>9. ClaimsDiffer'
    <3> SUFFICES ASSUME NEW u \in Worker, NEW v \in Worker, u # v,
                        pc'[u] \in Handling, pc'[v] \in Handling
                 PROVE  claim'[u].token # claim'[v].token
      BY DEF ClaimsDiffer
    <3>1. CASE u = w
      BY <2>2, <2>3, <2>5, <2>8, <3>1
    <3>2. CASE v = w
      BY <2>2, <2>3, <2>5, <2>8, <3>2
    <3>3. CASE u # w /\ v # w
      BY <2>8, <3>3 DEF Inv, ClaimsDiffer
    <3> QED BY <3>1, <3>2, <3>3
  <2>10. ClaimsStand'
    <3> SUFFICES ASSUME NEW v \in Worker, pc'[v] \in Handling PROVE ClaimStands(v)'
      BY DEF ClaimsStand
    <3>1. CASE v = w
      <4>1. claim'[v].token = nextToken /\ claim'[v].left = InProgressTTL - age /\ job'[v] = k
        BY <1>1, <2>3, <2>5, <3>1
      <4> QED BY <2>2, <2>i, <4>1 DEF ClaimStands
    <3>2. CASE v # w
      <4>1. ClaimStands(v) /\ job[v] \in Run /\ claim'[v] = claim[v] /\ claim[v].left \in Int
        BY <2>8, <3>2 DEF Inv, ClaimsStand
      <4>2. CASE job[v] = k
        <5>1. ~(claim[v].left > 0)
          <6> SUFFICES ASSUME claim[v].left > 0 PROVE FALSE
            OBVIOUS
          <6>1. records[k] # None /\ records[k].left >= claim[v].left /\ records[k].left <= 0
            BY <2>2, <4>1, <4>2 DEF ClaimStands
          <6>2. records[k].left \in Int
            BY <1>2, <6>1, WorkerTypes, RecordFacts
          <6> QED BY <4>1, <6>1, <6>2
        <5> QED BY <4>1, <5>1 DEF ClaimStands
      <4>3. CASE job[v] # k
        BY <1>1, <2>2, <4>1, <4>3 DEF ClaimStands
      <4> QED BY <4>2, <4>3
    <3> QED BY <3>1, <3>2
  <2>11. ReportsHaveEffects'
    <3>1. \A v \in Worker : pc'[v] \in {"recording", "reporting"} => v # w /\ pc'[v] = pc[v]
      BY <2>1
    <3> QED BY <1>1, <2>5, <3>1 DEF Inv, ReportsHaveEffects
  <2>12. ResponsesHaveEffects'
    BY <1>1, <2>2 DEF Inv, ResponsesHaveEffects
  <2> QED BY <2>6, <2>7, <2>9, <2>10, <2>11, <2>12 DEF Inv
<1> QED BY <1>4, <1>5, <1>6 DEF Begin

LEMMA ReportStep ==
    ASSUME Inv, NEW w \in Worker, Report(w)
    PROVE  Inv'
<1>1. /\ pc' \in [Worker -> Places] /\ pc'[w] = "idle" /\ pc[w] = "reporting"
      /\ job' \in [Worker -> Run \cup {None}] /\ claim' \in [Worker -> Claim \cup {None}]
      /\ claim'[w] = None /\ UNCHANGED <<beginAge, records, nextToken, effects>>
      /\ \A v \in Worker : v # w => pc'[v] = pc[v] /\ job'[v] = job[v] /\ claim'[v] = claim[v]
  BY WorkerTypes DEF Report, Return, Goto, Places, storeVars
<1>2. job[w] \in Run /\ runs[job[w]] # None /\ effects[job[w]] # {}
  BY <1>1 DEF Inv, WorkersInv, ReportsHaveEffects
<1>3. CASE Complete(job[w], w)
  <2>1. /\ CronInv'
        /\ \A q \in Run : /\ runs[q] # None => runs'[q] # None
                          /\ q # job[w] => runs'[q] = runs[q]
    BY <1>2, <1>3, WorkerTypes, CompleteStep
  <2>2. TypeOK' /\ RunsAreQueued'
    <3>1. \A v \in Worker : claim'[v] # None => claim'[v].token < nextToken'
      BY <1>1 DEF Inv, TypeOK
    <3> QED BY <1>1, <2>1, <3>1 DEF Inv, TypeOK, CronInv, I!StoreTypeOK, Places
  <2>3. WorkersInv'
    BY <1>1, <2>1 DEF Inv, WorkersInv, Handling
  <2>4. ClaimsDiffer' /\ ClaimsStand'
    BY <1>1 DEF Inv, ClaimsDiffer, ClaimsStand, ClaimStands, Handling
  <2>5. ReportsHaveEffects'
    BY <1>1 DEF Inv, ReportsHaveEffects
  <2>6. ResponsesHaveEffects'
    BY <1>1, <1>2, <2>1 DEF Inv, ResponsesHaveEffects
  <2> QED BY <2>2, <2>3, <2>4, <2>5, <2>6 DEF Inv
<1>4. CASE UNCHANGED cronVars
  <2>1. CronInv' /\ RunsStay /\ UNCHANGED storeVars
    BY <1>1, <1>4, SchedulerRests DEF storeVars
  <2> QED BY <1>1, <2>1, WorkerTypes, QuietMoves
<1> QED BY <1>3, <1>4 DEF Report

LEMMA KeepAliveStep ==
    ASSUME Inv, NEW w \in Worker, KeepAlive(w)
    PROVE  Inv'
<1>1. job[w] \in Run /\ runs[job[w]] # None
  BY DEF KeepAlive, Inv, WorkersInv
<1>2. CronInv' /\ RunsStay
  BY <1>1, WorkerTypes, HeartbeatStep DEF KeepAlive
<1> QED BY <1>2, SchedulerSteps DEF KeepAlive

LEMMA ServiceStep ==
    ASSUME Inv, Service
    PROVE  Inv'
<1>1. CASE RunTick
  BY <1>1, WorkerTypes, TickStep, SchedulerSteps DEF RunTick
<1>2. CASE RunReaper
  BY <1>2, WorkerTypes, ReapStep, SchedulerSteps DEF RunReaper
<1>3. ASSUME NEW age \in Age, I!Purge(age), UNCHANGED <<cronVars, workerVars, effects>>
      PROVE  Inv'
  <2>1. CronInv' /\ RunsStay /\ UNCHANGED <<runs, pc, job, claim, beginAge, effects>>
    BY <1>3, SchedulerRests DEF cronVars, workerVars
  <2>2. /\ I!StoreTypeOK' /\ nextToken' = nextToken
        /\ \A q \in Run : \/ records'[q] = records[q]
                          \/ records[q].left <= 0 /\ records'[q] = None
    BY <1>3, WorkerTypes, PurgeFacts
  <2>3. TypeOK' /\ RunsAreQueued'
    BY <2>1, <2>2 DEF Inv, TypeOK, CronInv
  <2>4. WorkersInv' /\ ClaimsDiffer' /\ ReportsHaveEffects'
    BY <2>1 DEF Inv, WorkersInv, ClaimsDiffer, ReportsHaveEffects
  <2>5. ClaimsStand'
    <3> SUFFICES ASSUME NEW v \in Worker, pc'[v] \in Handling, claim'[v].left > 0
                 PROVE  ClaimStands(v)'
      BY DEF ClaimsStand, ClaimStands
    <3>1. ClaimStands(v) /\ job[v] \in Run /\ claim[v].left \in Int /\ claim[v].left > 0
      BY <2>1, ClaimFacts DEF Inv, ClaimsStand
    <3>2. /\ records[job[v]] # None /\ records[job[v]].left \in Int
          /\ records[job[v]].left >= claim[v].left
      BY <3>1, WorkerTypes, RecordFacts DEF ClaimStands
    <3>3. records'[job[v]] = records[job[v]]
      BY <2>2, <3>1, <3>2
    <3> QED BY <2>1, <3>1, <3>3 DEF ClaimStands
  <2>6. ResponsesHaveEffects'
    BY <2>1, <2>2 DEF Inv, ResponsesHaveEffects
  <2> QED BY <2>3, <2>4, <2>5, <2>6 DEF Inv
<1> QED BY <1>1, <1>2, <1>3 DEF Service

LEMMA PassesStep ==
    ASSUME Inv, Passes
    PROVE  Inv'
<1>1. CronInv' /\ RunsStay /\ UNCHANGED <<pc, job, effects>>
  BY WorkerTypes, CronPassesStep DEF Passes
<1>2. /\ I!StoreTypeOK' /\ nextToken' = nextToken
      /\ \A q \in Run : records[q] = None => records'[q] = None
      /\ \A q \in Run : records[q] # None =>
            /\ records'[q] # None
            /\ records'[q].state = records[q].state /\ records'[q].token = records[q].token
            /\ records'[q].left >= records[q].left - 1
  BY WorkerTypes, StorePassesFacts DEF Passes
<1>3. /\ beginAge' \in [Worker -> Age \cup {None}]
      /\ \A w \in Worker : beginAge[w] # None => beginAge'[w] # None
  <2>1. ASSUME NEW w \in Worker
        PROVE  /\ Older(beginAge[w]) \in Age \cup {None}
               /\ beginAge[w] # None => Older(beginAge[w]) # None
    <3>1. beginAge[w] \in Age \cup {None} /\ MayAge(beginAge[w])
      BY WorkerTypes DEF Passes
    <3> QED BY <3>1, SchedulerAssumption, NoneAssumption DEF Older, MayAge, Age
  <2> QED BY <2>1 DEF Passes
<1>4. ASSUME NEW w \in Worker, claim[w] # None
      PROVE  /\ claim'[w] \in Claim /\ claim'[w] # None
             /\ claim'[w].token = claim[w].token
             /\ claim'[w].left > 0 => claim[w].left > 0 /\ claim'[w].left = claim[w].left - 1
  <2> DEFINE mine == claim[w]
             left == IF mine.left > 0 THEN mine.left - 1 ELSE 0
  <2>1. mine \in Claim
    BY <1>4, WorkerTypes
  <2>2. claim'[w] = [mine EXCEPT !.left = left]
    BY <1>4 DEF Passes
  <2>3. left \in LongAgo..InProgressTTL /\ (left > 0 => mine.left > 0 /\ left = mine.left - 1)
    BY <2>1, SchedulerAssumption, StoreAssumption DEF Claim, LongAgo
  <2> HIDE DEF left, mine
  <2>4. claim'[w] \in Claim /\ claim'[w].token = mine.token /\ claim'[w].left = left
    BY <2>1, <2>2, <2>3 DEF Claim
  <2> QED BY <2>3, <2>4, NoClaimAssumption DEF mine
<1>5. \A w \in Worker : claim[w] = None => claim'[w] = None
  BY DEF Passes
<1>6. TypeOK' /\ RunsAreQueued'
  <2>1. DOMAIN claim' = Worker /\ claim' = [w \in Worker |-> claim'[w]]
    BY DEF Passes
  <2>2. claim' \in [Worker -> Claim \cup {None}]
    BY <1>4, <1>5, <2>1
  <2>3. \A w \in Worker : claim'[w] # None => claim'[w].token < nextToken'
    BY <1>2, <1>4, <1>5 DEF Inv, TypeOK
  <2> QED BY <1>1, <1>2, <1>3, <2>2, <2>3 DEF Inv, TypeOK, CronInv
<1>7. WorkersInv'
  BY <1>1, <1>3, <1>4 DEF Inv, WorkersInv, RunsStay
<1>8. ClaimsDiffer'
  BY <1>1, <1>4 DEF Inv, ClaimsDiffer, WorkersInv
<1>9. ClaimsStand'
  <2> SUFFICES ASSUME NEW v \in Worker, pc'[v] \in Handling, claim'[v].left > 0
               PROVE  ClaimStands(v)'
    BY DEF ClaimsStand, ClaimStands
  <2>1. /\ pc[v] \in Handling /\ claim[v] # None /\ claim[v].left \in Int /\ job[v] \in Run
        /\ ClaimStands(v)
    BY <1>1, ClaimFacts DEF Inv, ClaimsStand
  <2>2. /\ claim[v].left > 0 /\ claim'[v].left = claim[v].left - 1
        /\ claim'[v].token = claim[v].token
    BY <1>4, <2>1
  <2>3. /\ records[job[v]] # None /\ records[job[v]].left \in Int
        /\ records[job[v]].left >= claim[v].left
        /\ records[job[v]].token = claim[v].token /\ records[job[v]].state = "in_progress"
    BY <2>1, <2>2, WorkerTypes, RecordFacts DEF ClaimStands
  <2>4. /\ records'[job[v]] # None /\ records'[job[v]].left \in Int
        /\ records'[job[v]].left >= records[job[v]].left - 1
        /\ records'[job[v]].token = claim[v].token /\ records'[job[v]].state = "in_progress"
    <3>1. records'[job[v]].left \in Int
      BY <1>2, <2>1, <2>3 DEF I!StoreTypeOK, I!Record
    <3> QED BY <1>2, <2>1, <2>3, <3>1
  <2>5. records'[job[v]].left >= claim'[v].left
    BY <2>1, <2>2, <2>3, <2>4
  <2> QED BY <1>1, <2>2, <2>4, <2>5 DEF ClaimStands
<1>10. ReportsHaveEffects'
  BY <1>1, <1>4 DEF Inv, ReportsHaveEffects, WorkersInv, Handling
<1>11. ResponsesHaveEffects'
  BY <1>1, <1>2 DEF Inv, ResponsesHaveEffects, RunsStay
<1> QED BY <1>6, <1>7, <1>8, <1>9, <1>10, <1>11 DEF Inv

------------------------------------------------------------------------------
(* The theorems *)

LEMMA InitInv == Init => Inv
<1> SUFFICES ASSUME Init PROVE Inv
  OBVIOUS
<1>1. CronTypeOK
  <2>1. \A j \in Job : 0 \in (0 - Span(j))..Interval[j]
    <3> SUFFICES ASSUME NEW j \in Job PROVE 0 \in (0 - Span(j))..Interval[j]
      OBVIOUS
    <3>1. Interval[j] \in Nat /\ MaxSlots \in Nat /\ MaxStale \in Nat
      BY SchedulerAssumption
    <3>2. Interval[j] * MaxSlots \in Nat
      BY <3>1
    <3> QED BY <3>1, <3>2 DEF Span
  <2>2. 1 \in 1..(MaxSlots + 1)
    BY SchedulerAssumption
  <2> QED BY <2>1, <2>2 DEF Init, CronInit, CronTypeOK
<1>2. RunsAreQueued
  BY DEF Init, CronInit, RunsAreQueued
<1>3. I!StoreTypeOK
  BY DEF Init, I!StoreInit, I!StoreTypeOK
<1>4. \A w \in Worker : pc[w] = "idle" /\ claim[w] = None
  BY DEF Init
<1>5. TypeOK
  BY <1>1, <1>3 DEF Init, TypeOK
<1>6. WorkersInv /\ ClaimsDiffer /\ ClaimsStand /\ ReportsHaveEffects
  BY <1>4 DEF WorkersInv, ClaimsDiffer, ClaimsStand, ReportsHaveEffects, Handling
<1>7. ResponsesHaveEffects
  BY DEF Init, CronInit, I!StoreInit, ResponsesHaveEffects
<1> QED BY <1>2, <1>5, <1>6, <1>7 DEF Inv

LEMMA NextInv == Inv /\ [Next]_vars => Inv'
<1> SUFFICES ASSUME Inv, [Next]_vars PROVE Inv'
  OBVIOUS
<1>1. ASSUME NEW w \in Worker, Step(w) \/ KeepAlive(w) \/ Crash(w) PROVE Inv'
  <2>1. CASE Ask(w)            BY <2>1, AskStep
  <2>2. CASE Receive(w)        BY <2>2, ReceiveStep
  <2>3. CASE BeginStart(w)     BY <2>3, BeginStartStep
  <2>4. CASE Begin(w)          BY <2>4, BeginStep
  <2>5. CASE Handle(w)         BY <2>5, HandleStep
  <2>6. CASE HandlerRaises(w)  BY <2>6, HandlerRaisesStep
  <2>7. CASE RecordResponse(w) BY <2>7, RecordResponseStep
  <2>8. CASE Report(w)         BY <2>8, ReportStep
  <2>9. CASE ReportFailure(w)  BY <2>9, ReportFailureStep
  <2>10. CASE KeepAlive(w)     BY <2>10, KeepAliveStep
  <2>11. CASE Crash(w)         BY <2>11, CrashStep
  <2> QED BY <1>1, <2>1, <2>2, <2>3, <2>4, <2>5, <2>6, <2>7, <2>8, <2>9, <2>10, <2>11 DEF Step
<1>2. CASE Service
  BY <1>2, ServiceStep
<1>3. CASE Passes
  BY <1>3, PassesStep
<1>4. CASE UNCHANGED vars
  <2>1. CronInv' /\ RunsStay /\ UNCHANGED <<storeVars, workerVars, effects>>
    BY <1>4, SchedulerRests DEF vars
  <2> QED BY <2>1, SchedulerSteps
<1> QED BY <1>1, <1>2, <1>3, <1>4 DEF Next

LEMMA InvAlways == Spec => []Inv
  BY InitInv, NextInv, PTL DEF Spec

\* Types hold, every run that waits is in exactly one heap unless claim dropped it, and
\* a run is leased exactly while it runs, however workers crash, leases run out and
\* clock readings age.
THEOREM RunsAreKept == Spec => []JobsInv
<1>1. Inv => JobsInv
  BY DEF Inv, JobsInv
<1> QED BY <1>1, InvAlways, PTL

\* While a worker's claim of a run lasts the claim is the record's, so nobody else does
\* the run; and a run reported done, or a response that is stored, has taken effect.
THEOREM OneWorkerAtATime == Spec => []ClaimsAreExclusive
<1>1. Inv => ClaimsAreExclusive
  <2> SUFFICES ASSUME Inv PROVE ClaimsAreExclusive
    OBVIOUS
  <2>1. \A w \in Worker : (pc[w] \in {"handling", "recording"} /\ claim[w].left > 0) =>
          /\ records[job[w]] # None
          /\ records[job[w]].token = claim[w].token
          /\ records[job[w]].state = "in_progress"
    BY DEF Inv, ClaimsStand, ClaimStands, Handling
  <2> QED BY <2>1 DEF Inv, ResponsesHaveEffects, ClaimsAreExclusive
<1> QED BY <1>1, InvAlways, PTL

\* A step leaves a response in the store as long as its time is not over.
Stands ==
    \A r \in Run :
        (records[r] # None /\ records[r].state = "completed" /\ records[r].left > 0) =>
            /\ records'[r] # None
            /\ records'[r].token = records[r].token /\ records'[r].state = "completed"

LEMMA NextStands == Inv /\ [Next]_vars => [Stands]_vars
<1> SUFFICES ASSUME Inv, [Next]_vars, NEW r \in Run,
                    records[r] # None, records[r].state = "completed", records[r].left > 0
             PROVE  /\ records'[r] # None
                    /\ records'[r].token = records[r].token /\ records'[r].state = "completed"
  BY DEF Stands
<1>0. records[r].left \in Int /\ records[r].state # "in_progress"
  BY WorkerTypes, RecordFacts
<1>k. CASE UNCHANGED records
  BY <1>k
<1>1. ASSUME NEW w \in Worker, Begin(w), ~UNCHANGED records
      PROVE  records'[r] = records[r]
  <2>1. pc[w] = "beginning" /\ I!BeginNew(job[w], beginAge[w])
    BY <1>1 DEF Begin, storeVars, Goto
  <2>2. job[w] \in Run /\ beginAge[w] \in Age
    BY <2>1, WorkerTypes DEF Inv, WorkersInv
  <2>3. r # job[w]
    BY <1>0, <2>1, <2>2, WorkerTypes, BeginNewFacts
  <2> QED BY <2>1, <2>2, <2>3, WorkerTypes, BeginNewFacts
<1>2. ASSUME NEW w \in Worker, HandlerRaises(w), ~UNCHANGED records
      PROVE  records'[r] = records[r]
  <2>1. pc[w] = "handling" /\ I!Drop(job[w], claim[w].token)
    BY <1>2 DEF HandlerRaises, storeVars, Goto
  <2>2. job[w] \in Run
    BY <2>1 DEF Inv, WorkersInv
  <2> QED BY <1>0, <2>1, <2>2, WorkerTypes, DropFacts
<1>3. ASSUME NEW w \in Worker, RecordResponse(w), ~UNCHANGED records
      PROVE  /\ records'[r] # None
             /\ records'[r].token = records[r].token /\ records'[r].state = "completed"
  <2>1. pc[w] = "recording" /\ I!Store(job[w], claim[w].token)
    BY <1>3 DEF RecordResponse, storeVars, Goto
  <2>2. job[w] \in Run
    BY <2>1 DEF Inv, WorkersInv
  <2>3. CASE r = job[w]
    BY <2>1, <2>2, <2>3, WorkerTypes, StoreFacts
  <2>4. CASE r # job[w]
    <3>1. records'[r] = records[r]
      BY <2>1, <2>2, <2>4, WorkerTypes, StoreFacts
    <3> QED BY <3>1
  <2> QED BY <2>3, <2>4
<1>4. ASSUME NEW age \in Age, I!Purge(age) PROVE records'[r] = records[r]
  BY <1>0, <1>4, WorkerTypes, PurgeFacts
<1>5. ASSUME Passes
      PROVE  /\ records'[r] # None
             /\ records'[r].token = records[r].token /\ records'[r].state = "completed"
  BY <1>5, WorkerTypes, StorePassesFacts DEF Passes
<1>6. ASSUME NEW w \in Worker, Step(w) \/ KeepAlive(w) \/ Crash(w), ~UNCHANGED records
      PROVE  Begin(w) \/ HandlerRaises(w) \/ RecordResponse(w)
  BY <1>6 DEF Step, storeVars, Ask, Receive, BeginStart, Handle, Report, ReportFailure, KeepAlive, Crash
<1>7. ASSUME Service, ~UNCHANGED records
      PROVE  \E age \in Age : I!Purge(age)
  BY <1>7 DEF Service, RunTick, RunReaper, storeVars
<1>8. CASE UNCHANGED vars
  BY <1>8, <1>k DEF vars, storeVars
<1>9. CASE Next /\ ~UNCHANGED records
  <2>1. CASE \E w \in Worker : Step(w) \/ KeepAlive(w) \/ Crash(w)
    BY <1>1, <1>2, <1>3, <1>6, <1>9, <2>1
  <2>2. CASE Service
    BY <1>4, <1>7, <1>9, <2>2
  <2> QED BY <1>5, <1>9, <2>1, <2>2 DEF Next
<1> QED BY <1>8, <1>9, <1>k

\* A response that is stored is the answer to everybody who asks until its time is
\* over: no late worker and no purge removes or replaces it.
THEOREM ResponsesStand == Spec => ResponseStands
<1>1. Inv /\ [Next]_vars => [Stands]_vars
  BY NextStands
<1> QED BY <1>1, InvAlways, PTL DEF Spec, ResponseStands, Stands
=============================================================================
