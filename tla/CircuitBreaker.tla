---------------------------- MODULE CircuitBreaker ----------------------------
(***************************************************************************)
(* code/hld/circuit_breaker.py: the state machine of one breaker and the   *)
(* permits it has given out.  Every method holds the lock from its first   *)
(* look at the clock to its last assignment, and so is one step; the       *)
(* guarded call runs between two of them.                                  *)
(*                                                                         *)
(* Instants are kept as ages, and a permit's generation as whether it is   *)
(* still the breaker's: the code asks nothing else of them.  The model     *)
(* therefore needs no bound on time or on the number of episodes.          *)
(***************************************************************************)
EXTENDS Integers, Sequences, FiniteSets

CONSTANTS
    Caller,
    MinCalls, WindowSeconds, OpenSeconds, HalfOpenMaxCalls, SuccessThreshold,
    SlowCallSeconds,
    RateNum, RateDen,   \* failure_rate_threshold = RateNum / RateDen
    None,
    MaxWindow,          \* bound: outcomes in the window
    MaxLost             \* bound: permits lost in one episode

ASSUME PolicyAssumption ==
    /\ {MinCalls, WindowSeconds, OpenSeconds, HalfOpenMaxCalls, SuccessThreshold,
        SlowCallSeconds, RateNum, RateDen} \subseteq Nat \ {0}
    /\ RateNum <= RateDen
    /\ MaxWindow \in Nat /\ MaxWindow >= MinCalls /\ MaxLost \in Nat

Outcome == [age : 0..WindowSeconds, ok : BOOLEAN]
Permits == [current : BOOLEAN, trial : BOOLEAN, age : 0..SlowCallSeconds]

ASSUME CallerAssumption == IsFiniteSet(Caller) /\ None \notin Permits

VARIABLES
    state, window, windowFailures,
    openedAge,          \* seconds since the breaker opened, up to OpenSeconds
    trialsInFlight, trialSuccesses,
    permits,            \* permits[c]: the permit of c's call in progress, or None
    lost                \* trial permits of this episode whose holder went away

breakerVars == <<state, window, windowFailures, openedAge, trialsInFlight, trialSuccesses>>
cbVars == <<breakerVars, permits, lost>>

States == {"closed", "open", "half_open"}

BreakerTypeOK ==
    /\ state \in States
    /\ window \in Seq(Outcome) /\ Len(window) <= MaxWindow
    /\ windowFailures \in Nat
    /\ openedAge \in 0..OpenSeconds
    /\ trialsInFlight \in 0..HalfOpenMaxCalls
    /\ trialSuccesses \in 0..SuccessThreshold
    /\ permits \in [Caller -> Permits \cup {None}]
    /\ lost \in Nat

BreakerInit ==
    /\ state = "closed" /\ window = <<>> /\ windowFailures = 0
    /\ openedAge = 0
    /\ trialsInFlight = 0 /\ trialSuccesses = 0
    /\ permits = [c \in Caller |-> None]
    /\ lost = 0

------------------------------------------------------------------------------
(* Episodes *)

Outdated(ps) == [c \in Caller |-> IF ps[c] = None THEN None ELSE [ps[c] EXCEPT !.current = FALSE]]

\* Seeded fault: opening does not start a new generation.
NewEpisodeUnlessOpen(new, ps) ==
    /\ state' = new
    /\ permits' = IF new = "open" THEN ps ELSE Outdated(ps)
    /\ trialsInFlight' = 0 /\ trialSuccesses' = 0 /\ lost' = 0
    /\ openedAge' = IF new = "open" THEN 0 ELSE openedAge

\* _transition: of the permits ps there are, none is of the new episode.
NewEpisode(new, ps) ==
    /\ state' = new
    /\ permits' = Outdated(ps)
    /\ trialsInFlight' = 0 /\ trialSuccesses' = 0 /\ lost' = 0
    /\ openedAge' = IF new = "open" THEN 0 ELSE openedAge

\* Only closing forgets the outcomes.
Close(ps) ==
    /\ NewEpisode("closed", ps)
    /\ window' = <<>> /\ windowFailures' = 0

\* _tick: whoever looks at an open breaker after its time finds it half-open.
CooledDown == state = "open" /\ openedAge >= OpenSeconds

HalfOpen ==
    /\ CooledDown
    /\ NewEpisode("half_open", permits)
    /\ UNCHANGED <<window, windowFailures>>

------------------------------------------------------------------------------
(* Admission *)

Permit(trial) == [current |-> TRUE, trial |-> trial, age |-> 0]

Admit(c) ==
    /\ state = "closed"
    /\ permits' = [permits EXCEPT ![c] = Permit(FALSE)]
    /\ UNCHANGED <<breakerVars, lost>>

AdmitTrial(c) ==
    /\ state = "half_open" /\ trialsInFlight < HalfOpenMaxCalls
    /\ trialsInFlight' = trialsInFlight + 1
    /\ permits' = [permits EXCEPT ![c] = Permit(TRUE)]
    /\ UNCHANGED <<state, window, windowFailures, openedAge, trialSuccesses, lost>>

\* The same call of acquire ends the cooldown and takes the first slot.
AdmitFirstTrial(c) ==
    /\ CooledDown
    /\ state' = "half_open"
    /\ permits' = [Outdated(permits) EXCEPT ![c] = Permit(TRUE)]
    /\ trialsInFlight' = 1 /\ trialSuccesses' = 0 /\ lost' = 0
    /\ UNCHANGED <<window, windowFailures, openedAge>>

Acquire(c) == Admit(c) \/ AdmitTrial(c) \/ AdmitFirstTrial(c)

\* acquire raises CircuitOpenError.
Rejects ==
    \/ state = "open" /\ ~CooledDown
    \/ state = "half_open" /\ trialsInFlight >= HalfOpenMaxCalls

------------------------------------------------------------------------------
(* Settling a permit *)

Settled(c) == [permits EXCEPT ![c] = None]

\* An earlier episode's permit: its slot and its window are gone.
SettleLate(c) ==
    /\ ~permits[c].current
    /\ permits' = Settled(c)
    /\ UNCHANGED <<breakerVars, lost>>

\* Seeded fault: a permit handed back without a verdict keeps its slot.
HandBackVerdictOnly(c) ==
    /\ permits[c].current
    /\ permits' = Settled(c)
    /\ UNCHANGED <<breakerVars, lost>>

\* release: no verdict.
HandBack(c) ==
    /\ permits[c].current
    /\ trialsInFlight' = IF permits[c].trial THEN trialsInFlight - 1 ELSE trialsInFlight
    /\ permits' = Settled(c)
    /\ UNCHANGED <<state, window, windowFailures, openedAge, trialSuccesses, lost>>

Failures(w) == Cardinality({i \in 1..Len(w) : ~w[i].ok})

\* _prune: outcomes leave the window from its old end, up to the first fresh one.
Stale(w) == {i \in 1..Len(w) : \A j \in 1..i : w[j].age >= WindowSeconds}
Fresh(w) == SubSeq(w, Cardinality(Stale(w)) + 1, Len(w))

\* An outcome of a closed breaker: counted, and judged with the others.
CountOutcome(c, ok) ==
    /\ permits[c].current /\ state = "closed"
    /\ LET grown == Append(window, [age |-> 0, ok |-> ok])
           kept == Fresh(grown)
       IN  /\ Len(kept) <= MaxWindow
           /\ window' = kept
           /\ windowFailures' = windowFailures + (IF ok THEN 0 ELSE 1)
                                - (Failures(grown) - Failures(kept))
           /\ IF Len(kept) >= MinCalls /\ windowFailures' * RateDen >= RateNum * Len(kept)
              THEN NewEpisode("open", Settled(c))
              ELSE /\ permits' = Settled(c)
                   /\ UNCHANGED <<state, openedAge, trialsInFlight, trialSuccesses, lost>>

\* A trial failed: straight back to open.
TrialFails(c) ==
    /\ permits[c].current /\ state # "closed"
    /\ NewEpisode("open", Settled(c))
    /\ UNCHANGED <<window, windowFailures>>

TrialSucceeds(c) ==
    /\ permits[c].current /\ state # "closed"
    /\ IF trialSuccesses + 1 >= SuccessThreshold
       THEN Close(Settled(c))
       ELSE /\ trialSuccesses' = trialSuccesses + 1
            /\ trialsInFlight' = IF permits[c].trial THEN trialsInFlight - 1 ELSE trialsInFlight
            /\ permits' = Settled(c)
            /\ UNCHANGED <<state, window, windowFailures, openedAge, lost>>

\* A call that returned after too long counts as a failure.
Slow(c) == permits[c].age >= SlowCallSeconds

Record(c, ok) ==
    \/ SettleLate(c)
    \/ CountOutcome(c, ok)
    \/ ~ok /\ TrialFails(c)
    \/ ok /\ TrialSucceeds(c)

\* The holder of c's permit goes away without settling it: what call does when
\* the guarded function ends in an exception that is no Exception, and what a
\* careless user of acquire may do.
Lose(c) ==
    /\ permits[c] # None
    /\ lost < MaxLost
    /\ permits' = Settled(c)
    /\ lost' = IF permits[c].current /\ permits[c].trial THEN lost + 1 ELSE lost
    /\ UNCHANGED breakerVars

------------------------------------------------------------------------------
(* Operators, monitors and time *)

Reset == Close(permits)

\* snapshot: drops the old outcomes; together with HalfOpen, all a look can do.
Prune ==
    /\ ~CooledDown
    /\ window' = Fresh(window) /\ window' # window
    /\ windowFailures' = windowFailures - (Failures(window) - Failures(Fresh(window)))
    /\ UNCHANGED <<state, openedAge, trialsInFlight, trialSuccesses, permits, lost>>

Older(age, limit) == IF age < limit THEN age + 1 ELSE age

Tick ==
    /\ window' = [i \in DOMAIN window |-> [window[i] EXCEPT !.age = Older(@, WindowSeconds)]]
    /\ openedAge' = Older(openedAge, OpenSeconds)
    /\ permits' = [c \in Caller |->
          IF permits[c] = None THEN None ELSE [permits[c] EXCEPT !.age = Older(@, SlowCallSeconds)]]
    /\ UNCHANGED <<state, windowFailures, trialsInFlight, trialSuccesses, lost>>

------------------------------------------------------------------------------
(* Properties *)

\* An outcome can only speak for the episode that admitted its call: there is no
\* permit of an open breaker's own episode, a half-open breaker's are its trials,
\* and a closed one's are not.
EpisodesAreApart ==
    \A c \in Caller : (permits[c] # None /\ permits[c].current) =>
        /\ state # "open"
        /\ permits[c].trial <=> state = "half_open"

\* The slots taken are those of the trials still out and of those that were lost.
TrialsOut == {c \in Caller : permits[c] # None /\ permits[c].current /\ permits[c].trial}
SlotsAreCounted == trialsInFlight = lost + Cardinality(TrialsOut)

\* The failure count kept beside the window is that of the window.
FailuresAreCounted == windowFailures = Failures(window)
=============================================================================
