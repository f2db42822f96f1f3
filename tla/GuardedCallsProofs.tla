-------------------------- MODULE GuardedCallsProofs --------------------------
(***************************************************************************)
(* TLAPS proofs about GuardedCalls and the breaker under it, for every set  *)
(* of callers, every policy of the breaker, of the retrier and of its       *)
(* budget, and every bound on the window and on lost permits.               *)
(***************************************************************************)
EXTENDS GuardedCalls, FiniteSetTheorems, SequenceTheorems, TLAPS

\* The breaker's part of the invariant.
BreakerInv == BreakerTypeOK /\ EpisodesAreApart /\ SlotsAreCounted /\ FailuresAreCounted

\* The policy's numbers, one by one.
LEMMA PolicyFacts ==
    ASSUME PolicyAssumption
    PROVE  /\ WindowSeconds \in Nat /\ OpenSeconds \in Nat /\ SlowCallSeconds \in Nat
           /\ HalfOpenMaxCalls \in Nat /\ HalfOpenMaxCalls >= 1
           /\ SuccessThreshold \in Nat /\ SuccessThreshold >= 1
           /\ MaxWindow \in Nat
  BY DEF PolicyAssumption

------------------------------------------------------------------------------
(* The window *)

\* A window has a number of failures.
LEMMA FailuresIsANumber ==
    ASSUME NEW w \in Seq(Outcome)
    PROVE  Failures(w) \in Nat
<1>1. Len(w) \in Nat
  BY LenProperties
<1>2. IsFiniteSet(1..Len(w))
  BY <1>1, FS_Interval
<1>3. {i \in 1..Len(w) : ~w[i].ok} \in SUBSET (1..Len(w))
  OBVIOUS
<1>4. IsFiniteSet({i \in 1..Len(w) : ~w[i].ok})
  BY <1>2, <1>3, FS_Subset
<1> QED BY <1>4, FS_CardinalityType DEF Failures

\* An outcome put at the end of a window adds itself to the count.
LEMMA FailuresOfAppend ==
    ASSUME NEW w \in Seq(Outcome), NEW o \in Outcome
    PROVE  Failures(Append(w, o)) = Failures(w) + (IF o.ok THEN 0 ELSE 1)
<1> DEFINE bad == {i \in 1..Len(w) : ~w[i].ok}
           grown == Append(w, o)
           worse == {i \in 1..Len(grown) : ~grown[i].ok}
<1>1. Len(w) \in Nat
  BY LenProperties
<1>2. /\ Len(grown) = Len(w) + 1
      /\ \A i \in 1..Len(w) : grown[i] = w[i]
      /\ grown[Len(w) + 1] = o
  BY AppendProperties
<1>3. 1..Len(grown) = (1..Len(w)) \cup {Len(w) + 1} /\ Len(w) + 1 \notin bad
  BY <1>1, <1>2
<1>4. o.ok => worse = bad
  BY <1>2, <1>3
<1>5. ~o.ok => worse = bad \cup {Len(w) + 1}
  BY <1>2, <1>3
<1>6. IsFiniteSet(bad)
  <2>1. IsFiniteSet(1..Len(w)) /\ bad \in SUBSET (1..Len(w))
    BY <1>1, FS_Interval
  <2> QED BY <2>1, FS_Subset
<1> HIDE DEF bad, worse
<1>7. Cardinality(bad \cup {Len(w) + 1}) = Cardinality(bad) + 1
  BY <1>3, <1>6, FS_AddElement
<1>8. Cardinality(bad) \in Nat
  BY <1>6, FS_CardinalityType
<1>9. Failures(Append(w, o)) = Cardinality(worse) /\ Failures(w) = Cardinality(bad)
  BY DEF Failures, bad, worse
<1>10. CASE o.ok
  BY <1>4, <1>8, <1>9, <1>10
<1>11. CASE ~o.ok
  BY <1>5, <1>7, <1>9, <1>11
<1> QED BY <1>10, <1>11

\* Pruning leaves a window, and none that is longer.
LEMMA FreshIsAWindow ==
    ASSUME NEW w \in Seq(Outcome)
    PROVE  Fresh(w) \in Seq(Outcome) /\ Len(Fresh(w)) <= Len(w)
<1>1. Len(w) \in Nat /\ \A i \in 1..Len(w) : w[i] \in Outcome
  BY LenProperties, ElementOfSeq
<1>2. IsFiniteSet(1..Len(w)) /\ Stale(w) \in SUBSET (1..Len(w))
  BY <1>1, FS_Interval DEF Stale
<1>3. Cardinality(Stale(w)) \in Nat
  BY <1>2, FS_Subset, FS_CardinalityType
<1> DEFINE first == Cardinality(Stale(w)) + 1
<1>4. first \in Nat /\ first >= 1
  BY <1>3
<1>5. \A i \in first..Len(w) : w[i] \in Outcome
  BY <1>1, <1>4
<1> HIDE DEF first
<1>6. /\ SubSeq(w, first, Len(w)) \in Seq(Outcome)
      /\ Len(SubSeq(w, first, Len(w))) = IF first <= Len(w) THEN Len(w) - first + 1 ELSE 0
  BY <1>1, <1>4, <1>5, SubSeqProperties
<1>7. Len(SubSeq(w, first, Len(w))) <= Len(w)
  BY <1>1, <1>4, <1>6
<1> QED BY <1>6, <1>7 DEF Fresh, first

\* Time passes for a window: as long, and with the same failures.
LEMMA WindowAges ==
    ASSUME WindowSeconds \in Nat, window \in Seq(Outcome), Tick
    PROVE  /\ window' \in Seq(Outcome) /\ Len(window') = Len(window)
           /\ Failures(window') = Failures(window)
<1>1. /\ Len(window) \in Nat /\ DOMAIN window = 1..Len(window)
      /\ \A i \in 1..Len(window) : window[i] \in Outcome
  BY LenProperties, ElementOfSeq
<1>2. window' = [i \in 1..Len(window) |-> [window[i] EXCEPT !.age = Older(@, WindowSeconds)]]
  BY <1>1 DEF Tick
<1>3. ASSUME NEW i \in 1..Len(window)
      PROVE  window'[i] \in Outcome /\ window'[i].ok = window[i].ok
  <2>1. window[i] \in Outcome /\ window[i].age \in 0..WindowSeconds
    BY <1>1 DEF Outcome
  <2>2. Older(window[i].age, WindowSeconds) \in 0..WindowSeconds
    BY <2>1, WindowSeconds \in Nat DEF Older
  <2>3. window'[i] = [window[i] EXCEPT !.age = Older(window[i].age, WindowSeconds)]
    BY <1>2
  <2> QED BY <2>1, <2>2, <2>3 DEF Outcome
<1>4. window' \in [1..Len(window) -> Outcome]
  BY <1>2, <1>3
<1>5. window' \in Seq(Outcome) /\ Len(window') = Len(window)
  BY <1>1, <1>4
<1>6. Failures(window') = Failures(window)
  BY <1>3, <1>5 DEF Failures
<1> QED BY <1>5, <1>6

------------------------------------------------------------------------------
(* Permits and slots *)

Holdings == [Caller -> Permits \cup {None}]

\* A new episode leaves every holder its permit, and no permit current.
LEMMA OutdatedFacts ==
    ASSUME CallerAssumption, NEW ps \in Holdings
    PROVE  /\ Outdated(ps) \in Holdings
           /\ \A d \in Caller : /\ Outdated(ps)[d] # None <=> ps[d] # None
                                /\ Outdated(ps)[d] # None => ~Outdated(ps)[d].current
<1> SUFFICES ASSUME NEW d \in Caller
             PROVE  /\ Outdated(ps)[d] \in Permits \cup {None}
                    /\ Outdated(ps)[d] # None <=> ps[d] # None
                    /\ Outdated(ps)[d] # None => ~Outdated(ps)[d].current
  BY DEF Outdated, Holdings
<1>1. CASE ps[d] = None
  BY <1>1 DEF Outdated
<1>2. CASE ps[d] # None
  <2>1. ps[d] \in Permits
    BY <1>2 DEF Holdings
  <2>2. [ps[d] EXCEPT !.current = FALSE] \in Permits /\ ~[ps[d] EXCEPT !.current = FALSE].current
    BY <2>1 DEF Permits
  <2> QED BY <1>2, <2>2 DEF Outdated, CallerAssumption
<1> QED BY <1>1, <1>2

\* The trials out have a number.
LEMMA TrialsOutFacts ==
    ASSUME CallerAssumption
    PROVE  /\ IsFiniteSet(TrialsOut) /\ Cardinality(TrialsOut) \in Nat
<1>1. IsFiniteSet(TrialsOut)
  BY FS_Subset DEF TrialsOut, CallerAssumption
<1> QED BY <1>1, FS_CardinalityType

\* Whatever starts an episode starts it without permits of its own and without slots.
LEMMA NewEpisodeInv ==
    ASSUME PolicyAssumption, CallerAssumption, BreakerInv,
           NEW new \in States, NEW ps \in Holdings, NewEpisode(new, ps),
           window' \in Seq(Outcome), Len(window') <= MaxWindow,
           windowFailures' = Failures(window')
    PROVE  /\ BreakerInv'
           /\ \A d \in Caller : permits'[d] # None <=> ps[d] # None
<1>1. /\ state' = new /\ permits' = Outdated(ps)
      /\ trialsInFlight' = 0 /\ trialSuccesses' = 0 /\ lost' = 0
      /\ openedAge' \in 0..OpenSeconds
  BY PolicyFacts DEF NewEpisode, BreakerInv, BreakerTypeOK
<1>2. /\ permits' \in Holdings
      /\ \A d \in Caller : /\ permits'[d] # None <=> ps[d] # None
                           /\ permits'[d] # None => ~permits'[d].current
  BY <1>1, OutdatedFacts
<1>3. BreakerTypeOK'
  BY <1>1, <1>2, FailuresIsANumber, PolicyFacts DEF BreakerTypeOK, Holdings
<1>4. EpisodesAreApart'
  BY <1>2 DEF EpisodesAreApart
<1>5. TrialsOut' = {}
  BY <1>2 DEF TrialsOut
<1>6. SlotsAreCounted'
  BY <1>1, <1>5, FS_EmptySet DEF SlotsAreCounted
<1>7. FailuresAreCounted'
  BY DEF FailuresAreCounted
<1> QED BY <1>2, <1>3, <1>4, <1>6, <1>7 DEF BreakerInv

------------------------------------------------------------------------------
(* Admission: a caller with no permit gets one *)

LEMMA PermitFacts ==
    ASSUME CallerAssumption, PolicyAssumption, NEW t \in BOOLEAN
    PROVE  /\ Permit(t) \in Permits /\ Permit(t) # None
           /\ Permit(t).current /\ (Permit(t).trial <=> t)
<1>1. 0 \in 0..SlowCallSeconds
  BY PolicyFacts
<1>2. Permit(t) \in Permits /\ Permit(t).current /\ Permit(t).trial = t
  BY <1>1 DEF Permit, Permits
<1> QED BY <1>2 DEF CallerAssumption

LEMMA AdmitInv ==
    ASSUME CallerAssumption, PolicyAssumption, BreakerInv,
           NEW c \in Caller, permits[c] = None, Admit(c)
    PROVE  /\ BreakerInv'
           /\ \A d \in Caller : permits'[d] # None <=> (d = c \/ permits[d] # None)
<1> DEFINE mine == Permit(FALSE)
<1>1. /\ state = "closed" /\ permits' = [permits EXCEPT ![c] = mine]
      /\ UNCHANGED <<breakerVars, lost>> /\ permits \in Holdings
  BY DEF Admit, BreakerInv, BreakerTypeOK, Holdings
<1>2. mine \in Permits /\ mine # None /\ ~mine.trial
  BY PermitFacts
<1> HIDE DEF mine
<1>3. /\ permits'[c] = mine /\ permits' \in Holdings
      /\ \A d \in Caller \ {c} : permits'[d] = permits[d]
  BY <1>1, <1>2 DEF Holdings
<1>4. BreakerTypeOK'
  BY <1>1, <1>3 DEF BreakerInv, BreakerTypeOK, breakerVars, Holdings
<1>5. EpisodesAreApart'
  BY <1>1, <1>2, <1>3 DEF BreakerInv, EpisodesAreApart, breakerVars
<1>6. TrialsOut' = TrialsOut
  BY <1>1, <1>2, <1>3 DEF TrialsOut
<1>7. SlotsAreCounted' /\ FailuresAreCounted'
  BY <1>1, <1>6 DEF BreakerInv, SlotsAreCounted, FailuresAreCounted, breakerVars
<1> QED BY <1>2, <1>3, <1>4, <1>5, <1>7 DEF BreakerInv

LEMMA AdmitTrialInv ==
    ASSUME CallerAssumption, PolicyAssumption, BreakerInv,
           NEW c \in Caller, permits[c] = None, AdmitTrial(c)
    PROVE  /\ BreakerInv'
           /\ \A d \in Caller : permits'[d] # None <=> (d = c \/ permits[d] # None)
<1> DEFINE mine == Permit(TRUE)
<1>1. /\ state = "half_open" /\ trialsInFlight < HalfOpenMaxCalls
      /\ trialsInFlight' = trialsInFlight + 1
      /\ permits' = [permits EXCEPT ![c] = mine]
      /\ UNCHANGED <<state, window, windowFailures, openedAge, trialSuccesses, lost>>
      /\ permits \in Holdings
  BY DEF AdmitTrial, BreakerInv, BreakerTypeOK, Holdings
<1>2. mine \in Permits /\ mine # None /\ mine.trial /\ mine.current
  BY PermitFacts
<1> HIDE DEF mine
<1>3. /\ permits'[c] = mine /\ permits' \in Holdings
      /\ \A d \in Caller \ {c} : permits'[d] = permits[d]
  BY <1>1, <1>2 DEF Holdings
<1>4. trialsInFlight' \in 0..HalfOpenMaxCalls
  BY <1>1, PolicyFacts DEF BreakerInv, BreakerTypeOK
<1>5. BreakerTypeOK'
  BY <1>1, <1>3, <1>4 DEF BreakerInv, BreakerTypeOK, Holdings
<1>6. EpisodesAreApart'
  BY <1>1, <1>2, <1>3 DEF BreakerInv, EpisodesAreApart
<1>7. TrialsOut' = TrialsOut \cup {c}
  BY <1>1, <1>2, <1>3 DEF TrialsOut
<1>8. Cardinality(TrialsOut') = Cardinality(TrialsOut) + 1 /\ Cardinality(TrialsOut) \in Nat
  <2>1. c \notin TrialsOut
    BY DEF TrialsOut
  <2>2. Cardinality(TrialsOut \cup {c}) = Cardinality(TrialsOut) + 1 /\ Cardinality(TrialsOut) \in Nat
    BY <2>1, TrialsOutFacts, FS_AddElement
  <2> QED BY <2>2, <1>7
<1>9. SlotsAreCounted'
  <2>1. trialsInFlight = lost + Cardinality(TrialsOut) /\ lost \in Nat
    BY DEF BreakerInv, BreakerTypeOK, SlotsAreCounted
  <2> QED BY <2>1, <1>1, <1>8 DEF SlotsAreCounted
<1>10. FailuresAreCounted'
  BY <1>1 DEF BreakerInv, FailuresAreCounted
<1> QED BY <1>2, <1>3, <1>5, <1>6, <1>9, <1>10 DEF BreakerInv

LEMMA AdmitFirstTrialInv ==
    ASSUME CallerAssumption, PolicyAssumption, BreakerInv,
           NEW c \in Caller, permits[c] = None, AdmitFirstTrial(c)
    PROVE  /\ BreakerInv'
           /\ \A d \in Caller : permits'[d] # None <=> (d = c \/ permits[d] # None)
<1> DEFINE mine == Permit(TRUE)
           rest == Outdated(permits)
<1>1. /\ state' = "half_open" /\ trialsInFlight' = 1 /\ trialSuccesses' = 0 /\ lost' = 0
      /\ permits' = [rest EXCEPT ![c] = mine]
      /\ UNCHANGED <<window, windowFailures, openedAge>>
      /\ permits \in Holdings
  BY DEF AdmitFirstTrial, BreakerInv, BreakerTypeOK, Holdings
<1>2. mine \in Permits /\ mine # None /\ mine.trial /\ mine.current
  BY PermitFacts
<1>3. /\ rest \in Holdings
      /\ \A d \in Caller : /\ rest[d] # None <=> permits[d] # None
                           /\ rest[d] # None => ~rest[d].current
  BY <1>1, OutdatedFacts
<1> HIDE DEF mine, rest
<1>4. /\ permits'[c] = mine /\ permits' \in Holdings
      /\ \A d \in Caller \ {c} : permits'[d] = rest[d]
  BY <1>1, <1>2, <1>3 DEF Holdings
<1>5. 1 \in 0..HalfOpenMaxCalls /\ 0 \in 0..SuccessThreshold
  BY PolicyFacts
<1>6. BreakerTypeOK'
  BY <1>1, <1>4, <1>5 DEF BreakerInv, BreakerTypeOK, Holdings, States
<1>7. EpisodesAreApart'
  BY <1>1, <1>2, <1>3, <1>4 DEF EpisodesAreApart
<1>8. TrialsOut' = {c}
  BY <1>2, <1>3, <1>4 DEF TrialsOut
<1>9. SlotsAreCounted' /\ FailuresAreCounted'
  BY <1>1, <1>8, FS_Singleton DEF BreakerInv, SlotsAreCounted, FailuresAreCounted
<1> QED BY <1>2, <1>3, <1>4, <1>6, <1>7, <1>9 DEF BreakerInv

LEMMA AcquireInv ==
    ASSUME CallerAssumption, PolicyAssumption, BreakerInv,
           NEW c \in Caller, permits[c] = None, Acquire(c)
    PROVE  /\ BreakerInv'
           /\ \A d \in Caller : permits'[d] # None <=> (d = c \/ permits[d] # None)
<1>1. CASE Admit(c)
  BY <1>1, AdmitInv
<1>2. CASE AdmitTrial(c)
  BY <1>2, AdmitTrialInv
<1>3. CASE AdmitFirstTrial(c)
  BY <1>3, AdmitFirstTrialInv
<1> QED BY <1>1, <1>2, <1>3 DEF Acquire

------------------------------------------------------------------------------
(* Settling: the caller's permit is gone, whatever it was *)

LEMMA SettledFacts ==
    ASSUME BreakerInv, NEW c \in Caller
    PROVE  /\ Settled(c) \in Holdings /\ Settled(c)[c] = None
           /\ \A d \in Caller \ {c} : Settled(c)[d] = permits[d]
           /\ \A d \in Caller : Settled(c)[d] # None <=> (d # c /\ permits[d] # None)
  BY DEF BreakerInv, BreakerTypeOK, Holdings, Settled

\* A permit goes and the episode stays: its slot goes with it, if it had one.
LEMMA SettledInv ==
    ASSUME PolicyAssumption, CallerAssumption, BreakerInv,
           NEW c \in Caller, permits[c] # None, permits' = Settled(c),
           UNCHANGED <<state, window, windowFailures, openedAge>>,
           trialSuccesses' \in 0..SuccessThreshold, lost' \in Nat,
           trialsInFlight' - lost' =
              trialsInFlight - lost - (IF c \in TrialsOut THEN 1 ELSE 0),
           trialsInFlight' \in {trialsInFlight, trialsInFlight - 1}
    PROVE  BreakerInv'
<1>1. /\ permits' \in Holdings /\ permits'[c] = None
      /\ \A d \in Caller \ {c} : permits'[d] = permits[d]
  BY SettledFacts
<1>2. EpisodesAreApart'
  BY <1>1 DEF BreakerInv, EpisodesAreApart
<1>3. TrialsOut' = TrialsOut \ {c}
  BY <1>1 DEF TrialsOut
<1>4. /\ Cardinality(TrialsOut) \in Nat /\ Cardinality(TrialsOut \ {c}) \in Nat
      /\ Cardinality(TrialsOut \ {c}) = Cardinality(TrialsOut) - (IF c \in TrialsOut THEN 1 ELSE 0)
  <2>1. IsFiniteSet(TrialsOut) /\ IsFiniteSet(TrialsOut \ {c})
    BY TrialsOutFacts, FS_RemoveElement
  <2>2. Cardinality(TrialsOut) \in Nat /\ Cardinality(TrialsOut \ {c}) \in Nat
    BY <2>1, FS_CardinalityType
  <2> QED BY <2>1, <2>2, FS_RemoveElement
<1>5. /\ trialsInFlight = lost + Cardinality(TrialsOut)
      /\ trialsInFlight \in 0..HalfOpenMaxCalls /\ lost \in Nat /\ HalfOpenMaxCalls \in Nat
  BY PolicyFacts DEF BreakerInv, BreakerTypeOK, SlotsAreCounted
<1>6. trialsInFlight' = lost' + Cardinality(TrialsOut \ {c})
  BY <1>4, <1>5
<1>7. SlotsAreCounted'
  BY <1>3, <1>6 DEF SlotsAreCounted
<1>8. trialsInFlight' \in 0..HalfOpenMaxCalls
  BY <1>4, <1>5, <1>6
<1>9. BreakerTypeOK'
  BY <1>1, <1>8 DEF BreakerInv, BreakerTypeOK, Holdings
<1>10. FailuresAreCounted'
  BY DEF BreakerInv, FailuresAreCounted
<1> QED BY <1>2, <1>7, <1>9, <1>10 DEF BreakerInv

LEMMA SettleLateInv ==
    ASSUME PolicyAssumption, CallerAssumption, BreakerInv,
           NEW c \in Caller, permits[c] # None, SettleLate(c)
    PROVE  BreakerInv' /\ permits' = Settled(c)
<1>1. /\ permits' = Settled(c) /\ c \notin TrialsOut
      /\ UNCHANGED <<state, window, windowFailures, openedAge, trialsInFlight, trialSuccesses, lost>>
  BY DEF SettleLate, TrialsOut, breakerVars
<1>2. /\ trialsInFlight \in Int /\ lost \in Nat
      /\ trialSuccesses \in 0..SuccessThreshold
  BY DEF BreakerInv, BreakerTypeOK
<1>3. trialsInFlight' - lost' = trialsInFlight - lost - 0
  BY <1>1, <1>2
<1> QED BY <1>1, <1>2, <1>3, SettledInv

LEMMA HandBackInv ==
    ASSUME PolicyAssumption, CallerAssumption, BreakerInv,
           NEW c \in Caller, permits[c] # None, HandBack(c)
    PROVE  BreakerInv' /\ permits' = Settled(c)
<1>1. /\ permits' = Settled(c)
      /\ trialsInFlight' = IF c \in TrialsOut THEN trialsInFlight - 1 ELSE trialsInFlight
      /\ UNCHANGED <<state, window, windowFailures, openedAge, trialSuccesses, lost>>
  BY DEF HandBack, TrialsOut
<1>2. /\ trialsInFlight \in Int /\ lost \in Nat
      /\ trialSuccesses \in 0..SuccessThreshold
  BY DEF BreakerInv, BreakerTypeOK
<1>3. /\ trialsInFlight' - lost' = trialsInFlight - lost - (IF c \in TrialsOut THEN 1 ELSE 0)
      /\ trialsInFlight' \in {trialsInFlight, trialsInFlight - 1}
  BY <1>1, <1>2
<1> QED BY <1>1, <1>2, <1>3, SettledInv

LEMMA LoseInv ==
    ASSUME PolicyAssumption, CallerAssumption, BreakerInv,
           NEW c \in Caller, permits[c] # None, Lose(c)
    PROVE  BreakerInv' /\ permits' = Settled(c)
<1>1. /\ permits' = Settled(c)
      /\ lost' = IF c \in TrialsOut THEN lost + 1 ELSE lost
      /\ UNCHANGED <<state, window, windowFailures, openedAge, trialsInFlight, trialSuccesses>>
  BY DEF Lose, TrialsOut, breakerVars
<1>2. /\ trialsInFlight \in Int /\ lost \in Nat
      /\ trialSuccesses \in 0..SuccessThreshold
  BY DEF BreakerInv, BreakerTypeOK
<1>3. /\ trialsInFlight' - lost' = trialsInFlight - lost - (IF c \in TrialsOut THEN 1 ELSE 0)
      /\ trialsInFlight' \in {trialsInFlight, trialsInFlight - 1} /\ lost' \in Nat
  BY <1>1, <1>2
<1> QED BY <1>1, <1>2, <1>3, SettledInv

\* A verdict of a closed breaker: the count follows the window through the new
\* outcome and the pruned ones, and opening changes neither.
LEMMA CountOutcomeInv ==
    ASSUME PolicyAssumption, CallerAssumption, BreakerInv,
           NEW c \in Caller, permits[c] # None, NEW ok \in BOOLEAN, CountOutcome(c, ok)
    PROVE  /\ BreakerInv'
           /\ \A d \in Caller : permits'[d] # None <=> (d # c /\ permits[d] # None)
<1> DEFINE o == [age |-> 0, ok |-> ok]
           grown == Append(window, o)
           kept == Fresh(grown)
<1>1. /\ permits[c].current /\ state = "closed" /\ Len(kept) <= MaxWindow
      /\ window' = kept
      /\ windowFailures' = windowFailures + (IF ok THEN 0 ELSE 1) - (Failures(grown) - Failures(kept))
      /\ \/ NewEpisode("open", Settled(c))
         \/ /\ permits' = Settled(c)
            /\ UNCHANGED <<state, openedAge, trialsInFlight, trialSuccesses, lost>>
  BY DEF CountOutcome
<1>2. o \in Outcome /\ o.ok = ok /\ window \in Seq(Outcome)
  BY PolicyFacts DEF Outcome, BreakerInv, BreakerTypeOK
<1> HIDE DEF o
<1>3. grown \in Seq(Outcome)
  BY <1>2, AppendProperties
<1>10. Failures(grown) = Failures(window) + (IF ok THEN 0 ELSE 1)
  BY <1>2, FailuresOfAppend
<1> HIDE DEF grown
<1>4. kept \in Seq(Outcome)
  BY <1>3, FreshIsAWindow
<1> HIDE DEF kept
<1>5. /\ Failures(grown) \in Nat /\ Failures(kept) \in Nat
      /\ windowFailures = Failures(window) /\ Failures(window) \in Nat
  BY <1>2, <1>3, <1>4, FailuresIsANumber DEF BreakerInv, FailuresAreCounted
<1>6. windowFailures' = Failures(kept)
  <2>1. windowFailures' = windowFailures + (IF ok THEN 0 ELSE 1) - (Failures(grown) - Failures(kept))
    BY <1>1
  <2> QED BY <2>1, <1>10, <1>5
<1>7. windowFailures' = Failures(window')
  BY <1>1, <1>6
<1>8. CASE NewEpisode("open", Settled(c))
  <2>1. "open" \in States
    BY DEF States
  <2> QED BY <1>1, <1>4, <1>7, <1>8, <2>1, SettledFacts, NewEpisodeInv
<1>9. CASE /\ permits' = Settled(c)
           /\ UNCHANGED <<state, openedAge, trialsInFlight, trialSuccesses, lost>>
  <2>1. /\ permits' \in Holdings /\ permits'[c] = None
        /\ \A d \in Caller \ {c} : permits'[d] = permits[d]
        /\ \A d \in Caller : permits'[d] # None <=> (d # c /\ permits[d] # None)
    BY <1>9, SettledFacts
  <2>2. c \notin TrialsOut
    BY <1>1 DEF TrialsOut, BreakerInv, EpisodesAreApart
  <2>3. TrialsOut' = TrialsOut
    BY <2>1, <2>2 DEF TrialsOut
  <2>4. BreakerTypeOK'
    BY <1>1, <1>4, <1>5, <1>6, <1>9, <2>1 DEF BreakerInv, BreakerTypeOK, Holdings
  <2>5. EpisodesAreApart'
    BY <1>9, <2>1 DEF BreakerInv, EpisodesAreApart
  <2>6. SlotsAreCounted'
    BY <1>9, <2>3 DEF BreakerInv, SlotsAreCounted
  <2>7. FailuresAreCounted'
    BY <1>7 DEF FailuresAreCounted
  <2> QED BY <2>1, <2>4, <2>5, <2>6, <2>7 DEF BreakerInv
<1> QED BY <1>1, <1>8, <1>9

\* A trial that fails opens the breaker again.
LEMMA TrialFailsInv ==
    ASSUME PolicyAssumption, CallerAssumption, BreakerInv,
           NEW c \in Caller, permits[c] # None, TrialFails(c)
    PROVE  /\ BreakerInv'
           /\ \A d \in Caller : permits'[d] # None <=> (d # c /\ permits[d] # None)
<1>1. NewEpisode("open", Settled(c)) /\ UNCHANGED <<window, windowFailures>> /\ "open" \in States
  BY DEF TrialFails, States
<1>2. /\ window' \in Seq(Outcome) /\ Len(window') <= MaxWindow
      /\ windowFailures' = Failures(window')
  BY <1>1 DEF BreakerInv, BreakerTypeOK, FailuresAreCounted
<1> QED BY <1>1, <1>2, SettledFacts, NewEpisodeInv

\* Closing, by the last trial or by an operator, starts with an empty window.
LEMMA CloseInv ==
    ASSUME PolicyAssumption, CallerAssumption, BreakerInv,
           NEW ps \in Holdings, Close(ps)
    PROVE  /\ BreakerInv'
           /\ \A d \in Caller : permits'[d] # None <=> ps[d] # None
<1>1. NewEpisode("closed", ps) /\ window' = <<>> /\ windowFailures' = 0 /\ "closed" \in States
  BY DEF Close, States
<1>2. {i \in 1..Len(<<>>) : ~(<<>>)[i].ok} = {}
  BY EmptySeq
<1>3. Failures(<<>>) = 0
  BY <1>2, FS_EmptySet DEF Failures
<1>4. window' \in Seq(Outcome) /\ Len(window') <= MaxWindow
  BY <1>1, EmptySeq, PolicyFacts
<1> QED BY <1>1, <1>3, <1>4, NewEpisodeInv

\* A trial that succeeds gives its slot back, or closes the breaker.
LEMMA TrialSucceedsInv ==
    ASSUME PolicyAssumption, CallerAssumption, BreakerInv,
           NEW c \in Caller, permits[c] # None, TrialSucceeds(c)
    PROVE  /\ BreakerInv'
           /\ \A d \in Caller : permits'[d] # None <=> (d # c /\ permits[d] # None)
<1>1. CASE Close(Settled(c))
  BY <1>1, SettledFacts, CloseInv
<1>2. CASE /\ trialSuccesses + 1 < SuccessThreshold
           /\ trialSuccesses' = trialSuccesses + 1
           /\ trialsInFlight' = IF permits[c].trial THEN trialsInFlight - 1 ELSE trialsInFlight
           /\ permits' = Settled(c)
           /\ UNCHANGED <<state, window, windowFailures, openedAge, lost>>
  <2>1. permits[c].current /\ trialsInFlight' = IF c \in TrialsOut THEN trialsInFlight - 1 ELSE trialsInFlight
    BY <1>2 DEF TrialSucceeds, TrialsOut
  <2>2. /\ trialsInFlight \in Int /\ lost \in Nat
        /\ trialSuccesses' \in 0..SuccessThreshold
    BY <1>2, PolicyFacts DEF BreakerInv, BreakerTypeOK
  <2>3. /\ trialsInFlight' - lost' = trialsInFlight - lost - (IF c \in TrialsOut THEN 1 ELSE 0)
        /\ trialsInFlight' \in {trialsInFlight, trialsInFlight - 1} /\ lost' \in Nat
    BY <1>2, <2>1, <2>2
  <2>4. BreakerInv'
    BY <1>2, <2>2, <2>3, SettledInv
  <2> QED BY <1>2, <2>4, SettledFacts
<1>3. trialSuccesses \in Int /\ SuccessThreshold \in Int
  BY PolicyFacts DEF BreakerInv, BreakerTypeOK
<1> QED BY <1>1, <1>2, <1>3 DEF TrialSucceeds

LEMMA RecordInv ==
    ASSUME PolicyAssumption, CallerAssumption, BreakerInv,
           NEW c \in Caller, permits[c] # None, NEW ok \in BOOLEAN, Record(c, ok)
    PROVE  /\ BreakerInv'
           /\ \A d \in Caller : permits'[d] # None <=> (d # c /\ permits[d] # None)
<1>1. CASE SettleLate(c)
  BY <1>1, SettleLateInv, SettledFacts
<1>2. CASE CountOutcome(c, ok)
  BY <1>2, CountOutcomeInv
<1>3. CASE TrialFails(c)
  BY <1>3, TrialFailsInv
<1>4. CASE TrialSucceeds(c)
  BY <1>4, TrialSucceedsInv
<1> QED BY <1>1, <1>2, <1>3, <1>4 DEF Record

------------------------------------------------------------------------------
(* Time, monitors and operators *)

\* None of them takes a permit away.
LEMMA EnvironmentInv ==
    ASSUME PolicyAssumption, CallerAssumption, BreakerInv,
           Reset \/ HalfOpen \/ Prune \/ Tick
    PROVE  /\ BreakerInv'
           /\ \A d \in Caller : permits'[d] # None <=> permits[d] # None
<1>1. permits \in Holdings /\ window \in Seq(Outcome) /\ Len(window) <= MaxWindow
  BY DEF BreakerInv, BreakerTypeOK, Holdings
<1>2. CASE Reset
  BY <1>1, <1>2, CloseInv DEF Reset
<1>3. CASE HalfOpen
  <2>1. NewEpisode("half_open", permits) /\ UNCHANGED <<window, windowFailures>> /\ "half_open" \in States
    BY <1>3 DEF HalfOpen, States
  <2>2. windowFailures' = Failures(window')
    BY <2>1 DEF BreakerInv, FailuresAreCounted
  <2> QED BY <1>1, <2>1, <2>2, NewEpisodeInv
<1>4. CASE Prune
  <2> DEFINE kept == Fresh(window)
  <2>1. /\ window' = kept
        /\ windowFailures' = windowFailures - (Failures(window) - Failures(kept))
        /\ UNCHANGED <<state, openedAge, trialsInFlight, trialSuccesses, permits, lost>>
    BY <1>4 DEF Prune
  <2>2. kept \in Seq(Outcome) /\ Len(kept) <= Len(window) /\ Len(kept) \in Nat /\ Len(window) \in Nat
    BY <1>1, FreshIsAWindow, LenProperties
  <2> HIDE DEF kept
  <2>3. windowFailures = Failures(window) /\ Failures(window) \in Nat /\ Failures(kept) \in Nat
    BY <1>1, <2>2, FailuresIsANumber DEF BreakerInv, FailuresAreCounted
  <2>4. windowFailures' = Failures(kept) /\ Len(kept) <= MaxWindow
    <3>1. windowFailures' = Failures(kept)
      BY <2>1, <2>3
    <3>2. Len(kept) <= MaxWindow
      BY <1>1, <2>2, PolicyFacts
    <3> QED BY <3>1, <3>2
  <2>5. BreakerTypeOK'
    BY <2>1, <2>2, <2>3, <2>4 DEF BreakerInv, BreakerTypeOK
  <2>6. TrialsOut' = TrialsOut
    BY <2>1 DEF TrialsOut
  <2>7. EpisodesAreApart' /\ SlotsAreCounted'
    BY <2>1, <2>6 DEF BreakerInv, EpisodesAreApart, SlotsAreCounted
  <2>8. FailuresAreCounted'
    BY <2>1, <2>4 DEF FailuresAreCounted
  <2> QED BY <2>1, <2>5, <2>7, <2>8 DEF BreakerInv
<1>5. CASE Tick
  <2>1. /\ window' \in Seq(Outcome) /\ Len(window') = Len(window)
        /\ Failures(window') = Failures(window)
    BY <1>1, <1>5, WindowAges, PolicyFacts
  <2>2. /\ openedAge' = Older(openedAge, OpenSeconds)
        /\ permits' = [d \in Caller |-> IF permits[d] = None THEN None
                        ELSE [permits[d] EXCEPT !.age = Older(@, SlowCallSeconds)]]
        /\ UNCHANGED <<state, windowFailures, trialsInFlight, trialSuccesses, lost>>
    BY <1>5 DEF Tick
  <2>3. openedAge' \in 0..OpenSeconds
    <3>1. openedAge \in 0..OpenSeconds /\ OpenSeconds \in Nat
      BY PolicyFacts DEF BreakerInv, BreakerTypeOK
    <3> QED BY <3>1, <2>2 DEF Older
  <2>4. ASSUME NEW d \in Caller
        PROVE  /\ permits'[d] \in Permits \cup {None}
               /\ permits'[d] # None <=> permits[d] # None
               /\ permits'[d] # None => /\ permits'[d].current = permits[d].current
                                        /\ permits'[d].trial = permits[d].trial
    <3>1. CASE permits[d] = None
      BY <3>1, <2>2
    <3>2. CASE permits[d] # None
      <4> DEFINE age == Older(permits[d].age, SlowCallSeconds)
      <4>1. permits[d] \in Permits /\ permits[d].age \in 0..SlowCallSeconds
        BY <1>1, <3>2 DEF Holdings, Permits
      <4>2. age \in 0..SlowCallSeconds
        BY <4>1, PolicyFacts DEF Older
      <4>3. permits'[d] = [permits[d] EXCEPT !.age = age]
        BY <2>2, <3>2
      <4> HIDE DEF age
      <4>4. permits'[d] \in Permits /\ permits'[d].current = permits[d].current
            /\ permits'[d].trial = permits[d].trial
        BY <4>1, <4>2, <4>3 DEF Permits
      <4> QED BY <3>2, <4>4 DEF CallerAssumption
    <3> QED BY <3>1, <3>2
  <2>5. permits' \in Holdings
    BY <2>2, <2>4 DEF Holdings
  <2>6. BreakerTypeOK'
    <3>1. Len(window') <= MaxWindow
      BY <1>1, <2>1
    <3> QED BY <3>1, <2>1, <2>2, <2>3, <2>5 DEF BreakerInv, BreakerTypeOK, Holdings
  <2>7. EpisodesAreApart'
    BY <2>2, <2>4 DEF BreakerInv, EpisodesAreApart
  <2>8. TrialsOut' = TrialsOut
    BY <2>4 DEF TrialsOut
  <2>9. SlotsAreCounted' /\ FailuresAreCounted'
    BY <2>1, <2>2, <2>8 DEF BreakerInv, SlotsAreCounted, FailuresAreCounted
  <2> QED BY <2>4, <2>6, <2>7, <2>9 DEF BreakerInv
<1> QED BY <1>2, <1>3, <1>4, <1>5

------------------------------------------------------------------------------
(* The retrier and its budget *)

Counted == {c \in Caller : pc[c] = "counted"}

\* Nobody sleeps on the last attempt.
SleepersTryAgain == \A c \in Caller : pc[c] = "sleeping" => attempt[c] < MaxAttempts

\* A failure that is counted and not yet judged has taken its cost from the budget,
\* and may be granted a retry with the budget as it is: so what the budget holds
\* above its half, and the cost of the failures waiting for their judgement, is
\* covered by the credit.
BudgetInv ==
    FewCallers => /\ credit >= 0
                  /\ tokens + EarnRate * Cardinality(Counted) <= credit + Full \div 2 + 1

\* The inductive invariant.
Inv == CallsInv /\ SleepersTryAgain /\ BudgetInv

LEMMA TimesIsMonotone ==
    ASSUME NEW a \in Nat, NEW b \in Nat, NEW k \in Nat, a <= b
    PROVE  k * a <= k * b
<1> DEFINE d == b - a
<1>1. d \in Nat /\ b = a + d
  OBVIOUS
<1>2. k * b = k * a + k * d /\ k * d \in Nat /\ k * a \in Nat
  BY <1>1
<1> QED BY <1>2

LEMMA HalfIsMonotone ==
    ASSUME NEW x \in Nat, NEW y \in Nat, NEW h \in Nat, 2 * x <= y, y <= 2 * h + 1
    PROVE  x <= h
  OBVIOUS

LEMMA BudgetFacts ==
    ASSUME RetryAssumption, CallerAssumption
    PROVE  /\ MaxAttempts \in Nat /\ MaxAttempts >= 1
           /\ EarnRate \in Nat /\ EarnRate >= 1
           /\ Full \in Nat /\ Full \div 2 \in Nat
           /\ 2 * (Full \div 2) <= Full /\ Full <= 2 * (Full \div 2) + 1
           /\ Cardinality(Caller) \in Nat /\ EarnRate * Cardinality(Caller) \in Nat
           /\ CreditLimit = Full \div 2 + EarnRate * Cardinality(Caller)
           /\ CreditLimit \in Nat /\ Full <= CreditLimit + Full \div 2 + 1
           /\ FewCallers => EarnRate * Cardinality(Caller) <= Full \div 2
<1> DEFINE n == Cardinality(Caller)
<1>1. /\ MaxAttempts \in Nat /\ MaxAttempts >= 1 /\ EarnRate \in Nat /\ EarnRate >= 1
      /\ MaxTokens \in Nat
  BY DEF RetryAssumption
<1>2. n \in Nat
  BY FS_CardinalityType DEF CallerAssumption
<1> HIDE DEF n
<1>3. Full \in Nat /\ Full = EarnRate * MaxTokens
  BY <1>1 DEF Full
<1>4. /\ Full \div 2 \in Nat
      /\ 2 * (Full \div 2) <= Full /\ Full <= 2 * (Full \div 2) + 1
  BY <1>3
<1>5. EarnRate * n \in Nat /\ EarnRate * n = n * EarnRate
  BY <1>1, <1>2
<1>6. ASSUME 2 * n <= MaxTokens
      PROVE  EarnRate * n <= Full \div 2
  <2>1. EarnRate * (2 * n) <= EarnRate * MaxTokens
    BY <1>1, <1>2, <1>6, TimesIsMonotone
  <2>2. EarnRate * (2 * n) = 2 * (EarnRate * n)
    BY <1>1, <1>2
  <2>3. 2 * (EarnRate * n) <= Full
    BY <1>3, <2>1, <2>2
  <2> QED BY <1>3, <1>4, <1>5, <2>3, HalfIsMonotone
<1>7. CreditLimit = Full \div 2 + EarnRate * n
  BY <1>5 DEF CreditLimit, n
<1>8. CreditLimit \in Nat /\ Full <= CreditLimit + Full \div 2 + 1
  BY <1>3, <1>4, <1>5, <1>7
<1> QED BY <1>1, <1>2, <1>3, <1>4, <1>5, <1>6, <1>7, <1>8 DEF FewCallers, n

\* The callers counted have a number; one more costs EarnRate more.
LEMMA CountedFacts ==
    ASSUME CallerAssumption
    PROVE  /\ IsFiniteSet(Counted) /\ Cardinality(Counted) \in Nat
           /\ Cardinality(Counted) <= Cardinality(Caller)
<1>1. Counted \in SUBSET Caller /\ IsFiniteSet(Caller)
  BY DEF Counted, CallerAssumption
<1> QED BY <1>1, FS_Subset, FS_CardinalityType

LEMMA InitInv == ASSUME PolicyAssumption, CallerAssumption, RetryAssumption, Init PROVE Inv
<1>1. /\ state = "closed" /\ window = <<>> /\ windowFailures = 0 /\ openedAge = 0
      /\ trialsInFlight = 0 /\ trialSuccesses = 0 /\ lost = 0
      /\ permits = [c \in Caller |-> None]
      /\ pc = [c \in Caller |-> "idle"] /\ attempt = [c \in Caller |-> 0]
      /\ tokens = Full /\ credit = CreditLimit
  BY DEF Init, BreakerInit
<1>2. BreakerTypeOK
  BY <1>1, PolicyFacts, EmptySeq DEF BreakerTypeOK, States
<1>3. TypeOK
  <2>1. Full \in Nat /\ CreditLimit \in Nat /\ MaxAttempts \in Nat
    BY BudgetFacts
  <2> QED BY <1>1, <1>2, <2>1 DEF TypeOK
<1>4. EpisodesAreApart
  BY <1>1 DEF EpisodesAreApart
<1>5. SlotsAreCounted
  <2>1. TrialsOut = {}
    BY <1>1 DEF TrialsOut
  <2> QED BY <1>1, <2>1, FS_EmptySet DEF SlotsAreCounted
<1>6. FailuresAreCounted
  <2>1. {i \in 1..Len(window) : ~window[i].ok} = {}
    BY <1>1, EmptySeq
  <2> QED BY <1>1, <2>1, FS_EmptySet DEF FailuresAreCounted, Failures
<1>7. \A c \in Caller : permits[c] # None <=> pc[c] = "inside"
  BY <1>1
<1>8. SleepersTryAgain
  BY <1>1 DEF SleepersTryAgain
<1>9. BudgetInv
  <2>1. Counted = {}
    BY <1>1 DEF Counted
  <2>2. EarnRate * Cardinality(Counted) = 0
    BY <2>1, FS_EmptySet, BudgetFacts
  <2>3. Full \in Nat /\ CreditLimit \in Nat /\ Full <= CreditLimit + Full \div 2 + 1
    BY BudgetFacts
  <2> QED BY <1>1, <2>2, <2>3 DEF BudgetInv
<1> QED BY <1>3, <1>4, <1>5, <1>6, <1>7, <1>8, <1>9 DEF Inv, CallsInv

LEMMA InvFacts ==
    ASSUME Inv
    PROVE  /\ BreakerInv
           /\ \A c \in Caller : permits[c] # None <=> pc[c] = "inside"
  BY DEF Inv, CallsInv, TypeOK, BreakerInv

LEMMA BreakerIdle == ASSUME BreakerInv, UNCHANGED cbVars PROVE BreakerInv'
  BY DEF BreakerInv, BreakerTypeOK, EpisodesAreApart, SlotsAreCounted, TrialsOut,
         FailuresAreCounted, cbVars, breakerVars

\* A step of one caller that counts no failure.
LEMMA CallerMoves ==
    ASSUME RetryAssumption, CallerAssumption, Inv, NEW c \in Caller,
           NEW to \in {"idle", "attempt", "inside", "failed", "sleeping", "succeeded"},
           NEW n \in 0..MaxAttempts, to = "sleeping" => n < MaxAttempts,
           pc' = [pc EXCEPT ![c] = to], attempt' = [attempt EXCEPT ![c] = n],
           BreakerInv', tokens' \in 0..Full, credit' \in Int, credit' <= CreditLimit,
           \A d \in Caller : permits'[d] # None <=>
                IF d = c THEN to = "inside" ELSE permits[d] # None
    PROVE  /\ CallsInv' /\ SleepersTryAgain'
           /\ Counted' = Counted \ {c}
<1>1. /\ pc'[c] = to /\ attempt'[c] = n
      /\ \A d \in Caller \ {c} : pc'[d] = pc[d] /\ attempt'[d] = attempt[d]
  BY DEF Inv, CallsInv, TypeOK
<1>2. TypeOK'
  BY DEF Inv, CallsInv, TypeOK, BreakerInv
<1>3. \A d \in Caller : permits'[d] # None <=> pc'[d] = "inside"
  BY <1>1 DEF Inv, CallsInv
<1>4. SleepersTryAgain'
  BY <1>1 DEF Inv, SleepersTryAgain
<1>5. Counted' = Counted \ {c}
  BY <1>1 DEF Counted
<1> QED BY <1>2, <1>3, <1>4, <1>5 DEF CallsInv, BreakerInv

\* A step that touches neither the counted failures nor the budget.
LEMMA BudgetIdle ==
    ASSUME Inv, UNCHANGED <<tokens, credit>>, Counted' = Counted
    PROVE  BudgetInv'
  BY DEF Inv, BudgetInv

\* One caller leaves the counted, or joins them.
LEMMA CountedMoves ==
    ASSUME CallerAssumption, RetryAssumption, NEW c \in Caller
    PROVE  /\ c \in Counted => EarnRate * Cardinality(Counted) =
                                 EarnRate * Cardinality(Counted \ {c}) + EarnRate
           /\ c \notin Counted => EarnRate * Cardinality(Counted \cup {c}) =
                                    EarnRate * Cardinality(Counted) + EarnRate
           /\ EarnRate * Cardinality(Counted) \in Nat
           /\ EarnRate * Cardinality(Counted \ {c}) \in Nat
           /\ EarnRate * Cardinality(Counted \cup {c}) \in Nat
           /\ EarnRate * Cardinality(Counted) <= EarnRate * Cardinality(Caller)
           /\ EarnRate * Cardinality(Counted \cup {c}) <= EarnRate * Cardinality(Caller)
<1> DEFINE k == Cardinality(Counted)
           less == Cardinality(Counted \ {c})
           more == Cardinality(Counted \cup {c})
           n == Cardinality(Caller)
<1>1. IsFiniteSet(Counted) /\ IsFiniteSet(Counted \ {c}) /\ IsFiniteSet(Counted \cup {c})
  BY CountedFacts, FS_AddElement, FS_RemoveElement
<1>2. k \in Nat /\ less \in Nat /\ more \in Nat
  BY <1>1, FS_CardinalityType
<1>3. c \in Counted => k = less + 1
  BY <1>1, <1>2, FS_RemoveElement
<1>4. c \notin Counted => more = k + 1
  BY <1>1, FS_AddElement
<1>5. n \in Nat /\ k <= n /\ more <= n
  <2>1. (Counted \cup {c}) \in SUBSET Caller /\ IsFiniteSet(Caller)
    BY DEF Counted, CallerAssumption
  <2> QED BY <2>1, CountedFacts, FS_Subset, FS_CardinalityType
<1>6. EarnRate \in Nat
  BY BudgetFacts
<1> HIDE DEF k, less, more, n
<1>7. EarnRate * k \in Nat /\ EarnRate * less \in Nat /\ EarnRate * more \in Nat
  BY <1>2, <1>6
<1>8. c \in Counted => EarnRate * k = EarnRate * less + EarnRate
  BY <1>2, <1>3, <1>6
<1>9. c \notin Counted => EarnRate * more = EarnRate * k + EarnRate
  BY <1>2, <1>4, <1>6
<1>10. EarnRate * k <= EarnRate * n /\ EarnRate * more <= EarnRate * n
  BY <1>2, <1>5, <1>6, TimesIsMonotone
<1> QED BY <1>7, <1>8, <1>9, <1>10 DEF k, less, more, n

\* A failure is counted: it costs EarnRate, and nothing once the budget is empty.
LEMMA SpendInv ==
    ASSUME PolicyAssumption, CallerAssumption, RetryAssumption, Inv,
           NEW c \in Caller, Spend(c)
    PROVE  Inv'
<1>1. /\ pc[c] = "failed" /\ pc' = [pc EXCEPT ![c] = "counted"]
      /\ tokens' = IF tokens - EarnRate >= 0 THEN tokens - EarnRate ELSE 0
      /\ UNCHANGED <<cbVars, attempt, credit>>
  BY DEF Spend, Goto, AtLeast
<1>2. /\ tokens \in 0..Full /\ credit \in Int /\ EarnRate \in Nat /\ EarnRate >= 1 /\ Full \in Nat
      /\ Full \div 2 \in Nat
  BY BudgetFacts DEF Inv, CallsInv, TypeOK
<1>3. /\ pc'[c] = "counted" /\ \A d \in Caller \ {c} : pc'[d] = pc[d]
  BY <1>1 DEF Inv, CallsInv, TypeOK
<1>4. tokens' \in 0..Full
  BY <1>1, <1>2
<1>5. BreakerInv'
  BY <1>1, BreakerIdle, InvFacts
<1>6. CallsInv'
  <2>1. TypeOK'
    BY <1>1, <1>4, <1>5 DEF Inv, CallsInv, TypeOK, BreakerInv
  <2>2. \A d \in Caller : permits'[d] # None <=> pc'[d] = "inside"
    BY <1>1, <1>3 DEF Inv, CallsInv, cbVars
  <2> QED BY <1>5, <2>1, <2>2 DEF CallsInv, BreakerInv
<1>7. SleepersTryAgain'
  BY <1>1, <1>3 DEF Inv, SleepersTryAgain
<1>8. Counted' = Counted \cup {c} /\ c \notin Counted
  BY <1>1, <1>3 DEF Counted
<1>9. BudgetInv'
  <2> DEFINE cost == EarnRate * Cardinality(Counted)
             costs == EarnRate * Cardinality(Counted \cup {c})
             limit == EarnRate * Cardinality(Caller)
             half == Full \div 2
  <2>1. costs = cost + EarnRate /\ costs <= limit /\ cost \in Nat
    BY <1>8, CountedMoves
  <2>2. limit \in Nat /\ (FewCallers => limit <= half)
    BY BudgetFacts
  <2>3. costs = (EarnRate * Cardinality(Counted))'
    BY <1>8
  <2> HIDE DEF cost, costs, limit, half
  <2>4. FewCallers => credit >= 0 /\ tokens + cost <= credit + half + 1
    BY DEF Inv, BudgetInv, cost, half
  <2>5. ASSUME FewCallers PROVE tokens' + costs <= credit + half + 1
    BY <1>1, <1>2, <2>1, <2>2, <2>4, <2>5 DEF half
  <2>6. credit' = credit
    BY <1>1
  <2> QED BY <2>3, <2>4, <2>5, <2>6 DEF BudgetInv, half
<1> QED BY <1>6, <1>7, <1>9 DEF Inv

\* A success earns one unit and pays for one, each up to its limit.
LEMMA EarnInv ==
    ASSUME PolicyAssumption, CallerAssumption, RetryAssumption, Inv,
           NEW c \in Caller, Earn(c)
    PROVE  Inv'
<1>1. /\ pc[c] = "succeeded" /\ pc' = [pc EXCEPT ![c] = "idle"]
      /\ attempt' = [attempt EXCEPT ![c] = 0]
      /\ tokens' = IF tokens + 1 <= Full THEN tokens + 1 ELSE Full
      /\ credit' = IF credit + 1 <= CreditLimit THEN credit + 1 ELSE CreditLimit
      /\ UNCHANGED cbVars
  BY DEF Earn, Finish, AtMost
<1>2. /\ tokens \in 0..Full /\ credit \in Int /\ credit <= CreditLimit
      /\ Full \in Nat /\ CreditLimit \in Nat /\ Full \div 2 \in Nat
      /\ Full <= 2 * (Full \div 2) + 1
  BY BudgetFacts DEF Inv, CallsInv, TypeOK
<1>3. tokens' \in 0..Full /\ credit' \in Int /\ credit' <= CreditLimit
  BY <1>1, <1>2
<1>4. BreakerInv'
  BY <1>1, BreakerIdle, InvFacts
<1>5. \A d \in Caller : permits'[d] # None <=> IF d = c THEN "idle" = "inside" ELSE permits[d] # None
  BY <1>1 DEF Inv, CallsInv, cbVars
<1>6. CallsInv' /\ SleepersTryAgain' /\ Counted' = Counted \ {c}
  <2>1. 0 \in 0..MaxAttempts /\ ("idle" = "sleeping" => 0 < MaxAttempts)
    BY BudgetFacts
  <2> QED BY <1>1, <1>3, <1>4, <1>5, <2>1, CallerMoves
<1>7. Counted' = Counted
  BY <1>1, <1>6 DEF Counted
<1>8. BudgetInv'
  <2> DEFINE cost == EarnRate * Cardinality(Counted)
             limit == EarnRate * Cardinality(Caller)
             half == Full \div 2
  <2>1. cost <= limit /\ cost \in Nat
    BY CountedMoves
  <2>2. limit \in Nat /\ CreditLimit = half + limit
    BY BudgetFacts
  <2>3. cost = (EarnRate * Cardinality(Counted))'
    BY <1>7
  <2> HIDE DEF cost, limit, half
  <2>4. FewCallers => credit >= 0 /\ tokens + cost <= credit + half + 1
    BY DEF Inv, BudgetInv, cost, half
  <2>5. ASSUME FewCallers PROVE credit' >= 0 /\ tokens' + cost <= credit' + half + 1
    BY <1>1, <1>2, <2>1, <2>2, <2>4, <2>5 DEF half
  <2> QED BY <2>3, <2>5 DEF BudgetInv, half
<1> QED BY <1>6, <1>8 DEF Inv

\* A retry is granted while more than half the budget is left.
LEMMA RetryInv ==
    ASSUME PolicyAssumption, CallerAssumption, RetryAssumption, Inv,
           NEW c \in Caller, Retry(c)
    PROVE  Inv'
<1>1. /\ pc[c] = "counted" /\ pc' = [pc EXCEPT ![c] = "sleeping"]
      /\ attempt[c] < MaxAttempts /\ 2 * tokens > Full
      /\ credit' = credit - EarnRate
      /\ UNCHANGED <<cbVars, attempt, tokens>>
  BY DEF Retry, Goto
<1>2. /\ tokens \in 0..Full /\ credit \in Int /\ credit <= CreditLimit
      /\ Full \in Nat /\ CreditLimit \in Nat /\ Full \div 2 \in Nat
      /\ 2 * (Full \div 2) <= Full /\ EarnRate \in Nat /\ MaxAttempts \in Nat
      /\ attempt \in [Caller -> 0..MaxAttempts]
  BY BudgetFacts DEF Inv, CallsInv, TypeOK
<1>3. /\ tokens' \in 0..Full /\ credit' \in Int /\ credit' <= CreditLimit
      /\ attempt' = [attempt EXCEPT ![c] = attempt[c]] /\ attempt[c] \in 0..MaxAttempts
  <2>1. tokens' \in 0..Full /\ credit' \in Int /\ credit' <= CreditLimit
    BY <1>1, <1>2
  <2>2. attempt' = [attempt EXCEPT ![c] = attempt[c]] /\ attempt[c] \in 0..MaxAttempts
    BY <1>1, <1>2
  <2> QED BY <2>1, <2>2
<1>4. BreakerInv'
  BY <1>1, BreakerIdle, InvFacts
<1>5. \A d \in Caller : permits'[d] # None <=> IF d = c THEN "sleeping" = "inside" ELSE permits[d] # None
  BY <1>1 DEF Inv, CallsInv, cbVars
<1>6. CallsInv' /\ SleepersTryAgain' /\ Counted' = Counted \ {c}
  BY <1>1, <1>3, <1>4, <1>5, CallerMoves
<1>7. c \in Counted
  BY <1>1 DEF Counted
<1>8. BudgetInv'
  <2> DEFINE cost == EarnRate * Cardinality(Counted)
             costs == EarnRate * Cardinality(Counted \ {c})
             half == Full \div 2
  <2>1. cost = costs + EarnRate /\ costs \in Nat /\ cost \in Nat
    BY <1>7, CountedMoves
  <2>2. costs = (EarnRate * Cardinality(Counted))'
    BY <1>6
  <2> HIDE DEF cost, costs, half
  <2>3. FewCallers => credit >= 0 /\ tokens + cost <= credit + half + 1
    BY DEF Inv, BudgetInv, cost, half
  <2>4. tokens \in Int /\ half \in Nat /\ tokens >= half + 1
    BY <1>1, <1>2 DEF half
  <2>5. ASSUME FewCallers PROVE credit' >= 0 /\ tokens' + costs <= credit' + half + 1
    BY <1>1, <1>2, <2>1, <2>3, <2>4, <2>5
  <2> QED BY <2>2, <2>5 DEF BudgetInv, half
<1> QED BY <1>6, <1>8 DEF Inv

\* A step of one caller that leaves the budget alone: the breaker's part is what
\* the breaker's lemmas say.
LEMMA CallerStep ==
    ASSUME RetryAssumption, CallerAssumption, Inv, NEW c \in Caller,
           NEW to \in {"idle", "attempt", "inside", "failed", "sleeping", "succeeded"},
           NEW n \in 0..MaxAttempts, to = "sleeping" => n < MaxAttempts,
           pc' = [pc EXCEPT ![c] = to], attempt' = [attempt EXCEPT ![c] = n],
           UNCHANGED <<tokens, credit>>, BreakerInv',
           \A d \in Caller : permits'[d] # None <=>
                IF d = c THEN to = "inside" ELSE permits[d] # None
    PROVE  Inv'
<1>1. /\ tokens' \in 0..Full /\ credit' \in Int /\ credit' <= CreditLimit
  BY DEF Inv, CallsInv, TypeOK
<1>2. CallsInv' /\ SleepersTryAgain' /\ Counted' = Counted \ {c}
  BY <1>1, CallerMoves
<1>3. CASE c \notin Counted
  BY <1>2, <1>3, BudgetIdle DEF Inv
<1>4. CASE c \in Counted
  <2> DEFINE cost == EarnRate * Cardinality(Counted)
             costs == EarnRate * Cardinality(Counted \ {c})
             half == Full \div 2
  <2>1. cost = costs + EarnRate /\ costs \in Nat /\ cost \in Nat /\ EarnRate \in Nat
    BY <1>4, CountedMoves, BudgetFacts
  <2>2. costs = (EarnRate * Cardinality(Counted))' /\ half \in Nat
    BY <1>2, BudgetFacts
  <2>3. tokens \in Int /\ credit \in Int
    BY BudgetFacts DEF Inv, CallsInv, TypeOK
  <2> HIDE DEF cost, costs, half
  <2>4. FewCallers => credit >= 0 /\ tokens + cost <= credit + half + 1
    BY DEF Inv, BudgetInv, cost, half
  <2>5. FewCallers => credit >= 0 /\ tokens + costs <= credit + half + 1
    BY <2>1, <2>2, <2>3, <2>4
  <2> QED BY <1>2, <2>2, <2>5 DEF Inv, BudgetInv, half
<1> QED BY <1>3, <1>4

LEMMA AttemptFacts ==
    ASSUME RetryAssumption, CallerAssumption, Inv, NEW c \in Caller
    PROVE  /\ attempt[c] \in 0..MaxAttempts /\ attempt = [attempt EXCEPT ![c] = attempt[c]]
           /\ 0 \in 0..MaxAttempts /\ 1 \in 0..MaxAttempts
           /\ pc[c] = "sleeping" => attempt[c] + 1 \in 0..MaxAttempts
<1>1. attempt \in [Caller -> 0..MaxAttempts] /\ (pc[c] = "sleeping" => attempt[c] < MaxAttempts)
  BY DEF Inv, CallsInv, TypeOK, SleepersTryAgain
<1> QED BY <1>1, BudgetFacts

LEMMA CallInv ==
    ASSUME RetryAssumption, CallerAssumption, Inv, NEW c \in Caller, Call(c)
    PROVE  Inv'
<1>1. /\ pc[c] = "idle" /\ pc' = [pc EXCEPT ![c] = "attempt"]
      /\ attempt' = [attempt EXCEPT ![c] = 1] /\ UNCHANGED <<tokens, credit>>
      /\ UNCHANGED cbVars /\ permits' = permits
  BY DEF Call, Goto, cbVars
<1>2. BreakerInv' /\ permits[c] = None
  BY <1>1, InvFacts, BreakerIdle
<1> QED BY <1>1, <1>2, AttemptFacts, CallerStep

LEMMA TryInv ==
    ASSUME PolicyAssumption, RetryAssumption, CallerAssumption, Inv, NEW c \in Caller, Try(c)
    PROVE  Inv'
<1>1. pc[c] = "attempt" /\ UNCHANGED <<tokens, credit>>
  BY DEF Try, Goto, Finish
<1>2. BreakerInv /\ permits[c] = None
  BY <1>1, InvFacts
<1>3. CASE Acquire(c) /\ Goto(c, "attempt", "inside") /\ UNCHANGED attempt
  <2>1. pc' = [pc EXCEPT ![c] = "inside"] /\ attempt' = [attempt EXCEPT ![c] = attempt[c]]
    BY <1>3, AttemptFacts DEF Goto
  <2>2. /\ BreakerInv'
        /\ \A d \in Caller : permits'[d] # None <=> IF d = c THEN "inside" = "inside" ELSE permits[d] # None
    BY <1>2, <1>3, AcquireInv
  <2>3. attempt[c] \in 0..MaxAttempts
    BY AttemptFacts
  <2> QED BY <1>1, <2>1, <2>2, <2>3, CallerStep
<1>4. CASE Rejects /\ Finish(c, "attempt") /\ UNCHANGED cbVars
  <2>1. /\ pc' = [pc EXCEPT ![c] = "idle"] /\ attempt' = [attempt EXCEPT ![c] = 0]
        /\ permits' = permits /\ BreakerInv'
    BY <1>2, <1>4, BreakerIdle DEF Finish, cbVars
  <2> QED BY <1>1, <1>2, <2>1, AttemptFacts, CallerStep
<1> QED BY <1>3, <1>4 DEF Try

\* The guarded function is over: the permit is settled, or lost.
LEMMA LeaveInv ==
    ASSUME PolicyAssumption, RetryAssumption, CallerAssumption, Inv, NEW c \in Caller,
           Succeed(c) \/ Fail(c) \/ Ignore(c) \/ Vanish(c)
    PROVE  Inv'
<1>1. pc[c] = "inside" /\ UNCHANGED <<tokens, credit>>
  BY DEF Succeed, Fail, Ignore, Vanish, Goto, Finish
<1>2. BreakerInv /\ permits[c] # None
  BY <1>1, InvFacts
<1>3. ASSUME NEW to \in {"failed", "succeeded"}, pc' = [pc EXCEPT ![c] = to], UNCHANGED attempt,
             NEW ok \in BOOLEAN, Record(c, ok)
      PROVE  Inv'
  <2>1. attempt' = [attempt EXCEPT ![c] = attempt[c]]
    BY <1>3, AttemptFacts
  <2>2. /\ BreakerInv'
        /\ \A d \in Caller : permits'[d] # None <=> IF d = c THEN to = "inside" ELSE permits[d] # None
    BY <1>2, <1>3, RecordInv
  <2>3. attempt[c] \in 0..MaxAttempts /\ to # "sleeping"
    BY <1>3, AttemptFacts
  <2> QED BY <1>1, <1>3, <2>1, <2>2, <2>3, CallerStep
<1>4. ASSUME Finish(c, "inside"), BreakerInv', permits' = Settled(c)
      PROVE  Inv'
  <2>1. pc' = [pc EXCEPT ![c] = "idle"] /\ attempt' = [attempt EXCEPT ![c] = 0]
    BY <1>4 DEF Finish
  <2>2. \A d \in Caller : permits'[d] # None <=> IF d = c THEN "idle" = "inside" ELSE permits[d] # None
    BY <1>2, <1>4, SettledFacts
  <2>3. 0 \in 0..MaxAttempts
    BY AttemptFacts
  <2> QED BY <1>1, <1>4, <2>1, <2>2, <2>3, CallerStep
<1>5. CASE Succeed(c)
  BY <1>3, <1>5 DEF Succeed, Goto, Slow
<1>6. CASE Fail(c)
  BY <1>3, <1>6 DEF Fail, Goto
<1>7. CASE Ignore(c)
  BY <1>2, <1>4, <1>7, SettleLateInv, HandBackInv DEF Ignore
<1>8. CASE Vanish(c)
  BY <1>2, <1>4, <1>8, LoseInv DEF Vanish
<1> QED BY <1>5, <1>6, <1>7, <1>8

LEMMA GiveUpInv ==
    ASSUME RetryAssumption, CallerAssumption, Inv, NEW c \in Caller, GiveUp(c)
    PROVE  Inv'
<1>1. /\ pc[c] = "counted" /\ pc' = [pc EXCEPT ![c] = "idle"]
      /\ attempt' = [attempt EXCEPT ![c] = 0] /\ UNCHANGED <<tokens, credit>>
      /\ UNCHANGED cbVars /\ permits' = permits
  BY DEF GiveUp, Finish, cbVars
<1>2. BreakerInv' /\ permits[c] = None
  BY <1>1, InvFacts, BreakerIdle
<1> QED BY <1>1, <1>2, AttemptFacts, CallerStep

LEMMA WakeInv ==
    ASSUME RetryAssumption, CallerAssumption, Inv, NEW c \in Caller, Wake(c)
    PROVE  Inv'
<1>1. /\ pc[c] = "sleeping" /\ pc' = [pc EXCEPT ![c] = "attempt"]
      /\ attempt' = [attempt EXCEPT ![c] = attempt[c] + 1] /\ UNCHANGED <<tokens, credit>>
      /\ UNCHANGED cbVars /\ permits' = permits
  BY DEF Wake, Goto, cbVars
<1>2. BreakerInv' /\ permits[c] = None
  BY <1>1, InvFacts, BreakerIdle
<1> QED BY <1>1, <1>2, AttemptFacts, CallerStep

LEMMA StillInv ==
    ASSUME PolicyAssumption, CallerAssumption, Inv, Environment \/ UNCHANGED vars
    PROVE  Inv'
<1>1. UNCHANGED retryVars
  BY DEF Environment, vars
<1>2. BreakerInv' /\ \A d \in Caller : permits'[d] # None <=> permits[d] # None
  <2>1. CASE Environment
    BY <2>1, InvFacts, EnvironmentInv DEF Environment
  <2>2. CASE UNCHANGED vars
    BY <2>2, InvFacts, BreakerIdle DEF vars, cbVars
  <2> QED BY <2>1, <2>2
<1>3. CallsInv'
  BY <1>1, <1>2 DEF Inv, CallsInv, TypeOK, BreakerInv, retryVars
<1>4. SleepersTryAgain' /\ Counted' = Counted
  BY <1>1 DEF Inv, SleepersTryAgain, Counted, retryVars
<1>5. BudgetInv'
  BY <1>1, <1>4, BudgetIdle DEF retryVars
<1> QED BY <1>3, <1>4, <1>5 DEF Inv

LEMMA NextInv ==
    ASSUME PolicyAssumption, CallerAssumption, RetryAssumption, Inv, [Next]_vars
    PROVE  Inv'
<1>1. ASSUME NEW c \in Caller,
             \/ Call(c) \/ Try(c) \/ Succeed(c) \/ Fail(c) \/ Ignore(c) \/ Vanish(c)
             \/ Spend(c) \/ Earn(c) \/ GiveUp(c) \/ Retry(c) \/ Wake(c)
      PROVE  Inv'
  BY <1>1, CallInv, TryInv, LeaveInv, SpendInv, EarnInv, GiveUpInv, RetryInv, WakeInv
<1>2. CASE Environment \/ UNCHANGED vars
  BY <1>2, StillInv
<1> QED BY <1>1, <1>2 DEF Next

------------------------------------------------------------------------------
(* The theorems *)

\* The breaker and the retrier keep their books: every slot of a half-open breaker
\* is a trial's or a lost one's, the failure count is the window's, a permit speaks
\* only for its own episode, and a caller holds one exactly while its function runs.
THEOREM CallsAreSafe == Spec => []CallsInv
<1>1. Init => Inv
  BY InitInv, PolicyAssumption, CallerAssumption, RetryAssumption
<1>2. Inv /\ [Next]_vars => Inv'
  BY NextInv, PolicyAssumption, CallerAssumption, RetryAssumption
<1>3. Inv => CallsInv
  BY DEF Inv
<1> QED BY <1>1, <1>2, <1>3, PTL DEF Spec

\* As long as a budget is shared by no more callers than half of it has tokens, the
\* successes pay for the retries: however failures and checks interleave, what is
\* granted beyond them never exceeds half a budget and a retry for each caller.
THEOREM RetriesAreBounded == Spec => []RetriesArePaidFor
<1>1. Init => Inv
  BY InitInv, PolicyAssumption, CallerAssumption, RetryAssumption
<1>2. Inv /\ [Next]_vars => Inv'
  BY NextInv, PolicyAssumption, CallerAssumption, RetryAssumption
<1>3. Inv => RetriesArePaidFor
  BY DEF Inv, BudgetInv, RetriesArePaidFor
<1> QED BY <1>1, <1>2, <1>3, PTL DEF Spec
=============================================================================
