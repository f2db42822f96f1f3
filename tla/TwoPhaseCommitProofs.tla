------------------------- MODULE TwoPhaseCommitProofs -------------------------
(***************************************************************************)
(* TLAPS proofs about TwoPhaseCommit, for every set of transactions and    *)
(* participants, every plan, and any number of faults.                     *)
(***************************************************************************)
EXTENDS TwoPhaseCommit, FiniteSetTheorems, WellFoundedInduction, TLAPS

\* Applying a decision keeps the types of the participant's state.
LEMMA ApplyTyping ==
    ASSUME TypeOK, NEW p \in Participant, NEW t \in Tx, NEW d \in Decision,
           Apply(p, t, d)
    PROVE  /\ data' \in [Participant -> [Key -> Int]]
           /\ locks' \in [Participant -> [Key -> Tx \cup {None}]]
           /\ DOMAIN prepared' = Participant
           /\ \A q \in Participant :
                 /\ DOMAIN prepared'[q] = Tx
                 /\ \A u \in Tx : prepared'[q][u] \in [Keys(u, q) -> Int] \cup {None}
           /\ decided' \in [Participant -> [Tx -> Decision \cup {None}]]
<1>1. data' \in [Participant -> [Key -> Int]]
  <2>1. CASE d = "commit" /\ prepared[p][t] # None
    <3>1. prepared[p][t] \in [Keys(t, p) -> Int]
      BY <2>1 DEF TypeOK
    <3>2. [k \in Key |-> IF k \in Keys(t, p) THEN prepared[p][t][k] ELSE data[p][k]]
            \in [Key -> Int]
      BY <3>1 DEF TypeOK
    <3> QED BY <2>1, <3>2 DEF Apply, TypeOK
  <2>2. CASE ~(d = "commit" /\ prepared[p][t] # None)
    BY <2>2 DEF Apply, TypeOK
  <2> QED BY <2>1, <2>2
<1>2. locks' \in [Participant -> [Key -> Tx \cup {None}]]
  <2>1. [k \in Key |-> IF locks[p][k] = t THEN None ELSE locks[p][k]]
          \in [Key -> Tx \cup {None}]
    BY DEF TypeOK
  <2> QED BY <2>1 DEF Apply, TypeOK
<1>3. /\ DOMAIN prepared' = Participant
      /\ \A q \in Participant :
            /\ DOMAIN prepared'[q] = Tx
            /\ \A u \in Tx : prepared'[q][u] \in [Keys(u, q) -> Int] \cup {None}
  BY DEF Apply, TypeOK
<1>4. decided' \in [Participant -> [Tx -> Decision \cup {None}]]
  BY DEF Apply, TypeOK
<1> QED BY <1>1, <1>2, <1>3, <1>4

\* A plan lists participants, and the members of a transaction are those.
LEMMA PlanFacts ==
    ASSUME NEW t \in Tx
    PROVE  /\ Len(Plan[t]) \in Nat
           /\ Participants(t) \subseteq Participant
           /\ \A i \in 1..Len(Plan[t]) : Plan[t][i] \in Participants(t)
           /\ \A p \in Participants(t) : \E i \in 1..Len(Plan[t]) : Plan[t][i] = p
  BY PlanAssumption DEF Participants

\* A YES vote keeps the types of the participant's state.
LEMMA VoteTyping ==
    ASSUME TypeOK, NEW p \in Participant, NEW t \in Tx, VoteYes(p, t)
    PROVE  /\ locks' \in [Participant -> [Key -> Tx \cup {None}]]
           /\ DOMAIN prepared' = Participant
           /\ \A q \in Participant :
                 /\ DOMAIN prepared'[q] = Tx
                 /\ \A u \in Tx : prepared'[q][u] \in [Keys(u, q) -> Int] \cup {None}
           /\ NewValues(p, t) \in [Keys(t, p) -> Int]
<1>1. NewValues(p, t) \in [Keys(t, p) -> Int]
  BY DataAssumption DEF NewValues, TypeOK, Keys
<1>2. locks' \in [Participant -> [Key -> Tx \cup {None}]]
  <2>1. [k \in Key |-> IF k \in Keys(t, p) THEN t ELSE locks[p][k]]
          \in [Key -> Tx \cup {None}]
    BY DEF TypeOK
  <2> QED BY <2>1 DEF VoteYes, TypeOK
<1>3. /\ DOMAIN prepared' = Participant
      /\ \A q \in Participant :
            /\ DOMAIN prepared'[q] = Tx
            /\ \A u \in Tx : prepared'[q][u] \in [Keys(u, q) -> Int] \cup {None}
  BY <1>1 DEF VoteYes, TypeOK
<1> QED BY <1>1, <1>2, <1>3

LEMMA TypingInit == Init => TypeOK
<1> SUFFICES ASSUME Init PROVE TypeOK
  OBVIOUS
<1>1. /\ data \in [Participant -> [Key -> Int]]
      /\ locks \in [Participant -> [Key -> Tx \cup {None}]]
      /\ DOMAIN prepared = Participant
      /\ \A p \in Participant :
            /\ DOMAIN prepared[p] = Tx
            /\ \A t \in Tx : prepared[p][t] \in [Keys(t, p) -> Int] \cup {None}
      /\ decided \in [Participant -> [Tx -> Decision \cup {None}]]
  BY DataAssumption DEF Init
<1>2. /\ down \in [Participant -> BOOLEAN]
      /\ crashAfterVote \in [Participant -> BOOLEAN]
      /\ doubts \in [Participant -> SUBSET Tx]
      /\ answer \in [Participant -> (Tx \X Decision) \cup {None}]
      /\ coordDown \in BOOLEAN
      /\ crashAt \in {"before", "after", None}
  BY DEF Init
<1>3. /\ logged \in SUBSET Tx
      /\ decision \in [Tx -> Decision \cup {None}]
      /\ acked \in [Tx -> SUBSET Participant]
      /\ todo \in SUBSET Tx
      /\ current \in Tx \cup {None}
      /\ faults \in Nat
  BY DEF Init
<1>4. /\ pc \in [Thread -> {"idle", "voting", "logging", "decided", "broadcast", "ack",
                            "next", "done", "crashed", "error"}]
      /\ pos \in [Thread -> Nat \ {0}]
      /\ unanimous \in [Tx -> BOOLEAN]
  BY DEF Init
<1> QED BY <1>1, <1>2, <1>3, <1>4 DEF TypeOK

\* Every step keeps the types.
LEMMA TypingStep == TypeOK /\ ControlOK /\ [Next]_vars => TypeOK'
<1> SUFFICES ASSUME TypeOK, ControlOK, [Next]_vars PROVE TypeOK'
  OBVIOUS
<1>1. ASSUME NEW t \in Tx, RunStart(t) PROVE TypeOK'
  BY <1>1 DEF RunStart, TypeOK, partVars, failVars, coordVars, recVars, Thread
<1>2. ASSUME NEW t \in Tx, CollectVote(t) PROVE TypeOK'
  <2> DEFINE p == Plan[t][pos[t]]
  <2>1. p \in Participant /\ pos' \in [Thread -> Nat \ {0}]
    BY <1>2, PlanFacts DEF CollectVote, TypeOK, Thread
  <2>2. CASE VoteYes(p, t)
    <3> HIDE DEF p
    <3>1. /\ UNCHANGED <<data, decided, doubts, answer, unanimous>>
          /\ crashAfterVote' \in [Participant -> BOOLEAN]
          /\ down' \in [Participant -> BOOLEAN]
      BY <2>1, <2>2 DEF VoteYes, TypeOK
    <3>2. UNCHANGED <<logVars, coordVars, pc, recVars, faults>>
      BY <1>2 DEF CollectVote
    <3> QED BY <2>1, <2>2, <3>1, <3>2, VoteTyping
            DEF TypeOK, logVars, coordVars, recVars
  <2>3. CASE VoteAgain(p, t)
    BY <1>2, <2>1, <2>3 DEF CollectVote, VoteAgain, TypeOK, partVars, failVars,
          logVars, coordVars, recVars
  <2>4. CASE VoteNo(p, t)
    BY <1>2, <2>1, <2>4 DEF CollectVote, VoteNo, TypeOK, partVars, failVars,
          logVars, coordVars, recVars
  <2> QED BY <1>2, <2>2, <2>3, <2>4 DEF CollectVote
<1>3. ASSUME NEW t \in Tx, AllVotesIn(t) PROVE TypeOK'
  <2>1. MaybeCrash(t, "before", "logging") /\ t \in Thread
    BY <1>3 DEF AllVotesIn, Thread
  <2>2. /\ coordDown' \in BOOLEAN
        /\ crashAt' \in {"before", "after", None}
        /\ pc' \in [Thread -> {"idle", "voting", "logging", "decided", "broadcast",
                               "ack", "next", "done", "crashed", "error"}]
    BY <2>1 DEF MaybeCrash, TypeOK, coordVars
  <2>3. pos' \in [Thread -> Nat \ {0}]
    BY <1>3, <2>1 DEF AllVotesIn, TypeOK
  <2>4. UNCHANGED <<partVars, failVars, logVars, unanimous, recVars, faults>>
    BY <1>3 DEF AllVotesIn
  <2> QED BY <2>2, <2>3, <2>4 DEF TypeOK, partVars, failVars, logVars, recVars
<1>4. ASSUME NEW t \in Tx, LogDecision(t) PROVE TypeOK'
  BY <1>4 DEF LogDecision, TypeOK, partVars, failVars, coordVars, recVars,
        Thread, Decision
<1>5. ASSUME NEW t \in Tx, DecisionLogged(t) PROVE TypeOK'
  BY <1>5 DEF DecisionLogged, MaybeCrash, TypeOK, partVars, failVars, logVars,
        coordVars, recVars, Thread
<1>6. ASSUME NEW th \in Thread, SkipParticipant(th) PROVE TypeOK'
  BY <1>6 DEF SkipParticipant, TypeOK, partVars, failVars, logVars, coordVars, recVars
<1>7. ASSUME NEW th \in Thread, SendDecision(th) PROVE TypeOK'
  <2> DEFINE t == Job(th)
             p == Plan[t][pos[th]]
  <2>1. t \in Tx /\ decision[t] \in Decision
    BY <1>7 DEF SendDecision, ControlOK, TypeOK
  <2>2. p \in Participant
    <3>1. pos[th] \in 1..Len(Plan[t])
      BY <1>7, <2>1, PlanFacts DEF SendDecision, TypeOK
    <3> QED BY <2>1, <3>1, PlanFacts
  <2>3. /\ UNCHANGED <<failVars, logVars, coordVars, pos, unanimous, recVars, faults>>
        /\ pc' \in [Thread -> {"idle", "voting", "logging", "decided", "broadcast",
                               "ack", "next", "done", "crashed", "error"}]
        /\ UNCHANGED partVars \/ Apply(p, t, decision[t])
    BY <1>7 DEF SendDecision, TypeOK
  <2> HIDE DEF p, t
  <2>4. CASE Apply(p, t, decision[t])
    BY <2>1, <2>2, <2>3, <2>4, ApplyTyping
       DEF TypeOK, failVars, logVars, coordVars, recVars
  <2>5. CASE UNCHANGED partVars
    BY <2>3, <2>5 DEF TypeOK, partVars, failVars, logVars, coordVars, recVars
  <2> QED BY <2>3, <2>4, <2>5
<1>8. ASSUME NEW th \in Thread, RecordAck(th) PROVE TypeOK'
  <2>1. Job(th) \in Tx /\ pos[th] \in 1..Len(Plan[Job(th)])
    BY <1>8, PlanFacts DEF RecordAck, ControlOK, TypeOK
  <2>2. Plan[Job(th)][pos[th]] \in Participant
    BY <2>1, PlanFacts
  <2> QED BY <1>8, <2>1, <2>2 DEF RecordAck, TypeOK, partVars, failVars, coordVars, recVars
<1>9. ASSUME NEW th \in Thread, BroadcastDone(th) PROVE TypeOK'
  BY <1>9 DEF BroadcastDone, TypeOK, partVars, failVars, logVars, coordVars
<1>10. ASSUME RecoverStart PROVE TypeOK'
  <2>1. /\ coordDown' \in BOOLEAN
        /\ todo' \in SUBSET Tx
        /\ pc' \in [Thread -> {"idle", "voting", "logging", "decided", "broadcast",
                               "ack", "next", "done", "crashed", "error"}]
    BY <1>10 DEF RecoverStart, TypeOK, Thread
  <2>2. faults' \in Nat
    <3>1. SpendUnless(coordDown)
      BY <1>10 DEF RecoverStart
    <3>2. faults' = faults \/ faults' = faults + 1
      BY <3>1, Zenon DEF SpendUnless
    <3> QED BY <3>2 DEF TypeOK
  <2> QED BY <1>10, <2>1, <2>2 DEF RecoverStart, TypeOK, partVars, failVars, logVars
<1>11. ASSUME NEW t \in Tx, RecoverRecord(t) PROVE TypeOK'
  BY <1>11 DEF RecoverRecord, TypeOK, partVars, failVars, coordVars, Thread, Decision
<1>12. CASE RecoverEnd
  BY <1>12 DEF RecoverEnd, TypeOK, partVars, failVars, logVars, coordVars, recVars, Thread
<1>13. ASSUME NEW p \in Participant, RecoverParticipant(p) PROVE TypeOK'
  BY <1>13 DEF RecoverParticipant, SpendUnless, InDoubt, TypeOK, partVars, logVars,
        coordVars, runVars, recVars
<1>14. ASSUME NEW p \in Participant, NEW t \in Tx, Inquire(p, t) PROVE TypeOK'
  <2>1. decision' \in [Tx -> Decision \cup {None}]
    BY <1>14 DEF Inquire, TypeOK, Decision
  <2>2. (IF t \in logged THEN decision'[t] ELSE "abort") \in Decision
    BY <1>14 DEF Inquire, TypeOK, Decision
  <2>3. answer' \in [Participant -> (Tx \X Decision) \cup {None}]
    BY <1>14, <2>2 DEF Inquire, TypeOK
  <2>4. doubts' \in [Participant -> SUBSET Tx]
    BY <1>14 DEF Inquire, TypeOK
  <2> QED BY <1>14, <2>1, <2>3, <2>4 DEF Inquire, TypeOK, partVars, coordVars,
             runVars, recVars
<1>15. ASSUME NEW p \in Participant, InquiryFails(p) PROVE TypeOK'
  BY <1>15 DEF InquiryFails, TypeOK, partVars, logVars, coordVars, runVars, recVars
<1>16. ASSUME NEW p \in Participant, ApplyAnswer(p) PROVE TypeOK'
  <2>1. answer[p] \in Tx \X Decision
    BY <1>16 DEF ApplyAnswer, TypeOK
  <2>2. answer' \in [Participant -> (Tx \X Decision) \cup {None}]
    BY <1>16 DEF ApplyAnswer, TypeOK
  <2>3. answer[p][1] \in Tx /\ answer[p][2] \in Decision
    BY <2>1
  <2> QED BY <1>16, <2>2, <2>3, ApplyTyping
          DEF ApplyAnswer, TypeOK, logVars, coordVars, runVars, recVars
<1>17. CASE Crash
  <2>1. CASE CrashCoordinator
    <3>1. coordDown' \in BOOLEAN /\ faults' \in Nat
      BY <2>1 DEF CrashCoordinator, TypeOK
    <3> QED BY <2>1, <3>1 DEF CrashCoordinator, TypeOK, partVars, failVars, logVars,
               runVars, recVars
  <2>2. CASE DisarmCoordinatorCrash
    BY <2>2 DEF DisarmCoordinatorCrash, TypeOK, partVars, failVars, logVars,
          runVars, recVars
  <2>3. ASSUME NEW point \in {"before", "after"}, ArmCoordinatorCrash(point)
        PROVE  TypeOK'
    BY <2>3 DEF ArmCoordinatorCrash, TypeOK, partVars, failVars, logVars,
          runVars, recVars
  <2>4. ASSUME NEW p \in Participant, CrashParticipant(p) PROVE TypeOK'
    BY <2>4 DEF CrashParticipant, TypeOK, partVars, logVars, coordVars, runVars, recVars
  <2>5. ASSUME NEW p \in Participant, ArmParticipantCrash(p) PROVE TypeOK'
    BY <2>5 DEF ArmParticipantCrash, TypeOK, partVars, logVars, coordVars, runVars, recVars
  <2> QED BY <1>17, <2>1, <2>2, <2>3, <2>4, <2>5 DEF Crash
<1>18. CASE UNCHANGED vars
  BY <1>18 DEF vars, TypeOK, partVars, failVars, logVars, coordVars, runVars, recVars
<1> QED BY <1>1, <1>2, <1>3, <1>4, <1>5, <1>6, <1>7, <1>8, <1>9, <1>10, <1>11, <1>12,
          <1>13, <1>14, <1>15, <1>16, <1>17, <1>18
       DEF Next, RunStep, BroadcastStep, RecoveryStep, InquiryStep

-----------------------------------------------------------------------------
\* What _apply_locked does to each prepare record and each decision.
LEMMA ApplyEffect ==
    ASSUME TypeOK, NEW p \in Participant, NEW t \in Tx, NEW d, Apply(p, t, d),
           NEW q \in Participant, NEW u \in Tx
    PROVE  /\ prepared'[q][u] = IF q = p /\ u = t THEN None ELSE prepared[q][u]
           /\ decided'[q][u] = IF q = p /\ u = t THEN d ELSE decided[q][u]
  BY DEF Apply, TypeOK

\* What a YES vote does to each prepare record.
LEMMA VoteEffect ==
    ASSUME TypeOK, NEW p \in Participant, NEW t \in Tx, VoteYes(p, t),
           NEW q \in Participant, NEW u \in Tx
    PROVE  prepared'[q][u] = IF q = p /\ u = t THEN NewValues(p, t) ELSE prepared[q][u]
  BY DEF VoteYes, TypeOK

\* The values of a prepare record are not "no record".
LEMMA NewValuesNotNone ==
    ASSUME TypeOK, NEW p \in Participant, NEW t \in Tx
    PROVE  NewValues(p, t) # None
<1>1. Keys(t, p) \in SUBSET Key
  BY DataAssumption DEF Keys
<1>2. NewValues(p, t) \in [Keys(t, p) -> Int]
  BY DataAssumption DEF NewValues, TypeOK, Keys
<1> QED BY <1>1, <1>2, NameAssumption

\* The three ways a participant's view of a transaction can change in a step.
KeepsRecord(q, u) ==
    prepared'[q][u] = prepared[q][u] /\ decided'[q][u] = decided[q][u]
GetsRecord(q, u) ==
    /\ prepared[q][u] = None /\ prepared'[q][u] # None
    /\ decided'[q][u] = decided[q][u]
    /\ pc[u] = "voting" /\ q \in Participants(u)
GetsDecision(q, u) ==
    /\ decision[u] # None /\ q \in Participants(u)
    /\ prepared'[q][u] = None /\ decided'[q][u] = decision[u]

\* One participant's view of one transaction changes, or none does.
OnlyRecord(p, t) ==
    /\ GetsRecord(p, t) \/ GetsDecision(p, t)
    /\ \A q \in Participant, u \in Tx : q # p \/ u # t => KeepsRecord(q, u)

\* The participants' stores change in two ways only: a YES vote of a running
\* transaction, and the logged decision, applied.
Votes(p, t) ==
    /\ p \in Participants(t) /\ pc[t] = "voting"
    /\ prepared[p][t] = None /\ VoteYes(p, t)
Applies(p, t) ==
    p \in Participants(t) /\ decision[t] # None /\ Apply(p, t, decision[t])

LEMMA StoreStep ==
    ASSUME IInv, [Next]_vars
    PROVE  \/ UNCHANGED partVars
           \/ \E p \in Participant, t \in Tx : Votes(p, t) \/ Applies(p, t)
<1> DEFINE Goal == \/ UNCHANGED partVars
                   \/ \E p \in Participant, t \in Tx : Votes(p, t) \/ Applies(p, t)
<1> USE DEF IInv
<1>2. ASSUME NEW t \in Tx, CollectVote(t) PROVE Goal
  <2> DEFINE p == Plan[t][pos[t]]
  <2>1. p \in Participants(t) /\ p \in Participant
    BY <1>2, PlanFacts DEF CollectVote, TypeOK, Thread
  <2>2. \/ prepared[p][t] = None /\ VoteYes(p, t)
        \/ VoteAgain(p, t) \/ VoteNo(p, t)
    BY <1>2 DEF CollectVote
  <2>3. pc[t] = "voting"
    BY <1>2 DEF CollectVote
  <2> HIDE DEF p
  <2> QED BY <2>1, <2>2, <2>3 DEF VoteAgain, VoteNo, Votes
<1>3. ASSUME NEW th \in Thread, SendDecision(th) PROVE Goal
  <2> DEFINE t == Job(th)
             p == Plan[t][pos[th]]
  <2>1. t \in Tx /\ decision[t] # None
    BY <1>3 DEF SendDecision, ControlOK
  <2>2. p \in Participants(t) /\ p \in Participant
    <3>1. pos[th] \in 1..Len(Plan[t])
      BY <1>3, <2>1, PlanFacts DEF SendDecision, TypeOK
    <3> QED BY <2>1, <3>1, PlanFacts
  <2>3. UNCHANGED partVars \/ Apply(p, t, decision[t])
    BY <1>3 DEF SendDecision
  <2> HIDE DEF p, t
  <2> QED BY <2>1, <2>2, <2>3 DEF Applies
<1>4. ASSUME NEW p \in Participant, ApplyAnswer(p) PROVE Goal
  <2> DEFINE t == answer[p][1]
  <2>1. /\ t \in Tx /\ p \in Participants(t) /\ decision[t] # None
        /\ answer[p][2] = decision[t]
    BY <1>4, NameAssumption DEF ApplyAnswer, TypeOK, DecisionsComeFromLog, Decision
  <2>2. Apply(p, t, decision[t])
    BY <1>4, <2>1 DEF ApplyAnswer
  <2> HIDE DEF t
  <2> QED BY <2>1, <2>2 DEF Applies
<1>5. ASSUME NEW t \in Tx, RunStart(t) \/ AllVotesIn(t) \/ LogDecision(t)
                           \/ DecisionLogged(t) \/ RecoverRecord(t)
      PROVE  UNCHANGED partVars
  BY <1>5 DEF RunStart, AllVotesIn, LogDecision, DecisionLogged, RecoverRecord
<1>6. ASSUME NEW th \in Thread, SkipParticipant(th) \/ RecordAck(th) \/ BroadcastDone(th)
      PROVE  UNCHANGED partVars
  BY <1>6 DEF SkipParticipant, RecordAck, BroadcastDone
<1>7. ASSUME NEW p \in Participant, NEW t \in Tx, Inquire(p, t)
      PROVE  UNCHANGED partVars
  BY <1>7 DEF Inquire
<1>8. ASSUME RecoverStart \/ RecoverEnd \/ Crash \/ UNCHANGED vars
      PROVE  UNCHANGED partVars
  BY <1>8 DEF RecoverStart, RecoverEnd, Crash, CrashCoordinator, ArmCoordinatorCrash,
        DisarmCoordinatorCrash, CrashParticipant, ArmParticipantCrash, vars
<1>9. ASSUME NEW p \in Participant, InquiryFails(p) \/ RecoverParticipant(p)
      PROVE  UNCHANGED partVars
  BY <1>9 DEF InquiryFails, RecoverParticipant
<1> QED BY <1>2, <1>3, <1>4, <1>5, <1>6, <1>7, <1>8, <1>9
        DEF Next, RunStep, BroadcastStep, RecoveryStep, InquiryStep

\* Every step leaves all views alone, records one YES vote, or applies the
\* logged decision at one participant.
LEMMA OneRecordStep ==
    ASSUME IInv, [Next]_vars
    PROVE  \/ UNCHANGED <<prepared, decided>>
           \/ \E p \in Participant, t \in Tx : OnlyRecord(p, t)
<1>0. TypeOK
  BY DEF IInv
<1>1. CASE UNCHANGED partVars
  BY <1>1 DEF partVars
<1>2. ASSUME NEW p \in Participant, NEW t \in Tx, Votes(p, t) PROVE OnlyRecord(p, t)
  <2>1. \A q \in Participant, u \in Tx :
          prepared'[q][u] = IF q = p /\ u = t THEN NewValues(p, t) ELSE prepared[q][u]
    BY <1>0, <1>2, VoteEffect DEF Votes
  <2>2. decided' = decided /\ NewValues(p, t) # None
    BY <1>0, <1>2, NewValuesNotNone DEF Votes, VoteYes
  <2> QED BY <1>2, <2>1, <2>2 DEF Votes, KeepsRecord, GetsRecord, OnlyRecord
<1>3. ASSUME NEW p \in Participant, NEW t \in Tx, Applies(p, t) PROVE OnlyRecord(p, t)
  <2>1. \A q \in Participant, u \in Tx :
        /\ prepared'[q][u] = IF q = p /\ u = t THEN None ELSE prepared[q][u]
        /\ decided'[q][u] = IF q = p /\ u = t THEN decision[t] ELSE decided[q][u]
    BY <1>0, <1>3, ApplyEffect DEF Applies
  <2> QED BY <1>3, <2>1 DEF Applies, KeepsRecord, GetsDecision, OnlyRecord
<1> QED BY <1>1, <1>2, <1>3, StoreStep

LEMMA RecordStep ==
    ASSUME IInv, [Next]_vars, NEW q \in Participant, NEW u \in Tx
    PROVE  KeepsRecord(q, u) \/ GetsRecord(q, u) \/ GetsDecision(q, u)
<1>1. CASE UNCHANGED <<prepared, decided>>
  BY <1>1 DEF KeepsRecord
<1>2. ASSUME NEW p \in Participant, NEW t \in Tx, OnlyRecord(p, t)
      PROVE  KeepsRecord(q, u) \/ GetsRecord(q, u) \/ GetsDecision(q, u)
  BY <1>2 DEF OnlyRecord
<1> QED BY <1>1, <1>2, OneRecordStep

\* Every step leaves the decision of a transaction alone, aborts an undecided
\* transaction of the log, or is the commit point of its run.
LEMMA DecisionStep ==
    ASSUME IInv, [Next]_vars, NEW u \in Tx
    PROVE  \/ decision'[u] = decision[u]
           \/ decision[u] = None /\ u \in logged /\ decision'[u] = "abort"
           \/ /\ decision[u] = None /\ pc[u] = "logging" /\ unanimous[u]
              /\ decision'[u] = "commit" /\ UNCHANGED <<prepared, decided>>
<1> USE DEF IInv
<1> DEFINE Goal == \/ decision'[u] = decision[u]
                   \/ decision[u] = None /\ u \in logged /\ decision'[u] = "abort"
                   \/ /\ decision[u] = None /\ pc[u] = "logging" /\ unanimous[u]
                      /\ decision'[u] = "commit" /\ UNCHANGED <<prepared, decided>>
<1>1. ASSUME NEW t \in Tx, LogDecision(t) PROVE Goal
  <2>1. t \in logged
    BY <1>1 DEF LogDecision, LogCovers
  <2> QED BY <1>1, <2>1 DEF LogDecision, TypeOK, partVars
<1>2. ASSUME NEW t \in Tx, RecoverRecord(t) PROVE Goal
  BY <1>2 DEF RecoverRecord, TypeOK, LogCovers
<1>3. ASSUME NEW p \in Participant, NEW t \in Tx, Inquire(p, t) PROVE Goal
  BY <1>3 DEF Inquire, TypeOK
<1>4. ASSUME NEW t \in Tx, RunStart(t) \/ CollectVote(t) \/ AllVotesIn(t) \/ DecisionLogged(t)
      PROVE  decision' = decision
  BY <1>4 DEF RunStart, CollectVote, AllVotesIn, DecisionLogged, logVars
<1>5. ASSUME NEW th \in Thread, BroadcastStep(th) PROVE decision' = decision
  BY <1>5 DEF BroadcastStep, SkipParticipant, SendDecision, RecordAck, BroadcastDone, logVars
<1>6. ASSUME NEW p \in Participant, RecoverParticipant(p) \/ InquiryFails(p) \/ ApplyAnswer(p)
      PROVE  decision' = decision
  BY <1>6 DEF RecoverParticipant, InquiryFails, ApplyAnswer, logVars
<1>7. ASSUME RecoverStart \/ RecoverEnd \/ Crash \/ UNCHANGED vars
      PROVE  decision' = decision
  BY <1>7 DEF RecoverStart, RecoverEnd, Crash, CrashCoordinator, ArmCoordinatorCrash,
        DisarmCoordinatorCrash, CrashParticipant, ArmParticipantCrash, vars, logVars
<1> QED BY <1>1, <1>2, <1>3, <1>4, <1>5, <1>6, <1>7
        DEF Next, RunStep, RecoveryStep, InquiryStep

\* COMMIT, once logged, stays possible at every member.
LEMMA CommitStep == IInv /\ [Next]_vars => CommitIsPossible'
<1> SUFFICES ASSUME IInv, [Next]_vars, NEW t \in Tx, decision'[t] = "commit",
                    NEW p \in Participants(t)
             PROVE  prepared'[p][t] # None \/ decided'[p][t] = "commit"
  BY DEF CommitIsPossible, Participants
<1>1. p \in Participant
  BY PlanFacts
<1>2. CASE decision[t] = "commit"
  <2>1. prepared[p][t] # None \/ decided[p][t] = "commit"
    BY <1>2 DEF IInv, CommitIsPossible
  <2> QED BY <1>1, <1>2, <2>1, RecordStep DEF KeepsRecord, GetsRecord, GetsDecision
<1>3. CASE decision[t] # "commit"
  <2>1. /\ decision[t] = None /\ pc[t] = "logging" /\ unanimous[t]
        /\ UNCHANGED <<prepared, decided>>
    BY <1>3, DecisionStep
  <2> QED BY <2>1 DEF IInv, VotesAreBacked
<1> QED BY <1>2, <1>3

\* A decision in the log stays as it is.
LEMMA FinalStep ==
    ASSUME IInv, [Next]_vars, NEW t \in Tx, decision[t] # None
    PROVE  decision'[t] = decision[t]
  BY DecisionStep

\* What participants apply is what the log says.
LEMMA DecisionsStep == IInv /\ [Next]_vars => DecisionsComeFromLog'
<1> SUFFICES ASSUME IInv, [Next]_vars PROVE DecisionsComeFromLog'
  OBVIOUS
<1>1. ASSUME NEW p \in Participant, NEW t \in Tx, decided'[p][t] # None
      PROVE  decided'[p][t] = decision'[t]
  <2>1. CASE decided'[p][t] = decided[p][t]
    BY <1>1, <2>1, FinalStep DEF IInv, DecisionsComeFromLog
  <2>2. CASE GetsDecision(p, t)
    BY <2>2, FinalStep DEF GetsDecision
  <2> QED BY <2>1, <2>2, RecordStep DEF KeepsRecord, GetsRecord
<1>2. ASSUME NEW p \in Participant, answer'[p] # None
      PROVE  answer'[p][2] = decision'[answer'[p][1]] /\ p \in Participants(answer'[p][1])
  <2>1. CASE answer'[p] = answer[p]
    <3>1. /\ answer[p][1] \in Tx /\ answer[p][2] \in Decision
          /\ answer[p][2] = decision[answer[p][1]] /\ p \in Participants(answer[p][1])
      BY <1>2, <2>1 DEF IInv, TypeOK, DecisionsComeFromLog
    <3>2. decision[answer[p][1]] # None
      BY <3>1, NameAssumption DEF Decision
    <3> QED BY <2>1, <3>1, <3>2, FinalStep
  <2>2. ASSUME NEW t \in Tx, NEW q \in Participant, Inquire(q, t), q = p
        PROVE  answer'[p][2] = decision'[answer'[p][1]] /\ p \in Participants(answer'[p][1])
    <3>1. t \in logged /\ p \in Participants(t)
      BY <2>2 DEF Inquire, IInv, LogCovers
    <3>2. answer'[p] = <<t, decision'[t]>>
      <4>1. DOMAIN answer = Participant
        BY DEF IInv, TypeOK
      <4>2. answer' = [answer EXCEPT ![q] = <<t, IF t \in logged THEN decision'[t] ELSE "abort">>]
        BY <2>2 DEF Inquire
      <4> QED BY ONLY <2>2, <3>1, <4>1, <4>2
    <3> QED BY <3>1, <3>2
  <2>3. ASSUME NEW t \in Tx, RunStart(t) \/ RunStep(t) \/ RecoverRecord(t)
        PROVE  answer'[p] = answer[p]
    BY <2>3 DEF RunStart, RunStep, CollectVote, VoteYes, VoteAgain, VoteNo, AllVotesIn,
          LogDecision, DecisionLogged, RecoverRecord, failVars
  <2>4. ASSUME NEW th \in Thread, BroadcastStep(th) PROVE answer'[p] = answer[p]
    BY <2>4 DEF BroadcastStep, SkipParticipant, SendDecision, RecordAck, BroadcastDone, failVars
  <2>5. ASSUME RecoverStart \/ RecoverEnd \/ Crash \/ UNCHANGED vars
        PROVE  answer'[p] = answer[p]
    BY <2>5 DEF RecoverStart, RecoverEnd, Crash, CrashCoordinator, ArmCoordinatorCrash,
          DisarmCoordinatorCrash, CrashParticipant, ArmParticipantCrash, vars, failVars
  <2>6. ASSUME NEW q \in Participant, RecoverParticipant(q) \/ InquiryFails(q)
        PROVE  answer'[p] = answer[p]
    BY <2>6 DEF RecoverParticipant, InquiryFails
  <2>7. ASSUME NEW q \in Participant, ApplyAnswer(q) PROVE answer'[p] = answer[p]
    BY <1>2, <2>7 DEF ApplyAnswer, IInv, TypeOK
  <2>8. ASSUME NEW t \in Tx, NEW q \in Participant, Inquire(q, t), q # p
        PROVE  answer'[p] = answer[p]
    BY <2>8 DEF Inquire, IInv, TypeOK
  <2> QED BY <2>1, <2>2, <2>3, <2>4, <2>5, <2>6, <2>7, <2>8
          DEF Next, RecoveryStep, InquiryStep
<1> QED BY <1>1, <1>2 DEF DecisionsComeFromLog

\* Threads inside _broadcast work for a decided transaction.
LEMMA ControlStep == IInv /\ [Next]_vars => ControlOK'
<1> SUFFICES ASSUME IInv, [Next]_vars PROVE ControlOK'
  OBVIOUS
<1> USE DEF IInv
<1>0. Recoverer \notin Tx /\ None \notin Tx
  BY NameAssumption
<1>1. \A t \in Tx : decision[t] # None => decision'[t] # None
  BY FinalStep
<1>2. ASSUME NEW t \in Tx, RunStart(t) PROVE ControlOK'
  BY <1>0, <1>2 DEF RunStart, ControlOK, TypeOK, Thread, Job, recVars
<1>3. ASSUME NEW t \in Tx, CollectVote(t) PROVE ControlOK'
  BY <1>0, <1>3 DEF CollectVote, ControlOK, TypeOK, Thread, Job, recVars, logVars
<1>4. ASSUME NEW t \in Tx, AllVotesIn(t) PROVE ControlOK'
  BY <1>0, <1>4 DEF AllVotesIn, MaybeCrash, ControlOK, TypeOK, Thread, Job, recVars, logVars
<1>5. ASSUME NEW t \in Tx, LogDecision(t) PROVE ControlOK'
  <2>1. decision'[t] # None
    BY <1>5, NameAssumption DEF LogDecision, TypeOK
  <2> QED BY <1>0, <1>1, <1>5, <2>1 DEF LogDecision, ControlOK, TypeOK, Thread, Job, recVars
<1>6. ASSUME NEW t \in Tx, DecisionLogged(t) PROVE ControlOK'
  BY <1>0, <1>6 DEF DecisionLogged, MaybeCrash, ControlOK, TypeOK, Thread, Job, recVars, logVars
<1>7. ASSUME NEW th \in Thread, SkipParticipant(th) PROVE ControlOK'
  BY <1>0, <1>7 DEF SkipParticipant, ControlOK, TypeOK, Thread, Job, recVars, logVars
<1>8. ASSUME NEW th \in Thread, SendDecision(th) PROVE ControlOK'
  BY <1>0, <1>8 DEF SendDecision, ControlOK, TypeOK, Thread, Job, recVars, logVars
<1>9. ASSUME NEW th \in Thread, RecordAck(th) PROVE ControlOK'
  BY <1>0, <1>9 DEF RecordAck, ControlOK, TypeOK, Thread, Job, recVars
<1>10. ASSUME NEW th \in Thread, BroadcastDone(th) PROVE ControlOK'
  BY <1>0, <1>10 DEF BroadcastDone, ControlOK, TypeOK, Thread, Job, logVars
<1>11. CASE RecoverStart
  BY <1>0, <1>11 DEF RecoverStart, ControlOK, TypeOK, Thread, Job, logVars
<1>12. ASSUME NEW t \in Tx, RecoverRecord(t) PROVE ControlOK'
  <2>1. decision'[t] # None
    BY <1>12, NameAssumption DEF RecoverRecord, TypeOK
  <2> QED BY <1>0, <1>1, <1>12, <2>1 DEF RecoverRecord, ControlOK, TypeOK, Thread, Job
<1>13. CASE RecoverEnd
  BY <1>0, <1>13 DEF RecoverEnd, ControlOK, TypeOK, Thread, Job, recVars, logVars
<1>14. CASE UNCHANGED <<pc, pos, current>>
  BY <1>0, <1>1, <1>14 DEF ControlOK, Job
<1>15. ASSUME NEW p \in Participant, RecoverParticipant(p) \/ InquiryStep(p)
       PROVE  UNCHANGED <<pc, pos, current>>
  BY <1>15 DEF RecoverParticipant, InquiryStep, InquiryFails, ApplyAnswer, Inquire,
        runVars, recVars
<1>16. ASSUME Crash \/ UNCHANGED vars PROVE UNCHANGED <<pc, pos, current>>
  BY <1>16 DEF Crash, CrashCoordinator, ArmCoordinatorCrash, DisarmCoordinatorCrash,
        CrashParticipant, ArmParticipantCrash, vars, runVars, recVars
<1> QED BY <1>2, <1>3, <1>4, <1>5, <1>6, <1>7, <1>8, <1>9, <1>10, <1>11, <1>12, <1>13,
          <1>14, <1>15, <1>16 DEF Next, RunStep, BroadcastStep, RecoveryStep

\* Only transactions in the log are voted on, asked about and decided.
LEMMA LogStep == IInv /\ [Next]_vars => LogCovers'
<1> SUFFICES ASSUME IInv, [Next]_vars PROVE LogCovers'
  OBVIOUS
<1> USE DEF IInv
<1>1. logged \subseteq logged'
  <2>1. ASSUME NEW t \in Tx, RunStart(t) \/ RunStep(t) \/ RecoverRecord(t)
        PROVE  logged \subseteq logged'
    BY <2>1 DEF RunStart, RunStep, CollectVote, AllVotesIn, LogDecision, DecisionLogged,
          RecoverRecord, logVars
  <2>2. ASSUME NEW th \in Thread, BroadcastStep(th) PROVE logged' = logged
    BY <2>2 DEF BroadcastStep, SkipParticipant, SendDecision, RecordAck, BroadcastDone, logVars
  <2>3. ASSUME NEW p \in Participant, RecoverParticipant(p) \/ InquiryStep(p)
        PROVE  logged' = logged
    BY <2>3 DEF RecoverParticipant, InquiryStep, InquiryFails, ApplyAnswer, Inquire, logVars
  <2>4. ASSUME RecoverStart \/ RecoverEnd \/ Crash \/ UNCHANGED vars PROVE logged' = logged
    BY <2>4 DEF RecoverStart, RecoverEnd, Crash, CrashCoordinator, ArmCoordinatorCrash,
          DisarmCoordinatorCrash, CrashParticipant, ArmParticipantCrash, vars, logVars
  <2> QED BY <2>1, <2>2, <2>3, <2>4 DEF Next, RecoveryStep
<1>2. ASSUME NEW t \in Tx, t \notin logged' PROVE pc'[t] = "idle" /\ decision'[t] = None
  <2>1. t \notin logged /\ pc[t] = "idle" /\ decision[t] = None
    BY <1>1, <1>2 DEF LogCovers
  <2>2. decision'[t] = None
    BY <2>1, DecisionStep
  <2>3. ASSUME NEW u \in Tx, RunStart(u) PROVE pc'[t] = pc[t]
    BY <1>2, <2>3 DEF RunStart, TypeOK
  <2>4. ASSUME NEW u \in Tx, RunStep(u) PROVE pc'[t] = pc[t]
    <3>1. u # t
      BY <2>1, <2>4 DEF RunStep, CollectVote, AllVotesIn, LogDecision, DecisionLogged
    <3>2. CASE CollectVote(u)
      BY <3>2 DEF CollectVote
    <3>3. CASE AllVotesIn(u)
      BY <3>1, <3>3 DEF AllVotesIn, MaybeCrash, TypeOK, Thread
    <3>4. CASE LogDecision(u)
      BY <3>1, <3>4 DEF LogDecision, TypeOK, Thread
    <3>5. CASE DecisionLogged(u)
      BY <3>1, <3>5 DEF DecisionLogged, MaybeCrash, TypeOK, Thread
    <3> QED BY <2>4, <3>2, <3>3, <3>4, <3>5 DEF RunStep
  <2>5. ASSUME NEW th \in Thread, BroadcastStep(th) PROVE pc'[t] = pc[t]
    <3>1. th # t
      BY <2>1, <2>5 DEF BroadcastStep, SkipParticipant, SendDecision, RecordAck, BroadcastDone
    <3>2. CASE SkipParticipant(th)
      BY <3>2 DEF SkipParticipant
    <3>3. CASE SendDecision(th)
      BY <3>1, <3>3 DEF SendDecision, TypeOK, Thread
    <3>4. CASE RecordAck(th)
      BY <3>1, <3>4 DEF RecordAck, TypeOK
    <3>5. CASE BroadcastDone(th)
      BY <3>1, <3>5 DEF BroadcastDone, TypeOK
    <3> QED BY <2>5, <3>2, <3>3, <3>4, <3>5 DEF BroadcastStep
  <2>6. ASSUME RecoverStart \/ RecoveryStep PROVE pc'[t] = pc[t]
    BY <2>6, NameAssumption DEF RecoverStart, RecoveryStep, RecoverRecord, RecoverEnd,
          TypeOK, Thread
  <2>8. ASSUME Crash \/ UNCHANGED vars PROVE pc'[t] = pc[t]
    BY <2>8 DEF Crash, CrashCoordinator, ArmCoordinatorCrash, DisarmCoordinatorCrash,
          CrashParticipant, ArmParticipantCrash, vars, runVars
  <2>7. ASSUME NEW p \in Participant, RecoverParticipant(p) \/ InquiryStep(p)
        PROVE  pc'[t] = pc[t]
    BY <2>7 DEF RecoverParticipant, InquiryStep, InquiryFails, ApplyAnswer, Inquire, runVars
  <2> QED BY <2>1, <2>2, <2>3, <2>4, <2>5, <2>6, <2>7, <2>8 DEF Next
<1>3. ASSUME NEW p \in Participant, NEW t \in Tx, prepared'[p][t] # None
      PROVE  t \in logged' /\ p \in Participants(t)
  <2>1. prepared[p][t] # None \/ (pc[t] = "voting" /\ p \in Participants(t))
    BY <1>3, RecordStep DEF KeepsRecord, GetsRecord, GetsDecision
  <2> QED BY <1>1, <2>1 DEF LogCovers
<1>4. ASSUME NEW p \in Participant, NEW t \in Tx, t \in doubts'[p]
      PROVE  t \in logged' /\ p \in Participants(t)
  <2>1. t \in doubts[p] \/ prepared[p][t] # None
    <3>1. ASSUME NEW u \in Tx, RunStart(u) \/ RunStep(u) \/ RecoverRecord(u)
          PROVE  doubts' = doubts
      BY <3>1 DEF RunStart, RunStep, CollectVote, VoteYes, VoteAgain, VoteNo, AllVotesIn,
            LogDecision, DecisionLogged, RecoverRecord, failVars
    <3>2. ASSUME NEW th \in Thread, BroadcastStep(th) PROVE doubts' = doubts
      BY <3>2 DEF BroadcastStep, SkipParticipant, SendDecision, RecordAck, BroadcastDone, failVars
    <3>3. ASSUME RecoverStart \/ RecoverEnd \/ Crash \/ UNCHANGED vars PROVE doubts' = doubts
      BY <3>3 DEF RecoverStart, RecoverEnd, Crash, CrashCoordinator, ArmCoordinatorCrash,
            DisarmCoordinatorCrash, CrashParticipant, ArmParticipantCrash, vars, failVars
    <3>4. ASSUME NEW q \in Participant, RecoverParticipant(q) \/ InquiryStep(q)
          PROVE  t \in doubts[p] \/ prepared[p][t] # None
      <4>1. CASE RecoverParticipant(q)
        BY <1>4, <4>1 DEF RecoverParticipant, InDoubt, TypeOK
      <4>2. CASE InquiryFails(q)
        BY <1>4, <4>2 DEF InquiryFails, TypeOK
      <4>3. CASE ApplyAnswer(q)
        BY <1>4, <4>3 DEF ApplyAnswer
      <4>4. ASSUME NEW u \in Tx, Inquire(q, u) PROVE t \in doubts[p]
        <5>1. doubts' = [doubts EXCEPT ![q] = @ \ {u}] /\ DOMAIN doubts = Participant
          BY <4>4 DEF Inquire, TypeOK
        <5> QED BY <1>4, <5>1
      <4> QED BY <3>4, <4>1, <4>2, <4>3, <4>4 DEF InquiryStep
    <3> QED BY ONLY [Next]_vars, t \in doubts'[p], <3>1, <3>2, <3>3, <3>4 DEF Next, RecoveryStep
  <2> QED BY <1>1, <2>1 DEF LogCovers
<1>5. todo' \subseteq logged'
  <2>1. todo' \subseteq todo \/ todo' = logged
    <3>1. ASSUME NEW u \in Tx, RunStart(u) \/ RunStep(u) \/ RecoverRecord(u)
          PROVE  todo' \subseteq todo
      BY <3>1 DEF RunStart, RunStep, CollectVote, AllVotesIn, LogDecision, DecisionLogged,
            RecoverRecord, recVars
    <3>2. ASSUME NEW th \in Thread, BroadcastStep(th) PROVE todo' = todo
      BY <3>2 DEF BroadcastStep, SkipParticipant, SendDecision, RecordAck, BroadcastDone, recVars
    <3>3. ASSUME RecoverStart \/ RecoverEnd \/ Crash \/ UNCHANGED vars
          PROVE  todo' = todo \/ todo' = logged
      BY <3>3 DEF RecoverStart, RecoverEnd, Crash, CrashCoordinator, ArmCoordinatorCrash,
            DisarmCoordinatorCrash, CrashParticipant, ArmParticipantCrash, vars, recVars
    <3>4. ASSUME NEW q \in Participant, RecoverParticipant(q) \/ InquiryStep(q)
          PROVE  todo' = todo
      BY <3>4 DEF RecoverParticipant, InquiryStep, InquiryFails, ApplyAnswer, Inquire, recVars
    <3> QED BY <3>1, <3>2, <3>3, <3>4 DEF Next, RecoveryStep
  <2> QED BY <1>1, <2>1 DEF LogCovers
<1> QED BY <1>2, <1>3, <1>4, <1>5 DEF LogCovers

\* Until a transaction is decided, its YES votes are backed by prepare records.
LEMMA VotesStep == IInv /\ [Next]_vars => VotesAreBacked'
<1> SUFFICES ASSUME IInv, [Next]_vars,
                    NEW t \in Tx, unanimous'[t], decision'[t] = None
             PROVE  /\ pc'[t] = "voting" => \A i \in 1..Len(Plan[t]) :
                          i < pos'[t] => prepared'[Plan[t][i]][t] # None
                    /\ pc'[t] = "logging" =>
                          \A p \in Participants(t) : prepared'[p][t] # None
  BY DEF VotesAreBacked
<1> DEFINE Goal == /\ pc'[t] = "voting" => \A i \in 1..Len(Plan[t]) :
                          i < pos'[t] => prepared'[Plan[t][i]][t] # None
                   /\ pc'[t] = "logging" =>
                          \A p \in Participants(t) : prepared'[p][t] # None
<1> USE DEF IInv
<1>0. decision[t] = None
  BY DecisionStep
\* Nobody loses the record of an undecided transaction.
<1>1. \A p \in Participants(t) : prepared[p][t] # None => prepared'[p][t] # None
  <2> SUFFICES ASSUME NEW p \in Participants(t), prepared[p][t] # None
               PROVE  prepared'[p][t] # None
    OBVIOUS
  <2>1. p \in Participant
    BY PlanFacts
  <2>2. KeepsRecord(p, t) \/ GetsRecord(p, t) \/ GetsDecision(p, t)
    BY <2>1, RecordStep
  <2> QED BY <1>0, <2>2 DEF KeepsRecord, GetsRecord, GetsDecision
<1>2. ASSUME pc'[t] = pc[t], pos'[t] = pos[t], unanimous'[t] = unanimous[t] PROVE Goal
  BY <1>0, <1>1, <1>2, PlanFacts DEF VotesAreBacked
<1>3. CASE RunStart(t)
  BY <1>3 DEF RunStart, ControlOK, TypeOK, Thread
<1>4. CASE CollectVote(t)
  <2> DEFINE p == Plan[t][pos[t]]
  <2>1. pos[t] \in 1..Len(Plan[t]) /\ p \in Participants(t) /\ p \in Participant
    BY <1>4, PlanFacts DEF CollectVote, TypeOK, Thread
  <2>2. ~VoteNo(p, t)
    <3> HIDE DEF p
    <3> SUFFICES ASSUME VoteNo(p, t) PROVE FALSE
      OBVIOUS
    <3>1. unanimous' = [unanimous EXCEPT ![t] = FALSE]
      BY DEF VoteNo
    <3>2. unanimous \in [Tx -> BOOLEAN]
      BY DEF TypeOK
    <3> QED BY ONLY <3>1, <3>2, unanimous'[t], t \in Tx
  <2>3. VoteAgain(p, t) \/ VoteYes(p, t)
    BY ONLY <1>4, <2>2 DEF CollectVote
  <2>4. /\ pc[t] = "voting" /\ pc' = pc /\ pos'[t] = pos[t] + 1
        /\ unanimous' = unanimous
    BY <1>4, <2>3 DEF CollectVote, VoteAgain, VoteYes, TypeOK, Thread
  <2>5. prepared'[p][t] # None
    <3> HIDE DEF p
    <3>1. CASE VoteAgain(p, t)
      BY <3>1 DEF VoteAgain, partVars
    <3>2. CASE VoteYes(p, t)
      BY <2>1, <3>2, VoteEffect, NewValuesNotNone
    <3> QED BY <2>3, <3>1, <3>2
  <2>6. ASSUME NEW i \in 1..Len(Plan[t]), i < pos'[t] PROVE prepared'[Plan[t][i]][t] # None
    <3>1. CASE i = pos[t]
      BY <2>5, <3>1
    <3>2. CASE i < pos[t]
      <4>1. prepared[Plan[t][i]][t] # None /\ Plan[t][i] \in Participants(t)
        BY <1>0, <2>4, <3>2, PlanFacts DEF VotesAreBacked
      <4> QED BY <1>1, <4>1
    <3>3. i \in Nat /\ pos[t] \in Nat /\ i < pos[t] + 1
      BY <2>1, <2>4, <2>6, PlanFacts
    <3>4. i = pos[t] \/ i < pos[t]
      BY <3>3
    <3> QED BY <3>1, <3>2, <3>4
  <2> QED BY <2>4, <2>6
<1>5. CASE AllVotesIn(t)
  <2>1. /\ pc[t] = "voting" /\ pos[t] > Len(Plan[t]) /\ unanimous' = unanimous
        /\ pc'[t] # "voting" /\ pos[t] \in Nat
    BY <1>5 DEF AllVotesIn, MaybeCrash, TypeOK, Thread
  <2>2. \A i \in 1..Len(Plan[t]) : prepared[Plan[t][i]][t] # None
    BY <1>0, <2>1, PlanFacts DEF VotesAreBacked
  <2>3. \A p \in Participants(t) : prepared'[p][t] # None
    BY <1>1, <2>2, PlanFacts
  <2> QED BY <2>1, <2>3
<1>6. CASE LogDecision(t)
  BY <1>6 DEF LogDecision, TypeOK, Thread
<1>7. CASE DecisionLogged(t)
  BY <1>7, NameAssumption DEF DecisionLogged, MaybeCrash, TypeOK, Thread
<1>8. ASSUME NEW u \in Tx, RunStart(u), u # t PROVE Goal
  BY <1>2, <1>8 DEF RunStart, TypeOK, Thread
<1>9. ASSUME NEW u \in Tx, RunStep(u), u # t PROVE Goal
  <2>1. CASE CollectVote(u)
    BY <1>2, <1>9, <2>1 DEF CollectVote, VoteYes, VoteAgain, VoteNo, TypeOK, Thread
  <2>2. CASE AllVotesIn(u)
    BY <1>2, <1>9, <2>2 DEF AllVotesIn, MaybeCrash, TypeOK, Thread
  <2>3. CASE LogDecision(u)
    BY <1>2, <1>9, <2>3 DEF LogDecision, TypeOK, Thread
  <2>4. CASE DecisionLogged(u)
    BY <1>2, <1>9, <2>4 DEF DecisionLogged, MaybeCrash, TypeOK, Thread
  <2> QED BY ONLY <1>9, <2>1, <2>2, <2>3, <2>4 DEF RunStep
<1>10. ASSUME NEW th \in Thread, BroadcastStep(th) PROVE Goal
  <2>1. th # t
    BY <1>0, <1>10, NameAssumption DEF BroadcastStep, SkipParticipant, SendDecision, RecordAck,
          BroadcastDone, ControlOK, Job, Thread
  <2>2. pc'[t] = pc[t] /\ pos'[t] = pos[t] /\ unanimous' = unanimous
    <3>1. CASE SkipParticipant(th)
      BY <2>1, <3>1 DEF SkipParticipant, TypeOK
    <3>2. CASE SendDecision(th)
      BY <2>1, <3>2 DEF SendDecision, TypeOK, Thread
    <3>3. CASE RecordAck(th)
      BY <2>1, <3>3 DEF RecordAck, TypeOK
    <3>4. CASE BroadcastDone(th)
      BY <2>1, <3>4 DEF BroadcastDone, TypeOK
    <3> QED BY <1>10, <3>1, <3>2, <3>3, <3>4 DEF BroadcastStep
  <2> QED BY <1>2, <2>2
<1>11. ASSUME RecoverStart \/ RecoveryStep PROVE Goal
  <2>1. UNCHANGED <<pos, unanimous>>
    BY <1>11 DEF RecoverStart, RecoveryStep, RecoverRecord, RecoverEnd
  <2>2. pc'[t] = pc[t]
    BY <1>11, NameAssumption DEF RecoverStart, RecoveryStep, RecoverRecord, RecoverEnd,
          TypeOK, Thread
  <2> QED BY <1>2, <2>1, <2>2
<1>12. ASSUME Crash \/ UNCHANGED vars PROVE Goal
  BY <1>2, <1>12 DEF Crash, CrashCoordinator, ArmCoordinatorCrash, DisarmCoordinatorCrash,
        CrashParticipant, ArmParticipantCrash, vars, runVars
<1>13. ASSUME NEW p \in Participant, RecoverParticipant(p) \/ InquiryStep(p) PROVE Goal
  BY <1>2, <1>13 DEF RecoverParticipant, InquiryStep, InquiryFails, ApplyAnswer, Inquire, runVars
<1> QED BY <1>3, <1>4, <1>5, <1>6, <1>7, <1>8, <1>9, <1>10, <1>11, <1>12, <1>13
        DEF Next, RunStep

-----------------------------------------------------------------------------
LEMMA InitIInv == Init => IInv
<1> SUFFICES ASSUME Init PROVE IInv
  OBVIOUS
<1>1. ControlOK
  BY NameAssumption DEF Init, ControlOK, Thread
<1>2. LogCovers /\ DecisionsComeFromLog /\ VotesAreBacked
  BY DEF Init, LogCovers, DecisionsComeFromLog, VotesAreBacked, Thread
<1>3. CommitIsPossible
  BY NameAssumption DEF Init, CommitIsPossible
<1> QED BY <1>1, <1>2, <1>3, TypingInit DEF IInv

\* The inductive invariant holds in every behaviour of the code: for any plans,
\* any number of concurrent runs, crashes and recoveries.
THEOREM Invariance == Spec => []IInv
<1>1. IInv /\ [Next]_vars => IInv'
  BY TypingStep, ControlStep, LogStep, DecisionsStep, VotesStep, CommitStep DEF IInv
<1> QED BY <1>1, InitIInv, PTL DEF Spec

\* Every variable keeps its type.
THEOREM TypeCorrectness == Spec => []TypeOK
<1>1. IInv => TypeOK
  BY DEF IInv
<1> QED BY <1>1, Invariance, PTL

\* No participant commits what another aborts.
THEOREM AgreementHolds == Spec => []Agreement
<1>1. IInv => Agreement
  BY NameAssumption DEF IInv, DecisionsComeFromLog, Agreement
<1> QED BY <1>1, Invariance, PTL

\* Participant.commit never raises for a logged COMMIT.
THEOREM CommitStaysPossible == Spec => []CommitIsPossible
<1>1. IInv => CommitIsPossible
  BY DEF IInv
<1> QED BY <1>1, Invariance, PTL

\* A YES voter gives its record up for the logged decision only.
THEOREM PromiseIsKept == Spec => YesIsAPromise
<1>1. IInv /\ [Next]_vars => [PromiseStep]_vars
  <2> SUFFICES ASSUME IInv, [Next]_vars, NEW p \in Participant, NEW t \in Tx,
                      prepared[p][t] # None, prepared'[p][t] = None
               PROVE  decision[t] # None /\ decided'[p][t] = decision[t]
    BY DEF PromiseStep
  <2> QED BY RecordStep DEF KeepsRecord, GetsRecord, GetsDecision
<1> QED BY <1>1, Invariance, PTL DEF Spec, YesIsAPromise

\* A logged decision is never replaced, whoever reaches the log first.
THEOREM DecisionStays == Spec => DecisionIsFinal
<1>1. IInv /\ [Next]_vars =>
        [\A t \in Tx : decision[t] # None => decision'[t] = decision[t]]_vars
  BY FinalStep
<1> QED BY <1>1, Invariance, PTL DEF Spec, DecisionIsFinal

-----------------------------------------------------------------------------
(* Refinement: a participant's outcome moves only as AtomicCommit allows.  *)

\* Where a record and a decision stay, the outcome stays.
LEMMA OutcomeKept ==
    ASSUME NEW q \in Participant, NEW u \in Tx, KeepsRecord(q, u)
    PROVE  OutcomeOf(u, q)' = OutcomeOf(u, q)
  BY DEF KeepsRecord, OutcomeOf

Outcome == [t \in Tx |-> [p \in Participant |-> OutcomeOf(t, p)]]

\* One participant's outcome moves to o, the others stay.
LEMMA OneOutcome ==
    ASSUME NEW p \in Participant, NEW t \in Tx, NEW o, OutcomeOf(t, p)' = o,
           \A q \in Participant, u \in Tx : q # p \/ u # t => KeepsRecord(q, u)
    PROVE  Outcome' = [Outcome EXCEPT ![t][p] = o]
<1>1. \A q \in Participant, u \in Tx :
        q # p \/ u # t => OutcomeOf(u, q)' = OutcomeOf(u, q)
  BY OutcomeKept
<1>2. Outcome' = [u \in Tx |-> [q \in Participant |-> OutcomeOf(u, q)']]
  BY DEF Outcome
<1> QED BY <1>1, <1>2 DEF Outcome

\* No participant's outcome moves.
LEMMA SameOutcome ==
    ASSUME NEW p \in Participant, NEW t \in Tx, OutcomeOf(t, p)' = OutcomeOf(t, p),
           \A q \in Participant, u \in Tx : q # p \/ u # t => KeepsRecord(q, u)
    PROVE  Outcome' = Outcome
<1>1. \A q \in Participant, u \in Tx : OutcomeOf(u, q)' = OutcomeOf(u, q)
  BY OutcomeKept
<1>2. Outcome' = [u \in Tx |-> [q \in Participant |-> OutcomeOf(u, q)']]
  BY DEF Outcome
<1> QED BY <1>1, <1>2 DEF Outcome

\* A YES vote is the abstract consent, or comes too late to matter.
LEMMA VoteRefines ==
    ASSUME IInv, NEW p \in Participant, NEW t \in Tx, GetsRecord(p, t),
           \A q \in Participant, u \in Tx : q # p \/ u # t => KeepsRecord(q, u)
    PROVE  Promise!Consent(t, p) \/ Outcome' = Outcome
<1>1. Outcome' = [Outcome EXCEPT ![t][p] = OutcomeOf(t, p)']
  BY OneOutcome
<1>2. CASE decided[p][t] \notin Decision
  <2>1. OutcomeOf(t, p) = "working" /\ OutcomeOf(t, p)' = "prepared"
    BY <1>2 DEF OutcomeOf, GetsRecord, Decision
  <2> QED BY <1>1, <2>1 DEF Promise!Consent, Promise!Become, Outcome
<1>3. CASE decided[p][t] \in Decision
  <2>1. OutcomeOf(t, p)' = OutcomeOf(t, p)
    BY <1>3 DEF OutcomeOf, GetsRecord, Decision
  <2> QED BY <2>1, SameOutcome
<1> QED BY <1>2, <1>3

\* Applying the logged decision is the abstract commit or abort, or a repetition.
LEMMA DecisionRefines ==
    ASSUME IInv, NEW p \in Participant, NEW t \in Tx, GetsDecision(p, t),
           \A q \in Participant, u \in Tx : q # p \/ u # t => KeepsRecord(q, u)
    PROVE  Promise!Commit(t, p) \/ Promise!Abort(t, p) \/ Outcome' = Outcome
<1>1. Outcome' = [Outcome EXCEPT ![t][p] = OutcomeOf(t, p)']
  BY OneOutcome
<1>2. /\ decision[t] \in Decision /\ decided'[p][t] = decision[t]
      /\ \A q \in Participant : decided[q][t] \in {None, decision[t]}
  BY DEF GetsDecision, IInv, TypeOK, DecisionsComeFromLog
<1>3. CASE decided[p][t] = decision[t]
  <2>1. OutcomeOf(t, p)' = OutcomeOf(t, p)
    BY <1>2, <1>3 DEF OutcomeOf, Decision
  <2> QED BY <2>1, SameOutcome
<1>4. CASE decided[p][t] = None /\ decision[t] = "commit"
  <2>1. \A q \in Participants(t) : OutcomeOf(t, q) \in {"prepared", "committed"}
    <3>1. \A q \in Participants(t) : prepared[q][t] # None \/ decided[q][t] = "commit"
      BY <1>4 DEF IInv, CommitIsPossible
    <3> QED BY <1>2, <1>4, <3>1, PlanFacts, NameAssumption DEF OutcomeOf
  <2>2. OutcomeOf(t, p) = "prepared"
    BY <1>4, <2>1, NameAssumption DEF GetsDecision, OutcomeOf
  <2>3. OutcomeOf(t, p)' = "committed"
    BY <1>2, <1>4 DEF OutcomeOf
  <2>4. \A q \in Participants(t) : Outcome[t][q] \in {"prepared", "committed"}
    BY <2>1, PlanFacts DEF Outcome
  <2> QED BY <1>1, <2>2, <2>3, <2>4 DEF Promise!Commit, Promise!Become, Outcome
<1>5. CASE decided[p][t] = None /\ decision[t] = "abort"
  <2>1. \A q \in Participant : OutcomeOf(t, q) # "committed"
    BY <1>2, <1>5, NameAssumption DEF OutcomeOf
  <2>2. OutcomeOf(t, p) \in {"working", "prepared"}
    BY <1>5, NameAssumption DEF OutcomeOf
  <2>3. OutcomeOf(t, p)' = "aborted"
    BY <1>2, <1>5 DEF OutcomeOf
  <2> QED BY <1>1, <2>1, <2>2, <2>3 DEF Promise!Abort, Promise!Become, Outcome
<1> QED BY <1>2, <1>3, <1>4, <1>5 DEF Decision

\* The code's protocol implements atomic commitment.
THEOREM Refinement == Spec => ImplementsAtomicCommit
<1>1. Init => Promise!Init
  BY NameAssumption DEF Init, Promise!Init, OutcomeOf
<1>2. IInv /\ [Next]_vars =>
        [Promise!Next]_([t \in Tx |-> [p \in Participant |-> OutcomeOf(t, p)]])
  <2> SUFFICES ASSUME IInv, [Next]_vars PROVE Promise!Next \/ Outcome' = Outcome
    BY DEF Outcome
  <2>1. CASE UNCHANGED <<prepared, decided>>
    BY <2>1 DEF Outcome, OutcomeOf
  <2>2. ASSUME NEW p \in Participant, NEW t \in Tx, OnlyRecord(p, t)
        PROVE  Promise!Next \/ Outcome' = Outcome
    BY <2>2, VoteRefines, DecisionRefines DEF OnlyRecord, Promise!Next
  <2> QED BY <2>1, <2>2, OneRecordStep
<1> QED BY <1>1, <1>2, Invariance, PTL DEF Spec, ImplementsAtomicCommit, Promise!Spec

------------------------------------------------------------------------------
(* Sums over finite sets: SumFunctionOnSet adds up the values of a function, in  *)
(* whatever order the elements are chosen.                                       *)

Smaller == {ss \in Nat \X Nat : ss[1] < ss[2]}

\* Induction over the naturals, for a property given as the set G of the numbers
\* that have it.
LEMMA InductionOnSet ==
    ASSUME NEW G, 0 \in G, \A n \in Nat : n \in G => n + 1 \in G
    PROVE  Nat \subseteq G
<1> DEFINE B == Nat \ G
<1> SUFFICES ASSUME B # {} PROVE FALSE
  OBVIOUS
<1>1. IsWellFoundedOn(Smaller, Nat)
  BY NatLessThanWellFounded DEF OpToRel, Smaller
<1>2. PICK m \in B : \A x \in B : ~(<<x, m>> \in Smaller)
  BY <1>1, WFMin
<1>3. m \in Nat /\ m # 0 /\ m - 1 \in Nat
  OBVIOUS
<1>4. <<m - 1, m>> \in Smaller
  BY <1>3 DEF Smaller
<1>5. m - 1 \in G
  BY <1>2, <1>3, <1>4
<1> QED BY <1>3, <1>5

(* The fold's recursive function exists                                    *)

\* The element a fold takes next.
Picked(s) == CHOOSE x \in s : TRUE

\* g adds up f over each set of the family D.
Sums(g, f, D) ==
    g = [s \in D |-> IF s = {} THEN 0 ELSE f[Picked(s)] + g[s \ {Picked(s)}]]

Partial(f, D) == CHOOSE g : Sums(g, f, D)

LEMMA SumDef ==
    ASSUME NEW f, NEW S
    PROVE  SumFunctionOnSet(f, S) = Partial(f, SUBSET S)[S]
  BY DEF SumFunctionOnSet, FoldFunctionOnSet, MapThenFoldSet, Partial, Sums, Picked

\* The subsets of S with at most n elements.
UpTo(S, n) == {s \in SUBSET S : Cardinality(s) <= n}

LEMMA PickedFacts ==
    ASSUME NEW s, IsFiniteSet(s), s # {}
    PROVE  /\ Picked(s) \in s /\ IsFiniteSet(s \ {Picked(s)})
           /\ Cardinality(s) \in Nat /\ Cardinality(s \ {Picked(s)}) = Cardinality(s) - 1
<1>1. Picked(s) \in s
  BY DEF Picked
<1> QED BY <1>1, FS_RemoveElement, FS_CardinalityType

\* One more level: a g for sets of n elements gives one for sets of n + 1.
LEMMA SumsGrow ==
    ASSUME NEW f, NEW S, IsFiniteSet(S), NEW n \in Nat, NEW g, Sums(g, f, UpTo(S, n))
    PROVE  \E h : Sums(h, f, UpTo(S, n + 1))
<1> DEFINE D == UpTo(S, n + 1)
           h == [s \in D |-> IF s = {} THEN 0 ELSE f[Picked(s)] + g[s \ {Picked(s)}]]
<1>1. ASSUME NEW s \in D, s # {} PROVE h[s \ {Picked(s)}] = g[s \ {Picked(s)}]
  <2> DEFINE r == s \ {Picked(s)}
  <2>1. s \in SUBSET S /\ Cardinality(s) <= n + 1 /\ IsFiniteSet(s)
    BY FS_Subset DEF UpTo
  <2>2. r \in SUBSET S /\ IsFiniteSet(r) /\ Cardinality(r) \in Nat /\ Cardinality(r) <= n
    BY <1>1, <2>1, PickedFacts, FS_CardinalityType
  <2>3. r \in D /\ r \in UpTo(S, n)
    BY <2>2 DEF UpTo
  <2> HIDE DEF r
  <2>4. g[r] = IF r = {} THEN 0 ELSE f[Picked(r)] + g[r \ {Picked(r)}]
    BY <2>3 DEF Sums
  <2> QED BY <2>3, <2>4 DEF r
<1>2. h = [s \in D |-> IF s = {} THEN 0 ELSE f[Picked(s)] + h[s \ {Picked(s)}]]
  BY <1>1
<1> HIDE DEF h
<1> QED BY <1>2 DEF Sums

LEMMA PartialExists ==
    ASSUME NEW f, NEW S, IsFiniteSet(S)
    PROVE  Sums(Partial(f, SUBSET S), f, SUBSET S)
<1> DEFINE G == {n \in Nat : \E g : Sums(g, f, UpTo(S, n))}
<1>1. 0 \in G
  <2> DEFINE g == [s \in UpTo(S, 0) |-> 0]
  <2>1. \A s \in UpTo(S, 0) : s = {}
    BY FS_Subset, FS_EmptySet, FS_CardinalityType DEF UpTo
  <2>2. g = [s \in UpTo(S, 0) |-> IF s = {} THEN 0 ELSE f[Picked(s)] + g[s \ {Picked(s)}]]
    BY <2>1
  <2> HIDE DEF g
  <2> QED BY <2>2 DEF Sums
<1>2. \A n \in Nat : n \in G => n + 1 \in G
  BY SumsGrow
<1> HIDE DEF G
<1>3. Cardinality(S) \in G
  BY <1>1, <1>2, InductionOnSet, FS_CardinalityType
<1>4. UpTo(S, Cardinality(S)) = SUBSET S
  BY FS_Subset DEF UpTo
<1>5. \E g : Sums(g, f, SUBSET S)
  BY <1>3, <1>4 DEF G
<1> QED BY <1>5 DEF Partial
-----------------------------------------------------------------------------
(* Its value does not depend on the order                                  *)

\* p adds up f over s, given what it has for s less the element taken first.
AddsUp(p, f, s) ==
    p[s] = IF s = {} THEN 0 ELSE f[Picked(s)] + p[s \ {Picked(s)}]

\* The recursive function of the fold, on one set.
LEMMA PartialUnfold ==
    ASSUME NEW f, NEW S, IsFiniteSet(S)
    PROVE  \A s \in SUBSET S : AddsUp(Partial(f, SUBSET S), f, s)
<1> DEFINE p == Partial(f, SUBSET S)
           h == [s \in SUBSET S |->
                   IF s = {} THEN 0 ELSE f[Picked(s)] + p[s \ {Picked(s)}]]
<1>0. Sums(p, f, SUBSET S)
  BY PartialExists
<1> HIDE DEF p
<1>1. p = h
  BY ONLY <1>0, Zenon DEF Sums
<1>2. ASSUME NEW s \in SUBSET S
      PROVE  h[s] = IF s = {} THEN 0 ELSE f[Picked(s)] + p[s \ {Picked(s)}]
  OBVIOUS
<1> HIDE DEF h
<1>3. ASSUME NEW s \in SUBSET S PROVE AddsUp(p, f, s)
  <2>1. p[s] = h[s]
    BY <1>1
  <2> QED BY <1>2, <2>1 DEF AddsUp
<1> QED BY <1>3 DEF p

\* A subset with n + 1 elements, less any of them, is a subset with n.
LEMMA OneLess ==
    ASSUME NEW S, IsFiniteSet(S), NEW n \in Nat, NEW s \in UpTo(S, n + 1)
    PROVE  /\ s \in SUBSET S /\ IsFiniteSet(s)
           /\ s # {} => Picked(s) \in s
           /\ \A x \in s : s \ {x} \in UpTo(S, n) /\ s \ {x} \in SUBSET S
<1>1. s \in SUBSET S /\ Cardinality(s) <= n + 1 /\ IsFiniteSet(s) /\ Cardinality(s) \in Nat
  BY FS_Subset, FS_CardinalityType DEF UpTo
<1>2. ASSUME NEW x \in s PROVE s \ {x} \in UpTo(S, n)
  <2>1. Cardinality(s \ {x}) = Cardinality(s) - 1
    BY <1>1, FS_RemoveElement
  <2> QED BY <1>1, <2>1 DEF UpTo
<1> QED BY <1>1, <1>2 DEF Picked

LEMMA NoneUpToZero ==
    ASSUME NEW S, IsFiniteSet(S), NEW s \in UpTo(S, 0)
    PROVE  s = {}
  BY FS_Subset, FS_EmptySet, FS_CardinalityType DEF UpTo

LEMMA AllUpToSize ==
    ASSUME NEW S, IsFiniteSet(S)
    PROVE  Cardinality(S) \in Nat /\ UpTo(S, Cardinality(S)) = SUBSET S
  BY FS_Subset, FS_CardinalityType DEF UpTo

LEMMA PartialInt ==
    ASSUME NEW f, NEW S, IsFiniteSet(S), \A x \in S : f[x] \in Int
    PROVE  \A s \in SUBSET S : Partial(f, SUBSET S)[s] \in Int
<1> DEFINE p == Partial(f, SUBSET S)
           G == {n \in Nat : \A s \in UpTo(S, n) : p[s] \in Int}
<1>0. \A s \in SUBSET S : AddsUp(p, f, s)
  BY PartialUnfold
<1> HIDE DEF p
<1>1. 0 \in G
  <2>1. AddsUp(p, f, {})
    BY <1>0
  <2> QED BY <2>1, NoneUpToZero DEF AddsUp
<1>2. ASSUME NEW n \in Nat, n \in G PROVE n + 1 \in G
  <2> SUFFICES ASSUME NEW s \in UpTo(S, n + 1) PROVE p[s] \in Int
    OBVIOUS
  <2>0. AddsUp(p, f, s)
    BY <1>0, OneLess
  <2>1. CASE s = {}
    BY <2>0, <2>1 DEF AddsUp
  <2>2. CASE s # {}
    <3>1. Picked(s) \in S /\ s \ {Picked(s)} \in UpTo(S, n)
      BY <2>2, OneLess
    <3>2. p[s \ {Picked(s)}] \in Int /\ f[Picked(s)] \in Int
      BY <1>2, <3>1
    <3> QED BY <2>0, <2>2, <3>2 DEF AddsUp
  <2> QED BY <2>1, <2>2
<1> HIDE DEF G
<1>3. Cardinality(S) \in G
  BY <1>1, <1>2, InductionOnSet, AllUpToSize
<1> QED BY <1>3, AllUpToSize DEF G, p

\* Any element may be taken first.
LEMMA PartialTakes ==
    ASSUME NEW f, NEW S, IsFiniteSet(S), \A x \in S : f[x] \in Int
    PROVE  \A s \in SUBSET S : \A x \in s :
              Partial(f, SUBSET S)[s] = f[x] + Partial(f, SUBSET S)[s \ {x}]
<1> DEFINE p == Partial(f, SUBSET S)
           G == {n \in Nat : \A s \in UpTo(S, n) : \A x \in s : p[s] = f[x] + p[s \ {x}]}
<1>0. (\A s \in SUBSET S : AddsUp(p, f, s)) /\ (\A s \in SUBSET S : p[s] \in Int)
  BY PartialUnfold, PartialInt
<1> HIDE DEF p
<1>1. 0 \in G
  BY NoneUpToZero
<1>2. ASSUME NEW n \in Nat, n \in G PROVE n + 1 \in G
  <2> SUFFICES ASSUME NEW s \in UpTo(S, n + 1), NEW x \in s PROVE p[s] = f[x] + p[s \ {x}]
    OBVIOUS
  <2> DEFINE y == Picked(s)
  <2>1. /\ s \in SUBSET S /\ y \in s
        /\ \A z \in s : s \ {z} \in UpTo(S, n) /\ s \ {z} \in SUBSET S
    BY OneLess
  <2>2. p[s] = f[y] + p[s \ {y}]
    <3>1. AddsUp(p, f, s) /\ s # {}
      BY <1>0, <2>1
    <3> QED BY <3>1 DEF AddsUp
  <2> HIDE DEF y
  <2>3. CASE x = y
    BY <2>2, <2>3
  <2>4. CASE x # y
    <3>1. p[s \ {y}] = f[x] + p[(s \ {y}) \ {x}]
      BY <1>2, <2>1, <2>4
    <3>2. p[s \ {x}] = f[y] + p[(s \ {x}) \ {y}]
      BY <1>2, <2>1, <2>4
    <3>3. (s \ {y}) \ {x} = (s \ {x}) \ {y}
      OBVIOUS
    <3>4. f[x] \in Int /\ f[y] \in Int /\ p[(s \ {x}) \ {y}] \in Int
      BY <1>0, <2>1
    <3> DEFINE r == p[(s \ {x}) \ {y}]
               a == f[x]
               b == f[y]
    <3>5. p[s] = b + (a + r) /\ p[s \ {x}] = b + r
      BY <2>2, <3>1, <3>2, <3>3
    <3>6. a \in Int /\ b \in Int /\ r \in Int
      BY <3>4
    <3> HIDE DEF a, b, r
    <3>7. p[s] = a + p[s \ {x}]
      BY <3>5, <3>6
    <3> QED BY <3>7 DEF a
  <2> QED BY <2>3, <2>4
<1> HIDE DEF G
<1>3. Cardinality(S) \in G
  BY <1>1, <1>2, InductionOnSet, AllUpToSize
<1> QED BY <1>3, AllUpToSize DEF G, p

\* The sum over a set depends on the function's values there only.
LEMMA PartialSame ==
    ASSUME NEW f, NEW g, NEW S, IsFiniteSet(S), NEW R, IsFiniteSet(R), S \subseteq R,
           \A x \in S : f[x] = g[x]
    PROVE  \A s \in SUBSET S : Partial(f, SUBSET S)[s] = Partial(g, SUBSET R)[s]
<1> DEFINE p == Partial(f, SUBSET S)
           q == Partial(g, SUBSET R)
           G == {n \in Nat : \A s \in UpTo(S, n) : p[s] = q[s]}
<1>0. (\A s \in SUBSET S : AddsUp(p, f, s)) /\ (\A s \in SUBSET R : AddsUp(q, g, s))
  BY PartialUnfold
<1> HIDE DEF p, q
<1>1. 0 \in G
  <2>1. AddsUp(p, f, {}) /\ AddsUp(q, g, {})
    BY <1>0
  <2> QED BY <2>1, NoneUpToZero DEF AddsUp
<1>2. ASSUME NEW n \in Nat, n \in G PROVE n + 1 \in G
  <2> SUFFICES ASSUME NEW s \in UpTo(S, n + 1) PROVE p[s] = q[s]
    OBVIOUS
  <2>1. AddsUp(p, f, s) /\ AddsUp(q, g, s)
    BY <1>0, OneLess
  <2>2. CASE s = {}
    BY <2>1, <2>2 DEF AddsUp
  <2>3. CASE s # {}
    <3>1. Picked(s) \in S /\ s \ {Picked(s)} \in UpTo(S, n)
      BY <2>3, OneLess
    <3>2. p[s \ {Picked(s)}] = q[s \ {Picked(s)}] /\ f[Picked(s)] = g[Picked(s)]
      BY <1>2, <3>1
    <3> QED BY <2>1, <2>3, <3>2 DEF AddsUp
  <2> QED BY <2>2, <2>3
<1> HIDE DEF G
<1>3. Cardinality(S) \in G
  BY <1>1, <1>2, InductionOnSet, AllUpToSize
<1> QED BY <1>3, AllUpToSize DEF G, p, q

-----------------------------------------------------------------------------
(* What a specification needs to know of a sum                             *)

\* The sum over no elements is 0.
LEMMA SumOfNone == ASSUME NEW f PROVE SumFunctionOnSet(f, {}) = 0
<1>1. AddsUp(Partial(f, SUBSET {}), f, {})
  BY FS_EmptySet, PartialUnfold
<1> QED BY <1>1, SumDef DEF AddsUp

\* A sum of integers is an integer.
LEMMA SumIsInt ==
    ASSUME NEW f, NEW S, IsFiniteSet(S), \A x \in S : f[x] \in Int
    PROVE  SumFunctionOnSet(f, S) \in Int
  BY SumDef, PartialInt

\* One element more adds its value.
LEMMA SumAdds ==
    ASSUME NEW f, NEW S, IsFiniteSet(S), NEW x, x \notin S, \A y \in S \cup {x} : f[y] \in Int
    PROVE  SumFunctionOnSet(f, S \cup {x}) = f[x] + SumFunctionOnSet(f, S)
<1> DEFINE R == S \cup {x}
<1>1. IsFiniteSet(R) /\ R \in SUBSET R /\ S \in SUBSET R /\ x \in R /\ R \ {x} = S
  BY FS_AddElement
<1>2. \A y \in R : f[y] \in Int
  OBVIOUS
<1> HIDE DEF R
<1>3. Partial(f, SUBSET R)[R] = f[x] + Partial(f, SUBSET R)[S]
  BY <1>1, <1>2, PartialTakes
<1>4. Partial(f, SUBSET S)[S] = Partial(f, SUBSET R)[S]
  BY <1>1, PartialSame
<1> QED BY <1>3, <1>4, SumDef DEF R

\* Functions that agree on a set have the same sum over it.
LEMMA SumSame ==
    ASSUME NEW f, NEW g, NEW S, IsFiniteSet(S), \A x \in S : f[x] = g[x]
    PROVE  SumFunctionOnSet(f, S) = SumFunctionOnSet(g, S)
<1>1. Partial(f, SUBSET S)[S] = Partial(g, SUBSET S)[S]
  BY PartialSame
<1> QED BY <1>1, SumDef

\* The sum of a function with one argument more.
LEMMA SumGrows ==
    ASSUME NEW g, NEW S, IsFiniteSet(S), NEW x, x \notin S, \A y \in S \cup {x} : g[y] \in Int
    PROVE  SumFunction([y \in S \cup {x} |-> g[y]]) = g[x] + SumFunction([y \in S |-> g[y]])
<1> DEFINE R == S \cup {x}
           f == [y \in S |-> g[y]]
           h == [y \in R |-> g[y]]
<1>1. /\ DOMAIN f = S /\ DOMAIN h = R /\ h[x] = g[x]
      /\ \A y \in R : h[y] \in Int
      /\ \A y \in S : h[y] = f[y]
  OBVIOUS
<1> HIDE DEF f, h
<1>2. SumFunctionOnSet(h, R) = h[x] + SumFunctionOnSet(h, S)
  BY <1>1, SumAdds
<1>3. SumFunctionOnSet(h, S) = SumFunctionOnSet(f, S)
  BY <1>1, SumSame
<1> QED BY <1>1, <1>2, <1>3 DEF SumFunction, f, h

-----------------------------------------------------------------------------
(* The participants' stores: locks, prepare records and values agree.      *)

\* A run whose transaction is committed has left the voting phase.
VotingEnds ==
    \A t \in Tx : decision[t] = "commit" => pc[t] \notin {"idle", "voting", "logging"}

\* A participant that has committed t never takes another prepare record of t.
CommittedOnce ==
    \A p \in Participant, t \in Tx : decided[p][t] = "commit" => prepared[p][t] = None

\* What a prepare record would write is what it would compute now, however much
\* has been committed since the vote, and no less than the floor.
RecordsAreCurrent ==
    \A p \in Participant, t \in Tx : prepared[p][t] # None =>
        /\ prepared[p][t] = NewValues(p, t)
        /\ \A k \in Keys(t, p) : prepared[p][t][k] >= Floor

FiniteWriters == \A p \in Participant, k \in Key : IsFiniteSet(Writers(p, k))

StoreInv == /\ VotingEnds /\ CommittedOnce /\ RecordsAreCurrent /\ FiniteWriters
            /\ LocksMatchPrepared /\ FloorRespected /\ BalancesAddUp

\* What _apply_locked does to each lock.
LEMMA ApplyLocks ==
    ASSUME TypeOK, NEW p \in Participant, NEW t \in Tx, NEW d, Apply(p, t, d),
           NEW q \in Participant, NEW k \in Key
    PROVE  locks'[q][k] = IF q = p /\ locks[p][k] = t THEN None ELSE locks[q][k]
  BY DEF Apply, TypeOK

\* What a YES vote does to each lock.
LEMMA VoteLocks ==
    ASSUME TypeOK, NEW p \in Participant, NEW t \in Tx, VoteYes(p, t),
           NEW q \in Participant, NEW k \in Key
    PROVE  locks'[q][k] = IF q = p /\ k \in Keys(t, p) THEN t ELSE locks[q][k]
  BY DEF VoteYes, TypeOK

\* What _apply_locked does to each value.
LEMMA ApplyValues ==
    ASSUME TypeOK, NEW p \in Participant, NEW t \in Tx, NEW d, Apply(p, t, d),
           NEW q \in Participant, NEW k \in Key
    PROVE  data'[q][k] = IF q = p /\ k \in Keys(t, p) /\ d = "commit" /\ prepared[p][t] # None
                         THEN prepared[p][t][k] ELSE data[q][k]
<1>1. CASE d = "commit" /\ prepared[p][t] # None
  <2>1. data' = [data EXCEPT ![p] = [j \in Key |->
                   IF j \in Keys(t, p) THEN prepared[p][t][j] ELSE data[p][j]]]
    BY <1>1 DEF Apply
  <2> QED BY <1>1, <2>1 DEF TypeOK
<1>2. CASE ~(d = "commit" /\ prepared[p][t] # None)
  BY <1>2 DEF Apply
<1> QED BY <1>1, <1>2

\* The values a vote computes.
LEMMA NewValuesFacts ==
    ASSUME TypeOK, NEW p \in Participant, NEW t \in Tx, NEW k \in Keys(t, p)
    PROVE  /\ k \in Key /\ NewValues(p, t)[k] = data[p][k] + Delta[t][p][k]
           /\ data[p][k] \in Int /\ Delta[t][p][k] \in Int /\ NewValues(p, t)[k] \in Int
<1>1. k \in Key /\ Delta[t][p][k] \in Int
  BY DataAssumption DEF Keys
<1>2. data[p][k] \in Int
  BY <1>1 DEF TypeOK
<1>3. NewValues(p, t)[k] = data[p][k] + Delta[t][p][k]
  BY DEF NewValues
<1> QED BY <1>1, <1>2, <1>3

\* The locks keep two transactions from being prepared on one key.
LEMMA Disjoint ==
    ASSUME LocksMatchPrepared, NEW p \in Participant, NEW t \in Tx, NEW u \in Tx, t # u,
           prepared[p][t] # None, prepared[p][u] # None, NEW k \in Key, k \in Keys(u, p)
    PROVE  k \notin Keys(t, p)
  BY DEF LocksMatchPrepared

\* A vote keeps the stores right: it takes free locks, above the floor.
LEMMA VoteKeepsStore ==
    ASSUME IInv, StoreInv, NEW p \in Participant, NEW t \in Tx, Votes(p, t)
    PROVE  /\ CommittedOnce' /\ RecordsAreCurrent' /\ FiniteWriters'
           /\ LocksMatchPrepared' /\ FloorRespected' /\ BalancesAddUp'
<1>0. /\ TypeOK /\ VoteYes(p, t) /\ prepared[p][t] = None /\ ~Refuses(p, t)
      /\ pc[t] = "voting" /\ UNCHANGED <<data, decided>>
  BY DEF IInv, Votes, VoteYes
<1>1. \A q \in Participant, u \in Tx :
        prepared'[q][u] = IF q = p /\ u = t THEN NewValues(p, t) ELSE prepared[q][u]
  BY <1>0, VoteEffect
<1>2. \A q \in Participant, k \in Key :
        locks'[q][k] = IF q = p /\ k \in Keys(t, p) THEN t ELSE locks[q][k]
  BY <1>0, VoteLocks
<1>3. NewValues(p, t) # None
  BY <1>0, NewValuesNotNone
<1>4. \A q \in Participant, u \in Tx : NewValues(q, u)' = NewValues(q, u)
  BY <1>0 DEF NewValues
<1>5. CommittedOnce'
  <2>1. decided[p][t] # "commit"
    <3>1. decision[t] # "commit"
      BY <1>0 DEF StoreInv, VotingEnds
    <3> QED BY <3>1, NameAssumption DEF IInv, DecisionsComeFromLog
  <2> QED BY <1>0, <1>1, <2>1 DEF StoreInv, CommittedOnce
<1>6. RecordsAreCurrent'
  <2> SUFFICES ASSUME NEW q \in Participant, NEW u \in Tx, prepared'[q][u] # None
               PROVE  /\ prepared'[q][u] = NewValues(q, u)
                      /\ \A k \in Keys(u, q) : prepared'[q][u][k] >= Floor
    BY <1>4 DEF RecordsAreCurrent
  <2>1. CASE q = p /\ u = t
    <3>1. ASSUME NEW k \in Keys(t, p) PROVE NewValues(p, t)[k] >= Floor
      BY <1>0, NewValuesFacts, DataAssumption DEF Refuses
    <3> QED BY <1>1, <2>1, <3>1
  <2>2. CASE ~(q = p /\ u = t)
    BY <1>1, <2>2 DEF StoreInv, RecordsAreCurrent
  <2> QED BY <2>1, <2>2
<1>7. FiniteWriters' /\ FloorRespected' /\ BalancesAddUp'
  BY <1>0 DEF StoreInv, FiniteWriters, FloorRespected, BalancesAddUp, Writers
<1>8. LocksMatchPrepared'
  <2> SUFFICES ASSUME NEW q \in Participant, NEW u \in Tx, NEW k \in Key
               PROVE  locks'[q][k] = u <=> (prepared'[q][u] # None /\ k \in Keys(u, q))
    BY DEF LocksMatchPrepared
  <2>0. locks[q][k] = u <=> (prepared[q][u] # None /\ k \in Keys(u, q))
    BY DEF StoreInv, LocksMatchPrepared
  <2>1. CASE q # p \/ (u # t /\ k \notin Keys(t, p))
    BY <1>1, <1>2, <2>0, <2>1
  <2>2. CASE q = p /\ u = t
    BY <1>0, <1>1, <1>2, <1>3, <2>0, <2>2
  <2>3. CASE q = p /\ u # t /\ k \in Keys(t, p)
    <3>1. locks[p][k] \in {None, t}
      BY <1>0, <2>3 DEF Refuses
    <3>2. locks[p][k] # u
      BY <2>3, <3>1, NameAssumption
    <3> QED BY <1>1, <1>2, <2>0, <2>3, <3>2
  <2> QED BY <2>1, <2>2, <2>3
<1> QED BY <1>5, <1>6, <1>7, <1>8

\* A decision, applied, keeps locks, records and floor right.
LEMMA ApplyKeepsRecords ==
    ASSUME IInv, StoreInv, NEW p \in Participant, NEW t \in Tx, Applies(p, t)
    PROVE  CommittedOnce' /\ RecordsAreCurrent' /\ LocksMatchPrepared' /\ FloorRespected'
<1> DEFINE d == decision[t]
<1>0. TypeOK /\ Apply(p, t, d) /\ Recoverer \notin Tx /\ None \notin Tx
  BY NameAssumption DEF IInv, Applies
<1>1. \A q \in Participant, u \in Tx :
        /\ prepared'[q][u] = IF q = p /\ u = t THEN None ELSE prepared[q][u]
        /\ decided'[q][u] = IF q = p /\ u = t THEN d ELSE decided[q][u]
  BY <1>0, ApplyEffect
<1>2. \A q \in Participant, k \in Key :
        locks'[q][k] = IF q = p /\ locks[p][k] = t THEN None ELSE locks[q][k]
  BY <1>0, ApplyLocks
<1>3. \A q \in Participant, k \in Key :
        data'[q][k] = IF q = p /\ k \in Keys(t, p) /\ d = "commit" /\ prepared[p][t] # None
                      THEN prepared[p][t][k] ELSE data[q][k]
  BY <1>0, ApplyValues
<1> HIDE DEF d
<1>4. CommittedOnce'
  BY <1>1 DEF StoreInv, CommittedOnce
<1>5. LocksMatchPrepared'
  <2> SUFFICES ASSUME NEW q \in Participant, NEW u \in Tx, NEW k \in Key
               PROVE  locks'[q][k] = u <=> (prepared'[q][u] # None /\ k \in Keys(u, q))
    BY DEF LocksMatchPrepared
  <2>0. locks[q][k] = u <=> (prepared[q][u] # None /\ k \in Keys(u, q))
    BY DEF StoreInv, LocksMatchPrepared
  <2> QED BY <1>0, <1>1, <1>2, <2>0
<1>6. FloorRespected'
  <2> SUFFICES ASSUME NEW q \in Participant, NEW k \in Key, Balance[q][k] >= Floor
               PROVE  data'[q][k] >= Floor
    BY DEF FloorRespected
  <2>1. data[q][k] >= Floor
    BY DEF StoreInv, FloorRespected
  <2>2. prepared[p][t] # None => \A j \in Keys(t, p) : prepared[p][t][j] >= Floor
    BY DEF StoreInv, RecordsAreCurrent
  <2> QED BY <1>3, <2>1, <2>2
<1>7. RecordsAreCurrent'
  <2> SUFFICES ASSUME NEW q \in Participant, NEW u \in Tx, prepared'[q][u] # None
               PROVE  /\ prepared'[q][u] = NewValues(q, u)'
                      /\ \A k \in Keys(u, q) : prepared'[q][u][k] >= Floor
    BY DEF RecordsAreCurrent
  <2>1. ~(q = p /\ u = t) /\ prepared'[q][u] = prepared[q][u] /\ prepared[q][u] # None
    BY <1>1
  <2>2. /\ prepared[q][u] = NewValues(q, u)
        /\ \A k \in Keys(u, q) : prepared[q][u][k] >= Floor
    BY <2>1 DEF StoreInv, RecordsAreCurrent
  <2>3. ASSUME NEW k \in Keys(u, q) PROVE data'[q][k] = data[q][k]
    <3>1. k \in Key
      BY <1>0, NewValuesFacts
    <3>2. CASE q = p /\ prepared[p][t] # None
      <4>1. k \notin Keys(t, p)
        BY <2>1, <3>1, <3>2, Disjoint DEF StoreInv
      <4> QED BY <1>3, <3>1, <4>1
    <3>3. CASE ~(q = p /\ prepared[p][t] # None)
      BY <1>3, <3>1, <3>3
    <3> QED BY <3>2, <3>3
  <2>4. NewValues(q, u)' = NewValues(q, u)
    BY <2>3 DEF NewValues
  <2> QED BY <2>1, <2>2, <2>4
<1> QED BY <1>4, <1>5, <1>6, <1>7

\* A decision, applied, adds the transaction to the writers of its keys.
LEMMA WritersGrow ==
    ASSUME IInv, NEW p \in Participant, NEW t \in Tx, Applies(p, t),
           NEW q \in Participant, NEW k \in Key
    PROVE  Writers(q, k)' = IF q = p /\ k \in Keys(t, p) /\ decision[t] = "commit"
                            THEN Writers(q, k) \cup {t} ELSE Writers(q, k)
<1>1. \A u \in Tx :
        decided'[q][u] = IF q = p /\ u = t THEN decision[t] ELSE decided[q][u]
  BY ApplyEffect DEF IInv, Applies
<1>2. decided[p][t] = "commit" => decision[t] = "commit"
  BY NameAssumption DEF IInv, DecisionsComeFromLog
<1> QED BY <1>1, <1>2 DEF Writers

\* A commit adds the change to each of its keys, once: applied again, it finds
\* neither a prepare record nor anything left to add.
LEMMA ApplyAddsOnce ==
    ASSUME IInv, StoreInv, NEW p \in Participant, NEW t \in Tx, Applies(p, t)
    PROVE  FiniteWriters' /\ BalancesAddUp'
<1> SUFFICES ASSUME NEW q \in Participant, NEW k \in Key
             PROVE  /\ IsFiniteSet(Writers(q, k)')
                    /\ data'[q][k] = Balance[q][k]
                          + SumFunction([u \in Writers(q, k)' |-> Delta[u][q][k]])
  BY DEF FiniteWriters, BalancesAddUp
<1> DEFINE W == Writers(q, k)
           grows == q = p /\ k \in Keys(t, p) /\ decision[t] = "commit"
<1>0. /\ TypeOK /\ Apply(p, t, decision[t]) /\ IsFiniteSet(W)
      /\ data[q][k] = Balance[q][k] + SumFunction([u \in W |-> Delta[u][q][k]])
  BY DEF IInv, Applies, StoreInv, FiniteWriters, BalancesAddUp
<1>1. Writers(q, k)' = IF grows THEN W \cup {t} ELSE W
  BY WritersGrow
<1>2. data'[q][k] = IF grows /\ prepared[p][t] # None THEN prepared[p][t][k] ELSE data[q][k]
  BY <1>0, ApplyValues
<1>3. IsFiniteSet(W \cup {t})
  BY <1>0, FS_AddElement
<1>4. CASE grows /\ prepared[p][t] # None
  <2>1. t \notin W
    BY <1>4 DEF StoreInv, CommittedOnce, Writers
  <2>2. /\ data'[q][k] = data[q][k] + Delta[t][q][k]
        /\ data[q][k] \in Int /\ Delta[t][q][k] \in Int
    <3>1. prepared[p][t] = NewValues(p, t)
      BY <1>4 DEF StoreInv, RecordsAreCurrent
    <3> QED BY <1>0, <1>2, <1>4, <3>1, NewValuesFacts
  <2> DEFINE g == [u \in Tx |-> Delta[u][q][k]]
             R == W \cup {t}
  <2>3. \A u \in R : u \in Tx /\ k \in Keys(u, q)
    BY <1>4 DEF Writers
  <2>4. \A u \in R : g[u] \in Int /\ g[u] = Delta[u][q][k]
    BY <1>0, <2>3, NewValuesFacts
  <2>5. /\ [u \in R |-> g[u]] = [u \in R |-> Delta[u][q][k]]
        /\ [u \in W |-> g[u]] = [u \in W |-> Delta[u][q][k]]
    BY <2>4
  <2> HIDE DEF g, W
  <2>6. SumFunction([u \in R |-> g[u]]) = g[t] + SumFunction([u \in W |-> g[u]])
    BY <1>0, <2>1, <2>4, SumGrows
  <2> DEFINE a == SumFunction([u \in W |-> Delta[u][q][k]])
             b == SumFunction([u \in R |-> Delta[u][q][k]])
  <2>7. b = Delta[t][q][k] + a /\ data[q][k] = Balance[q][k] + a
    BY <1>0, <2>4, <2>5, <2>6
  <2>8. a \in Int
    <3>1. \A u \in W : g[u] \in Int
      BY <2>4
    <3> DEFINE f == [u \in W |-> g[u]]
    <3>2. DOMAIN f = W /\ \A u \in W : f[u] \in Int
      BY <3>1
    <3> HIDE DEF f
    <3>3. SumFunctionOnSet(f, W) \in Int
      BY <1>0, <3>2, SumIsInt
    <3> QED BY <2>5, <3>2, <3>3 DEF f, SumFunction
  <2>9. Balance[q][k] \in Int
    BY DataAssumption
  <2> HIDE DEF a, b
  <2>10. data'[q][k] = Balance[q][k] + b
    BY <2>2, <2>7, <2>8, <2>9
  <2> QED BY <1>1, <1>3, <1>4, <2>10 DEF b, W
<1>5. CASE grows /\ prepared[p][t] = None
  <2>1. t \in W
    BY <1>5 DEF IInv, CommitIsPossible, Writers, Applies
  <2>2. W \cup {t} = W
    BY <2>1
  <2> QED BY <1>0, <1>1, <1>2, <1>5, <2>2
<1>6. CASE ~grows
  BY <1>0, <1>1, <1>2, <1>6
<1> QED BY <1>4, <1>5, <1>6

\* Only the commit point logs COMMIT, and its run is past the votes for good.
LEMMA VotingEndsStep == IInv /\ VotingEnds /\ [Next]_vars => VotingEnds'
<1> SUFFICES ASSUME IInv, VotingEnds, [Next]_vars, NEW t \in Tx, decision'[t] = "commit"
             PROVE  pc'[t] \notin {"idle", "voting", "logging"}
  BY DEF VotingEnds
<1> DEFINE Late == pc'[t] \notin {"idle", "voting", "logging"}
<1>0. TypeOK /\ Recoverer \notin Tx
  BY NameAssumption DEF IInv
<1>1. decision[t] = "commit" \/ pc[t] = "logging"
  BY DecisionStep
<1>2. ASSUME pc'[t] = pc[t], decision[t] = "commit" PROVE Late
  BY <1>2 DEF VotingEnds
<1>3. ASSUME NEW u \in Tx, LogDecision(u) PROVE Late
  <2>1. CASE u = t
    BY <1>0, <1>3, <2>1 DEF LogDecision, TypeOK, Thread
  <2>2. CASE u # t
    BY <1>0, <1>2, <1>3, <2>2 DEF LogDecision, TypeOK, Thread
  <2> QED BY <2>1, <2>2
<1>4. CASE decision'[t] = decision[t]
  <2>1. decision[t] = "commit" /\ pc[t] \notin {"idle", "voting", "logging"}
    BY <1>4 DEF VotingEnds
  <2>2. ASSUME NEW u \in Tx, RunStart(u) \/ CollectVote(u) \/ AllVotesIn(u)
               \/ DecisionLogged(u)
        PROVE  Late
    <3>1. CASE RunStart(u)
      BY <1>0, <2>1, <3>1 DEF RunStart, TypeOK, Thread
    <3>2. CASE CollectVote(u)
      BY <2>1, <3>2 DEF CollectVote
    <3>3. CASE AllVotesIn(u)
      BY <1>0, <2>1, <3>3 DEF AllVotesIn, MaybeCrash, TypeOK, Thread
    <3>4. CASE DecisionLogged(u)
      BY <1>0, <2>1, <3>4 DEF DecisionLogged, MaybeCrash, TypeOK, Thread
    <3> QED BY <2>2, <3>1, <3>2, <3>3, <3>4
  <2>3. ASSUME NEW th \in Thread, BroadcastStep(th) PROVE Late
    <3>1. CASE SkipParticipant(th)
      BY <2>1, <3>1 DEF SkipParticipant
    <3>2. CASE SendDecision(th)
      BY <1>0, <2>1, <3>2 DEF SendDecision, TypeOK, Thread
    <3>3. CASE RecordAck(th)
      BY <1>0, <2>1, <3>3 DEF RecordAck, TypeOK, Thread
    <3>4. CASE BroadcastDone(th)
      BY <1>0, <2>1, <3>4 DEF BroadcastDone, TypeOK, Thread
    <3> QED BY <2>3, <3>1, <3>2, <3>3, <3>4 DEF BroadcastStep
  <2>4. ASSUME RecoverStart \/ RecoveryStep PROVE Late
    BY <1>0, <2>1, <2>4 DEF RecoverStart, RecoveryStep, RecoverRecord, RecoverEnd,
          TypeOK, Thread
  <2>5. ASSUME Crash \/ UNCHANGED vars PROVE Late
    BY <1>2, <2>1, <2>5 DEF Crash, CrashCoordinator, ArmCoordinatorCrash,
          DisarmCoordinatorCrash, CrashParticipant, ArmParticipantCrash, vars, runVars
  <2>6. ASSUME NEW p \in Participant, RecoverParticipant(p) \/ InquiryStep(p) PROVE Late
    BY <1>2, <2>1, <2>6 DEF RecoverParticipant, InquiryStep, InquiryFails, ApplyAnswer,
          Inquire, runVars
  <2> QED BY <1>3, <2>2, <2>3, <2>4, <2>5, <2>6, Zenon DEF Next, RunStep
<1>5. CASE decision'[t] # decision[t]
  <2>1. decision[t] # "commit" /\ decision'[t] = "commit"
    BY <1>5
  <2>2. ASSUME NEW u \in Tx, RecoverRecord(u) PROVE FALSE
    BY <1>0, <2>1, <2>2 DEF RecoverRecord, TypeOK
  <2>3. ASSUME NEW p \in Participant, NEW u \in Tx, Inquire(p, u) PROVE FALSE
    BY <1>0, <2>1, <2>3 DEF Inquire, TypeOK
  <2>4. ASSUME decision' = decision PROVE FALSE
    BY <2>1, <2>4
  <2>5. ASSUME NEW u \in Tx, RunStart(u) \/ CollectVote(u) \/ AllVotesIn(u)
               \/ DecisionLogged(u)
        PROVE  FALSE
    BY <2>4, <2>5 DEF RunStart, CollectVote, AllVotesIn, DecisionLogged, logVars
  <2>6. ASSUME NEW th \in Thread, BroadcastStep(th) PROVE FALSE
    BY <2>4, <2>6 DEF BroadcastStep, SkipParticipant, SendDecision, RecordAck,
          BroadcastDone, logVars
  <2>7. ASSUME NEW p \in Participant, RecoverParticipant(p) \/ InquiryFails(p) \/ ApplyAnswer(p)
        PROVE  FALSE
    BY <2>4, <2>7 DEF RecoverParticipant, InquiryFails, ApplyAnswer, logVars
  <2>8. ASSUME RecoverStart \/ RecoverEnd \/ Crash \/ UNCHANGED vars PROVE FALSE
    BY <2>4, <2>8 DEF RecoverStart, RecoverEnd, Crash, CrashCoordinator, ArmCoordinatorCrash,
          DisarmCoordinatorCrash, CrashParticipant, ArmParticipantCrash, vars, logVars
  <2> QED BY <1>3, <2>2, <2>3, <2>5, <2>6, <2>7, <2>8
          DEF Next, RunStep, RecoveryStep, InquiryStep
<1> QED BY <1>4, <1>5

LEMMA StoreInit == Init => StoreInv
<1> SUFFICES ASSUME Init PROVE StoreInv
  OBVIOUS
<1>1. VotingEnds /\ CommittedOnce /\ RecordsAreCurrent /\ FloorRespected
  BY NameAssumption DEF Init, VotingEnds, CommittedOnce, RecordsAreCurrent, FloorRespected
<1>2. LocksMatchPrepared
  BY NameAssumption DEF Init, LocksMatchPrepared
<1>3. \A p \in Participant, k \in Key : Writers(p, k) = {}
  BY NameAssumption DEF Init, Writers
<1>4. FiniteWriters
  BY <1>3, FS_EmptySet DEF FiniteWriters
<1>5. BalancesAddUp
  <2> SUFFICES ASSUME NEW p \in Participant, NEW k \in Key
               PROVE  data[p][k] = Balance[p][k]
                         + SumFunction([t \in Writers(p, k) |-> Delta[t][p][k]])
    BY DEF BalancesAddUp
  <2> DEFINE f == [t \in Writers(p, k) |-> Delta[t][p][k]]
  <2>1. DOMAIN f = {}
    BY <1>3
  <2> HIDE DEF f
  <2>2. SumFunction(f) = 0
    BY <2>1, SumOfNone DEF SumFunction
  <2>3. data[p][k] = Balance[p][k] /\ Balance[p][k] \in Int
    BY DataAssumption DEF Init
  <2> QED BY <2>2, <2>3 DEF f
<1> QED BY <1>1, <1>2, <1>4, <1>5 DEF StoreInv

LEMMA StoreInvStep == IInv /\ StoreInv /\ [Next]_vars => StoreInv'
<1> SUFFICES ASSUME IInv, StoreInv, [Next]_vars PROVE StoreInv'
  OBVIOUS
<1>1. VotingEnds'
  BY VotingEndsStep DEF StoreInv
<1>2. CASE UNCHANGED partVars
  <2>1. \A p \in Participant, t \in Tx : NewValues(p, t)' = NewValues(p, t)
    BY <1>2 DEF partVars, NewValues
  <2>2. CommittedOnce' /\ RecordsAreCurrent' /\ LocksMatchPrepared' /\ FloorRespected'
    BY <1>2, <2>1 DEF partVars, StoreInv, CommittedOnce, RecordsAreCurrent,
          LocksMatchPrepared, FloorRespected
  <2>3. FiniteWriters' /\ BalancesAddUp'
    BY <1>2 DEF partVars, StoreInv, FiniteWriters, BalancesAddUp, Writers
  <2> QED BY <1>1, <2>2, <2>3 DEF StoreInv
<1>3. ASSUME NEW p \in Participant, NEW t \in Tx, Votes(p, t) PROVE StoreInv'
  BY <1>1, <1>3, VoteKeepsStore DEF StoreInv
<1>4. ASSUME NEW p \in Participant, NEW t \in Tx, Applies(p, t) PROVE StoreInv'
  BY <1>1, <1>4, ApplyKeepsRecords, ApplyAddsOnce DEF StoreInv
<1> QED BY <1>2, <1>3, <1>4, StoreStep

\* Locks and prepare records agree, every balance is the initial one plus the
\* changes committed, each counted once, and no value falls below the floor.
THEOREM StoresStayRight == Spec => []StoreIsRight
<1>1. IInv /\ StoreInv /\ [Next]_vars => StoreInv'
  BY StoreInvStep
<1>2. Spec => []StoreInv
  BY <1>1, StoreInit, Invariance, PTL DEF Spec
<1>3. StoreInv => StoreIsRight
  BY DEF StoreInv, StoreIsRight
<1> QED BY <1>2, <1>3, PTL

-----------------------------------------------------------------------------
(* Recovery while no run is in flight.                                     *)

Over == {"done", "crashed"}

\* The recoverer works for transactions whose runs are over.
RecoveryIsLate ==
    /\ \A t \in Tx : t \in logged => pc[t] # "idle"
    /\ \A t \in Tx : t \in todo \/ current = t => pc[t] \in Over

\* A participant that has acknowledged, or is about to be recorded as having
\* done so, holds no prepare record, and will not be asked to vote again.
AcksAreReleases ==
    /\ \A t \in Tx : \A p \in acked[t] : prepared[p][t] = None /\ pc[t] \notin {"idle", "voting"}
    /\ \A th \in Thread : pc[th] = "ack" =>
          prepared[Plan[Job(th)][pos[th]]][Job(th)] = None

QuietInv == RecoveryIsLate /\ AcksAreReleases

\* How a thread's position in the code can change in a step.
ThreadMoves(th) ==
    /\ th \in Tx /\ pc[th] \notin {"idle", "voting"} => pc'[th] \notin {"idle", "voting"}
    /\ th \in Tx /\ pc[th] \in Over => pc'[th] = pc[th]
    /\ th \in Tx /\ pc'[th] = "idle" => pc[th] = "idle"
    /\ pc'[th] = "ack" =>
          \/ pc[th] = "ack" /\ pos'[th] = pos[th] /\ (th = Recoverer => current' = current)
          \/ SendDecision(th)

LEMMA ThreadStep ==
    ASSUME IInv, [Next]_vars, NEW th \in Thread
    PROVE  ThreadMoves(th)
<1>0. TypeOK /\ Recoverer \notin Tx /\ (th \in Tx \/ th = Recoverer)
  BY NameAssumption DEF IInv, Thread
<1>1. ASSUME pc'[th] = pc[th], pos'[th] = pos[th], th = Recoverer => current' = current
      PROVE  ThreadMoves(th)
  BY <1>1 DEF ThreadMoves
<1>2. ASSUME NEW t \in Tx, RunStart(t) PROVE ThreadMoves(th)
  BY <1>0, <1>2 DEF RunStart, TypeOK, Thread, ThreadMoves, Over, recVars
<1>3. ASSUME NEW t \in Tx, CollectVote(t) PROVE ThreadMoves(th)
  BY <1>0, <1>3 DEF CollectVote, TypeOK, Thread, ThreadMoves, Over, recVars
<1>4. ASSUME NEW t \in Tx, AllVotesIn(t) PROVE ThreadMoves(th)
  BY <1>0, <1>4 DEF AllVotesIn, MaybeCrash, TypeOK, Thread, ThreadMoves, Over, recVars
<1>5. ASSUME NEW t \in Tx, LogDecision(t) PROVE ThreadMoves(th)
  BY <1>0, <1>5 DEF LogDecision, TypeOK, Thread, ThreadMoves, Over, recVars
<1>6. ASSUME NEW t \in Tx, DecisionLogged(t) PROVE ThreadMoves(th)
  BY <1>0, <1>6 DEF DecisionLogged, MaybeCrash, TypeOK, Thread, ThreadMoves, Over, recVars
<1>7. ASSUME NEW h \in Thread, SkipParticipant(h) PROVE ThreadMoves(th)
  BY <1>0, <1>7 DEF SkipParticipant, TypeOK, ThreadMoves, Over, recVars
<1>8. ASSUME NEW h \in Thread, SendDecision(h) PROVE ThreadMoves(th)
  <2>1. CASE h = th
    <3>1. pc[th] = "broadcast" /\ pc'[th] \in {"error", "ack"}
      <4>1. /\ pc[h] = "broadcast"
            /\ pc' = [pc EXCEPT ![h] = "error"] \/ pc' = [pc EXCEPT ![h] = "ack"]
        BY <1>8 DEF SendDecision
      <4>2. DOMAIN pc = Thread
        BY <1>0 DEF TypeOK
      <4> QED BY <2>1, <4>1, <4>2
    <3> QED BY <1>8, <2>1, <3>1 DEF ThreadMoves, Over
  <2>2. CASE h # th
    <3>1. /\ pc' = [pc EXCEPT ![h] = "error"] \/ pc' = [pc EXCEPT ![h] = "ack"]
          /\ pos' = pos /\ current' = current
      BY <1>8 DEF SendDecision, recVars
    <3>2. DOMAIN pc = Thread
      BY <1>0 DEF TypeOK
    <3>3. pc'[th] = pc[th]
      BY <2>2, <3>1, <3>2
    <3> QED BY <1>1, <3>1, <3>3
  <2> QED BY <2>1, <2>2
<1>9. ASSUME NEW h \in Thread, RecordAck(h) PROVE ThreadMoves(th)
  BY <1>0, <1>9 DEF RecordAck, TypeOK, ThreadMoves, Over, recVars
<1>10. ASSUME NEW h \in Thread, BroadcastDone(h) PROVE ThreadMoves(th)
  BY <1>0, <1>10 DEF BroadcastDone, TypeOK, ThreadMoves, Over
<1>11. ASSUME RecoverStart \/ RecoverEnd PROVE ThreadMoves(th)
  BY <1>0, <1>11 DEF RecoverStart, RecoverEnd, TypeOK, Thread, ThreadMoves, Over
<1>12. ASSUME NEW t \in Tx, RecoverRecord(t) PROVE ThreadMoves(th)
  BY <1>0, <1>12 DEF RecoverRecord, TypeOK, Thread, ThreadMoves, Over
<1>13. ASSUME NEW p \in Participant, RecoverParticipant(p) \/ InquiryStep(p)
       PROVE  ThreadMoves(th)
  BY <1>1, <1>13 DEF RecoverParticipant, InquiryStep, InquiryFails, ApplyAnswer, Inquire,
        runVars, recVars
<1>14. ASSUME Crash \/ UNCHANGED vars PROVE ThreadMoves(th)
  BY <1>1, <1>14 DEF Crash, CrashCoordinator, ArmCoordinatorCrash, DisarmCoordinatorCrash,
        CrashParticipant, ArmParticipantCrash, vars, runVars, recVars
<1> QED BY <1>2, <1>3, <1>4, <1>5, <1>6, <1>7, <1>8, <1>9, <1>10, <1>11, <1>12, <1>13, <1>14
        DEF Next, RunStep, BroadcastStep, RecoveryStep

\* The log grows by a run's start; recover takes its snapshot of the log while
\* no run is in flight, and works through it; an ack is recorded by RecordAck.
LogMoves ==
    /\ \/ logged' = logged
       \/ \E t \in Tx : pc'[t] = "voting" /\ logged' = logged \cup {t}
    /\ todo' \subseteq todo \/ (NoRunInFlight /\ todo' = logged /\ pc'[Recoverer] = "next")
    /\ current' \in todo \cup {current, None}
    /\ acked' = acked \/ \E th \in Thread : RecordAck(th)

LEMMA LogMovesStep ==
    ASSUME IInv, [QuietNext]_vars
    PROVE  LogMoves
<1>0. TypeOK
  BY DEF IInv
<1>1. ASSUME UNCHANGED <<logged, acked, todo, current>> PROVE LogMoves
  BY <1>1 DEF LogMoves
<1>2. ASSUME NEW t \in Tx, RunStart(t) PROVE LogMoves
  BY <1>0, <1>2 DEF RunStart, LogMoves, TypeOK, Thread, recVars
<1>3. ASSUME NEW t \in Tx, RunStep(t) PROVE LogMoves
  BY <1>1, <1>3 DEF RunStep, CollectVote, AllVotesIn, LogDecision, DecisionLogged,
        logVars, recVars
<1>4. ASSUME NEW th \in Thread, SkipParticipant(th) \/ SendDecision(th) PROVE LogMoves
  BY <1>1, <1>4 DEF SkipParticipant, SendDecision, logVars, recVars
<1>5. ASSUME NEW th \in Thread, RecordAck(th) PROVE LogMoves
  BY <1>5 DEF RecordAck, LogMoves, recVars
<1>6. ASSUME NEW th \in Thread, BroadcastDone(th) PROVE LogMoves
  BY <1>6 DEF BroadcastDone, LogMoves, logVars
<1>7. ASSUME RecoverStart, NoRunInFlight PROVE LogMoves
  BY <1>0, <1>7 DEF RecoverStart, LogMoves, TypeOK, Thread, logVars
<1>8. ASSUME NEW t \in Tx, RecoverRecord(t) PROVE LogMoves
  BY <1>8 DEF RecoverRecord, LogMoves
<1>9. ASSUME NEW p \in Participant, RecoverParticipant(p) \/ InquiryStep(p) PROVE LogMoves
  BY <1>1, <1>9 DEF RecoverParticipant, InquiryStep, InquiryFails, ApplyAnswer, Inquire,
        logVars, recVars
<1>10. ASSUME RecoverEnd \/ Crash \/ UNCHANGED vars PROVE LogMoves
  BY <1>1, <1>10 DEF RecoverEnd, Crash, CrashCoordinator, ArmCoordinatorCrash,
        DisarmCoordinatorCrash, CrashParticipant, ArmParticipantCrash, vars, logVars, recVars
<1> QED BY <1>2, <1>3, <1>4, <1>5, <1>6, <1>7, <1>8, <1>9, <1>10
        DEF QuietNext, Next, BroadcastStep, RecoveryStep

LEMMA QuietStep == IInv /\ QuietInv /\ [QuietNext]_vars => QuietInv'
<1> SUFFICES ASSUME IInv, QuietInv, [QuietNext]_vars PROVE QuietInv'
  OBVIOUS
<1>0. /\ [Next]_vars /\ TypeOK /\ Recoverer \notin Tx /\ None \notin Tx
      /\ Thread = Tx \cup {Recoverer}
  BY NameAssumption DEF QuietNext, IInv, Thread
<1>1. \A th \in Thread : ThreadMoves(th)
  BY <1>0, ThreadStep
<1>2. LogMoves
  BY LogMovesStep
<1>3. RecoveryIsLate'
  <2>1. ASSUME NEW t \in Tx, t \in logged' PROVE pc'[t] # "idle"
    BY <1>0, <1>1, <1>2, <2>1 DEF LogMoves, ThreadMoves, QuietInv, RecoveryIsLate
  <2>2. ASSUME NEW t \in Tx, t \in todo' \/ current' = t PROVE pc'[t] \in Over
    <3>1. pc[t] \in Over
      <4>1. CASE t \in todo \/ current = t
        BY <4>1 DEF QuietInv, RecoveryIsLate
      <4>2. CASE NoRunInFlight /\ t \in logged
        BY <4>2 DEF QuietInv, RecoveryIsLate, NoRunInFlight, Over
      <4> QED BY <1>0, <1>2, <2>2, <4>1, <4>2 DEF LogMoves
    <3> QED BY <1>0, <1>1, <3>1 DEF ThreadMoves
  <2> QED BY <2>1, <2>2 DEF RecoveryIsLate
\* A transaction past its votes gets no new prepare record.
<1>4. ASSUME NEW t \in Tx, NEW p \in Participant,
             prepared[p][t] = None, pc[t] # "voting"
      PROVE  prepared'[p][t] = None
  BY <1>0, <1>4, RecordStep DEF KeepsRecord, GetsRecord, GetsDecision
\* Where a thread waits to record an ack, and what for.
<1>5. ASSUME NEW th \in Thread, pc[th] = "ack"
      PROVE  /\ Job(th) \in Tx /\ Plan[Job(th)][pos[th]] \in Participant
             /\ prepared[Plan[Job(th)][pos[th]]][Job(th)] = None
             /\ pc[Job(th)] \notin {"idle", "voting"}
  <2>1. Job(th) \in Tx /\ pos[th] \in 1..Len(Plan[Job(th)])
    <3>1. Job(th) \in Tx /\ pos[th] <= Len(Plan[Job(th)]) /\ pos[th] \in Nat \ {0}
      BY <1>0, <1>5 DEF IInv, ControlOK, TypeOK
    <3> QED BY <3>1, PlanFacts
  <2>2. pc[Job(th)] \notin {"idle", "voting"}
    <3>1. CASE th = Recoverer
      BY <2>1, <3>1 DEF Job, QuietInv, RecoveryIsLate, Over
    <3>2. CASE th # Recoverer
      BY <1>5, <3>2 DEF Job
    <3> QED BY <3>1, <3>2
  <2> QED BY <1>5, <2>1, <2>2, PlanFacts DEF QuietInv, AcksAreReleases
<1>6. ASSUME NEW t \in Tx, NEW p \in acked'[t]
      PROVE  prepared'[p][t] = None /\ pc'[t] \notin {"idle", "voting"}
  <2>1. p \in acked[t] \/ \E th \in Thread :
           pc[th] = "ack" /\ t = Job(th) /\ p = Plan[t][pos[th]]
    <3>1. CASE acked' = acked
      BY <3>1
    <3>2. ASSUME NEW th \in Thread, RecordAck(th)
          PROVE  p \in acked[t] \/ (pc[th] = "ack" /\ t = Job(th) /\ p = Plan[t][pos[th]])
      <4> DEFINE u == Job(th)
                 q == Plan[u][pos[th]]
      <4>0. pc[th] = "ack"
        BY <3>2 DEF RecordAck
      <4>1. acked' = [acked EXCEPT ![u] = @ \cup {q}]
        BY <3>2 DEF RecordAck
      <4>2. acked \in [Tx -> SUBSET Participant]
        BY <1>0 DEF TypeOK
      <4> HIDE DEF u, q
      <4>3. p \in acked[t] \/ (t = u /\ p = q)
        <5>1. acked'[t] = IF t = u THEN acked[t] \cup {q} ELSE acked[t]
          BY <4>1, <4>2
        <5>2. p \in acked'[t]
          OBVIOUS
        <5> QED BY <5>1, <5>2
      <4> QED BY <4>0, <4>3 DEF u, q
    <3> QED BY <1>2, <3>1, <3>2 DEF LogMoves
  <2>2. p \in Participant /\ prepared[p][t] = None /\ pc[t] \notin {"idle", "voting"}
    <3>1. CASE p \in acked[t]
      BY <1>0, <3>1 DEF TypeOK, QuietInv, AcksAreReleases
    <3>2. ASSUME NEW th \in Thread, pc[th] = "ack", t = Job(th), p = Plan[t][pos[th]]
          PROVE  p \in Participant /\ prepared[p][t] = None /\ pc[t] \notin {"idle", "voting"}
      BY <1>5, <3>2
    <3> QED BY <2>1, <3>1, <3>2
  <2> QED BY <1>0, <1>1, <1>4, <2>2 DEF ThreadMoves
<1>7. ASSUME NEW th \in Thread, pc'[th] = "ack"
      PROVE  prepared'[Plan[Job(th)'][pos'[th]]][Job(th)'] = None
  <2>1. CASE pc[th] = "ack" /\ pos'[th] = pos[th] /\ (th = Recoverer => current' = current)
    <3>1. Job(th)' = Job(th)
      BY <2>1 DEF Job
    <3> QED BY <1>4, <1>5, <2>1, <3>1
  <2>2. CASE SendDecision(th)
    <3> DEFINE t == Job(th)
               p == Plan[t][pos[th]]
    <3>1. t \in Tx /\ pos[th] \in 1..Len(Plan[t])
      BY <1>0, <2>2, PlanFacts DEF SendDecision, IInv, ControlOK, TypeOK
    <3>2. p \in Participant
      BY <3>1, PlanFacts
    <3>3. Job(th)' = t /\ pos'[th] = pos[th] /\ pc[th] = "broadcast"
      BY <2>2 DEF SendDecision, Job, recVars
    <3>4. Apply(p, t, decision[t])
      BY <1>0, <1>7, <2>2 DEF SendDecision, TypeOK
    <3> HIDE DEF t, p
    <3>5. prepared'[p][t] = None
      BY <1>0, <3>1, <3>2, <3>4, ApplyEffect
    <3> QED BY <3>3, <3>5 DEF t, p
  <2> QED BY <1>1, <1>7, <2>1, <2>2 DEF ThreadMoves
<1> QED BY <1>3, <1>6, <1>7 DEF QuietInv, AcksAreReleases

\* With recover() called only while no run is in flight, a transaction that every
\* participant has acknowledged leaves no participant in doubt.
THEOREM DeliveredReleases == QuietSpec => []DeliveredMeansReleased
<1>1. Init => QuietInv
  BY NameAssumption DEF Init, QuietInv, RecoveryIsLate, AcksAreReleases, Thread
<1>2. IInv /\ QuietInv /\ [QuietNext]_vars => QuietInv'
  BY QuietStep
<1>3. [QuietNext]_vars => [Next]_vars
  BY DEF QuietNext
<1>4. QuietSpec => []IInv
  BY <1>3, Invariance, PTL DEF QuietSpec, Spec
<1>5. IInv /\ QuietInv => DeliveredMeansReleased
  <2> SUFFICES ASSUME IInv, QuietInv, NEW t \in Tx, Delivered(t), NEW p \in Participant
               PROVE  prepared[p][t] = None
    BY DEF DeliveredMeansReleased
  <2>1. CASE p \in Participants(t)
    BY <2>1 DEF Delivered, QuietInv, AcksAreReleases
  <2>2. CASE p \notin Participants(t)
    BY <2>2 DEF IInv, LogCovers
  <2> QED BY <2>1, <2>2
<1> QED BY <1>1, <1>2, <1>4, <1>5, PTL DEF QuietSpec
=============================================================================
