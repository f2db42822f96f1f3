-------------------------- MODULE RaftElectionProofs --------------------------
(***************************************************************************)
(* TLAPS proofs about RaftElection, for every set of at least two nodes,    *)
(* every set of commands and every bound: elections first (Inv), then the   *)
(* logs and what is committed (RaftInv).                                    *)
(***************************************************************************)
EXTENDS RaftElection, FiniteSetTheorems, SequenceTheorems, TLAPS

Flying == BagToSet(inFlight)

\* Nothing is in flight after a step but what was before and what was sent.
LEMMA ExchangeFacts ==
    ASSUME NEW used, NEW S, Exchange(used, S)
    PROVE  Flying' \subseteq Flying \cup S
<1>1. PICK sent \in SUBSET S : inFlight' = (inFlight (-) SetToBag(used)) (+) SetToBag(sent)
  BY DEF Exchange
<1>2. DOMAIN (inFlight (-) SetToBag(used)) \subseteq DOMAIN inFlight
  BY DEF (-)
<1>3. DOMAIN SetToBag(sent) = sent
  BY DEF SetToBag
<1>4. DOMAIN inFlight' \subseteq DOMAIN inFlight \cup sent
  BY <1>1, <1>2, <1>3 DEF (+)
<1> QED BY <1>4 DEF Flying, BagToSet

------------------------------------------------------------------------------
(* The inductive invariant *)

MessageOK(m) ==
    /\ m.src \in Node /\ m.dst \in Node /\ m.term \in Nat
    /\ m.type = "VoteReply" => m.content \in BOOLEAN

ElectionTypeOK ==
    /\ term \in [Node -> Nat]
    /\ votedFor \in [Node -> Node \cup {None}]
    /\ role \in [Node -> {Follower, Candidate, Leader}]
    /\ votes \in [Node -> SUBSET Node]
    /\ leadersByTerm \in [1..MaxTerm -> SUBSET Node]
    /\ \A m \in Flying : MessageOK(m)

\* m carries p's vote for b in term t.
CarriesVote(m, p, t, b) ==
    m.type = "VoteReply" /\ m.content /\ m.src = p /\ m.dst = b /\ m.term = t

\* Somewhere p's vote for b in term t still counts: with p, on its way, or with b.
Voted(p, t, b) ==
    \/ term[p] = t /\ votedFor[p] = b
    \/ term[b] = t /\ role[b] = Candidate /\ p \in votes[b]
    \/ \E m \in Flying : CarriesVote(m, p, t, b)

\* Whoever cast a vote has it on its disk, or is in a later term.
Keeps(p, t, b) == t < term[p] \/ (t = term[p] /\ votedFor[p] = b)
VotesAreKept == \A p, b \in Node, t \in Nat : Voted(p, t, b) => Keeps(p, t, b)

\* A node votes once in a term.
VotesAreSingle ==
    \A p, b, c \in Node, t \in Nat : Voted(p, t, b) /\ Voted(p, t, c) => b = c

\* The voters of a leader are a majority, and their votes count for nobody else,
\* though none of them need be in flight or counted any more.
Elects(Q, t, a) ==
    /\ Cardinality(Q) >= Majority
    /\ \A p \in Q : Keeps(p, t, a) /\ \A b \in Node : Voted(p, t, b) => b = a
LeadersAreElected ==
    \A t \in 1..MaxTerm : \A a \in leadersByTerm[t] : \E Q \in SUBSET Node : Elects(Q, t, a)

Inv ==
    /\ ElectionTypeOK /\ VotesAreKept /\ VotesAreSingle /\ LeadersAreElected
    /\ ElectionSafety

------------------------------------------------------------------------------
(* What a step may do to votes *)

\* A node's vote of a term stays, and a vote that counts after the step counted
\* before it or is what its voter has just written.
VotesGrow ==
    /\ \A p \in Node : \/ term'[p] > term[p]
                       \/ term'[p] = term[p] /\ votedFor[p] \in {None, votedFor'[p]}
    /\ \A p, b \in Node, t \in Nat :
          Voted(p, t, b)' => Voted(p, t, b) \/ (t = term'[p] /\ votedFor'[p] = b)

LEMMA KeepsIsKept ==
    ASSUME ElectionTypeOK, ElectionTypeOK', VotesGrow,
           NEW p \in Node, NEW b \in Node, NEW t \in Nat, Keeps(p, t, b)
    PROVE  Keeps(p, t, b)'
<1>1. term[p] \in Nat /\ term'[p] \in Nat /\ b # None
  BY NodeAssumption DEF ElectionTypeOK
<1>2. \/ term'[p] > term[p]
      \/ term'[p] = term[p] /\ votedFor[p] \in {None, votedFor'[p]}
  BY DEF VotesGrow
<1> QED BY <1>1, <1>2 DEF Keeps

LEMMA VotesStay ==
    ASSUME Inv, ElectionTypeOK', VotesGrow
    PROVE  VotesAreKept' /\ VotesAreSingle'
<1>1. ASSUME NEW p \in Node, NEW b \in Node, NEW t \in Nat, Voted(p, t, b)'
      PROVE  Keeps(p, t, b)'
  <2>1. CASE Voted(p, t, b)
    BY <2>1, KeepsIsKept DEF Inv, VotesAreKept
  <2>2. CASE t = term'[p] /\ votedFor'[p] = b
    BY <2>2 DEF Keeps
  <2> QED BY <1>1, <2>1, <2>2 DEF VotesGrow
<1>2. ASSUME NEW p \in Node, NEW b \in Node, NEW c \in Node, NEW t \in Nat,
             Voted(p, t, b)', Voted(p, t, c)'
      PROVE  b = c
  <2>1. Keeps(p, t, b)' /\ Keeps(p, t, c)'
    BY <1>1, <1>2
  <2>2. term'[p] \in Nat
    BY DEF ElectionTypeOK
  <2>3. CASE Voted(p, t, b) /\ Voted(p, t, c)
    BY <2>3 DEF Inv, VotesAreSingle
  <2>4. CASE t = term'[p]
    BY <2>1, <2>2, <2>4 DEF Keeps
  <2> QED BY <1>2, <2>3, <2>4 DEF VotesGrow
<1> QED BY <1>1, <1>2 DEF VotesAreKept, VotesAreSingle

\* An election stays won.
LEMMA ElectedStays ==
    ASSUME Inv, ElectionTypeOK', VotesGrow,
           NEW Q \in SUBSET Node, NEW t \in 1..MaxTerm, NEW a \in Node, Elects(Q, t, a)
    PROVE  Elects(Q, t, a)'
<1> SUFFICES ASSUME NEW p \in Q
             PROVE  Keeps(p, t, a)' /\ \A b \in Node : Voted(p, t, b)' => b = a
  BY DEF Elects, Majority
<1>1. p \in Node /\ t \in Nat /\ Keeps(p, t, a) /\ \A b \in Node : Voted(p, t, b) => b = a
  BY DEF Elects
<1>2. Keeps(p, t, a)'
  BY <1>1, KeepsIsKept DEF Inv
<1>3. ASSUME NEW b \in Node, Voted(p, t, b)'
      PROVE  b = a
  <2>1. CASE Voted(p, t, b)
    BY <1>1, <2>1
  <2>2. CASE t = term'[p] /\ votedFor'[p] = b
    <3>1. term'[p] \in Nat
      BY <1>1 DEF ElectionTypeOK
    <3> QED BY <1>2, <2>2, <3>1 DEF Keeps
  <2> QED BY <1>1, <1>3, <2>1, <2>2 DEF VotesGrow
<1> QED BY <1>2, <1>3

\* Every step but a victory.
LEMMA NoVictoryInv ==
    ASSUME Inv, ElectionTypeOK', VotesGrow, leadersByTerm' = leadersByTerm
    PROVE  Inv'
<1>1. VotesAreKept' /\ VotesAreSingle'
  BY VotesStay
<1>2. LeadersAreElected'
  <2> SUFFICES ASSUME NEW t \in 1..MaxTerm, NEW a \in leadersByTerm[t]
               PROVE  \E Q \in SUBSET Node : Elects(Q, t, a)'
    BY DEF LeadersAreElected
  <2>1. PICK Q \in SUBSET Node : Elects(Q, t, a)
    BY DEF Inv, LeadersAreElected
  <2>2. a \in Node
    BY DEF Inv, ElectionTypeOK
  <2> QED BY <2>1, <2>2, ElectedStays
<1>3. ElectionSafety'
  BY DEF Inv, ElectionSafety
<1> QED BY <1>1, <1>2, <1>3 DEF Inv

------------------------------------------------------------------------------
(* The steps *)

Plain(m) == MessageOK(m) /\ m.type # "VoteReply"

\* Messages that carry no vote add none.
LEMMA PlainSent ==
    ASSUME \A x \in Flying' : x \in Flying \/ Plain(x)
    PROVE  /\ (\A m \in Flying : MessageOK(m)) => (\A m \in Flying' : MessageOK(m))
           /\ \A p, t, b : (\E m \in Flying' : CarriesVote(m, p, t, b))
                            => \E m \in Flying : CarriesVote(m, p, t, b)
  BY DEF Plain, CarriesVote

\* Steps that leave every election's state alone.
LEMMA QuietInv ==
    ASSUME Inv, \A x \in Flying' : x \in Flying \/ Plain(x),
           UNCHANGED <<term, votedFor, role, votes, leadersByTerm>>
    PROVE  Inv' /\ VotesGrow
<1>1. ElectionTypeOK'
  BY PlainSent DEF Inv, ElectionTypeOK
<1>2. ASSUME NEW p \in Node, NEW b \in Node, NEW t \in Nat, Voted(p, t, b)'
      PROVE  Voted(p, t, b)
  BY <1>2, PlainSent DEF Voted
<1>3. VotesGrow
  BY <1>2 DEF VotesGrow
<1> QED BY <1>1, <1>3, NoVictoryInv

\* What a node sends names itself, a peer and its term.
LEMMA PlainMessages ==
    ASSUME NEW n \in Node, NEW p \in Node, NEW t \in Nat
    PROVE  /\ Plain(RequestVote(n, p, t))
           /\ \A entries, next, commit : Plain(AppendEntries(n, p, t, entries, next, commit))
           /\ \A success, match : Plain(AppendReply(n, p, t, success, match))
  BY DEF Plain, MessageOK, RequestVote, AppendEntries, AppendReply, Message

LEMMA HeartbeatInv == ASSUME Inv, NEW n \in Node, Heartbeat(n) PROVE Inv' /\ VotesGrow
<1> DEFINE S == {AppendEntries(n, p, term[n], log[n], nextIndex[n][p], commitIndex[n]) : p \in Peers(n)}
<1>1. Flying' \subseteq Flying \cup S
  BY ExchangeFacts DEF Heartbeat, Send
<1>2. \A x \in S : Plain(x)
  BY PlainMessages DEF Inv, ElectionTypeOK, Peers
<1>3. \A x \in Flying' : x \in Flying \/ Plain(x)
  BY <1>1, <1>2
<1> QED BY <1>3, QuietInv DEF Heartbeat, persistent

LEMMA SubmitInv == ASSUME Inv, NEW n \in Node, NEW c \in Command, Submit(n, c) PROVE Inv' /\ VotesGrow
<1> DEFINE S == {AppendEntries(n, p, term[n], log'[n], nextIndex[n][p], commitIndex[n]) : p \in Peers(n)}
<1>1. Flying' \subseteq Flying \cup S
  BY ExchangeFacts DEF Submit, Send
<1>2. \A x \in S : Plain(x)
  BY PlainMessages DEF Inv, ElectionTypeOK, Peers
<1>3. \A x \in Flying' : x \in Flying \/ Plain(x)
  BY <1>1, <1>2
<1> QED BY <1>3, QuietInv DEF Submit

\* Fewer candidates count fewer votes.
LEMMA RestartInv == ASSUME Inv, NEW n \in Node, Restart(n) PROVE Inv' /\ VotesGrow
<1>1. /\ role' = [role EXCEPT ![n] = Follower]
      /\ UNCHANGED <<term, votedFor, votes, leadersByTerm, inFlight>>
  BY DEF Restart, persistent
<1>2. ElectionTypeOK' /\ Flying' = Flying
  BY <1>1 DEF Inv, ElectionTypeOK, Flying
<1>3. ASSUME NEW p \in Node, NEW b \in Node, NEW t \in Nat, Voted(p, t, b)'
      PROVE  Voted(p, t, b)
  <2>1. role'[b] = Candidate => role[b] = Candidate
    BY <1>1, NodeAssumption DEF Inv, ElectionTypeOK
  <2> QED BY <1>1, <1>2, <1>3, <2>1 DEF Voted
<1>4. VotesGrow
  BY <1>1, <1>3 DEF VotesGrow
<1> QED BY <1>1, <1>2, <1>4, NoVictoryInv

\* A candidate's first vote is its own, in a term it has not voted in.
LEMMA StartElectionInv == ASSUME Inv, NEW n \in Node, StartElection(n) PROVE Inv' /\ VotesGrow
<1> DEFINE S == {RequestVote(n, p, term'[n]) : p \in Peers(n)}
<1>1. /\ term' = [term EXCEPT ![n] = term[n] + 1]
      /\ role' = [role EXCEPT ![n] = Candidate]
      /\ votedFor' = [votedFor EXCEPT ![n] = n]
      /\ votes' = [votes EXCEPT ![n] = {n}]
      /\ leadersByTerm' = leadersByTerm
  BY DEF StartElection
<1>2. /\ term \in [Node -> Nat] /\ votedFor \in [Node -> Node \cup {None}]
      /\ role \in [Node -> {Follower, Candidate, Leader}] /\ votes \in [Node -> SUBSET Node]
  BY DEF Inv, ElectionTypeOK
<1>3. /\ term'[n] = term[n] + 1 /\ term'[n] \in Nat /\ votedFor'[n] = n /\ votes'[n] = {n}
      /\ \A p \in Node \ {n} : /\ term'[p] = term[p] /\ votedFor'[p] = votedFor[p]
                               /\ role'[p] = role[p] /\ votes'[p] = votes[p]
  BY <1>1, <1>2
<1>4. Flying' \subseteq Flying \cup S
  BY ExchangeFacts DEF StartElection, Send
<1>5. \A x \in Flying' : x \in Flying \/ Plain(x)
  <2>1. \A x \in S : Plain(x)
    BY <1>3, PlainMessages DEF Peers
  <2> QED BY <1>4, <2>1
<1>6. ElectionTypeOK'
  <2>1. \A m \in Flying' : MessageOK(m)
    BY <1>5, PlainSent DEF Inv, ElectionTypeOK
  <2>2. /\ term' \in [Node -> Nat] /\ votedFor' \in [Node -> Node \cup {None}]
        /\ role' \in [Node -> {Follower, Candidate, Leader}] /\ votes' \in [Node -> SUBSET Node]
    BY <1>1, <1>2
  <2> QED BY <1>1, <2>1, <2>2 DEF Inv, ElectionTypeOK
<1>7. ASSUME NEW p \in Node, NEW b \in Node, NEW t \in Nat, Voted(p, t, b)'
      PROVE  Voted(p, t, b) \/ (t = term'[p] /\ votedFor'[p] = b)
  <2>1. CASE term'[b] = t /\ role'[b] = Candidate /\ p \in votes'[b]
    BY <1>3, <2>1 DEF Voted
  <2>2. CASE \E m \in Flying' : CarriesVote(m, p, t, b)
    BY <1>5, <2>2, PlainSent DEF Voted
  <2> QED BY <1>7, <2>1, <2>2 DEF Voted
<1>8. ASSUME NEW p \in Node
      PROVE  \/ term'[p] > term[p]
             \/ term'[p] = term[p] /\ votedFor[p] \in {None, votedFor'[p]}
  <2>1. CASE p = n
    BY <1>2, <1>3, <2>1
  <2>2. CASE p # n
    BY <1>3, <2>2
  <2> QED BY <2>1, <2>2
<1>9. VotesGrow
  BY <1>7, <1>8 DEF VotesGrow
<1> QED BY <1>1, <1>6, <1>9, NoVictoryInv

------------------------------------------------------------------------------
(* The messages *)

\* What on_message reads of its receiver, and what a newer term makes of it.
LEMMA ReceiverFacts ==
    ASSUME Inv, NEW m \in Flying
    PROVE  /\ m.src \in Node /\ m.dst \in Node /\ m.term \in Nat
           /\ TermNow(m) \in Nat /\ VoteNow(m) \in Node \cup {None}
           /\ RoleNow(m) \in {Follower, Candidate, Leader}
           /\ m.term <= TermNow(m)
           /\ \/ Newer(m) /\ TermNow(m) = m.term /\ TermNow(m) > term[m.dst] /\ RoleNow(m) = Follower
                 /\ VoteNow(m) = None
              \/ ~Newer(m) /\ TermNow(m) = term[m.dst] /\ VoteNow(m) = votedFor[m.dst]
                 /\ RoleNow(m) = role[m.dst]
  BY DEF Inv, ElectionTypeOK, MessageOK, Newer, TermNow, VoteNow, RoleNow

\* A receiver adopts the term it sees, and with it a vote that it may still cast.
LEMMA AdoptInv ==
    ASSUME Inv, NEW m \in Flying, NEW vote \in Node \cup {None}, NEW newRole, NEW newLeader,
           Adopt(m, vote, newRole, newLeader),
           newRole \in {RoleNow(m), Follower}, VoteNow(m) \in {None, vote},
           UNCHANGED leadersByTerm,
           NEW counted \in SUBSET Node,
           votes' = [votes EXCEPT ![m.dst] = counted],
           \A p \in counted : \/ p \in votes[m.dst]
                              \/ CarriesVote(m, p, term[m.dst], m.dst),
           \A x \in Flying' : \/ x \in Flying
                               \/ Plain(x)
                               \/ /\ MessageOK(x)
                                  /\ x.content => /\ x.src = m.dst /\ x.dst = vote
                                                  /\ x.term = TermNow(m)
    PROVE  Inv' /\ VotesGrow
<1> DEFINE n == m.dst
<1>1. /\ term' = [term EXCEPT ![n] = TermNow(m)]
      /\ votedFor' = [votedFor EXCEPT ![n] = vote]
      /\ role' = [role EXCEPT ![n] = newRole]
  BY DEF Adopt
<1>2. /\ term \in [Node -> Nat] /\ votedFor \in [Node -> Node \cup {None}]
      /\ role \in [Node -> {Follower, Candidate, Leader}] /\ votes \in [Node -> SUBSET Node]
      /\ n \in Node /\ TermNow(m) \in Nat /\ newRole \in {Follower, Candidate, Leader}
  BY ReceiverFacts DEF Inv, ElectionTypeOK
<1>3. /\ term'[n] = TermNow(m) /\ votedFor'[n] = vote /\ role'[n] = newRole /\ votes'[n] = counted
      /\ \A p \in Node \ {n} : /\ term'[p] = term[p] /\ votedFor'[p] = votedFor[p]
                               /\ role'[p] = role[p] /\ votes'[p] = votes[p]
  BY <1>1, <1>2
<1>4. \A x \in Flying' : MessageOK(x)
  BY DEF Inv, ElectionTypeOK, Plain
<1>5. ElectionTypeOK'
  BY <1>1, <1>2, <1>4 DEF Inv, ElectionTypeOK
<1>6. ASSUME NEW p \in Node, NEW b \in Node, NEW t \in Nat, Voted(p, t, b)'
      PROVE  Voted(p, t, b) \/ (t = term'[p] /\ votedFor'[p] = b)
  <2>1. CASE term'[b] = t /\ role'[b] = Candidate /\ p \in votes'[b]
    <3>1. CASE b = n
      <4>1. newRole = Candidate /\ p \in counted /\ TermNow(m) = t
        BY <1>3, <2>1, <3>1
      <4>2. ~Newer(m) /\ t = term[n] /\ role[n] = Candidate
        BY <4>1, ReceiverFacts, NodeAssumption
      <4> QED BY <3>1, <4>1, <4>2 DEF Voted
    <3>2. CASE b # n
      BY <1>3, <2>1, <3>2 DEF Voted
    <3> QED BY <3>1, <3>2
  <2>2. CASE \E x \in Flying' : CarriesVote(x, p, t, b)
    <3>1. PICK x \in Flying' : CarriesVote(x, p, t, b)
      BY <2>2
    <3>2. CASE x \in Flying
      BY <3>1, <3>2 DEF Voted
    <3>3. CASE x \notin Flying
      <4>1. p = n /\ b = vote /\ t = TermNow(m)
        BY <3>1, <3>3 DEF CarriesVote, Plain
      <4> QED BY <1>3, <4>1
    <3> QED BY <3>2, <3>3
  <2> QED BY <1>6, <2>1, <2>2 DEF Voted
<1>7. ASSUME NEW p \in Node
      PROVE  \/ term'[p] > term[p]
             \/ term'[p] = term[p] /\ votedFor[p] \in {None, votedFor'[p]}
  <2>1. CASE p = n
    BY <1>2, <1>3, <2>1, ReceiverFacts
  <2>2. CASE p # n
    BY <1>3, <2>2
  <2> QED BY <2>1, <2>2
<1>8. VotesGrow
  BY <1>6, <1>7 DEF VotesGrow
<1> QED BY <1>5, <1>8, NoVictoryInv

LEMMA HandleRequestVoteInv ==
    ASSUME Inv, NEW m \in Flying, HandleRequestVote(m)
    PROVE  Inv' /\ VotesGrow
<1> DEFINE vote == IF Grants(m) THEN m.src ELSE VoteNow(m)
           reply == VoteReply(m.dst, m.src, TermNow(m), Grants(m))
<1>1. /\ Adopt(m, vote, RoleNow(m), LeaderNow(m)) /\ UNCHANGED <<votes, leadersByTerm>>
      /\ Flying' \subseteq Flying \cup {reply}
  BY ExchangeFacts DEF HandleRequestVote
<1>2. vote \in Node \cup {None} /\ VoteNow(m) \in {None, vote}
  BY ReceiverFacts DEF Grants
<1>3. Grants(m) \in BOOLEAN /\ (Grants(m) => vote = m.src)
  BY DEF Grants
<1>4. /\ MessageOK(reply)
      /\ reply.content => reply.src = m.dst /\ reply.dst = vote /\ reply.term = TermNow(m)
  BY <1>3, ReceiverFacts DEF VoteReply, Message, MessageOK
<1>5. votes' = [votes EXCEPT ![m.dst] = votes[m.dst]] /\ votes[m.dst] \in SUBSET Node
  BY <1>1, ReceiverFacts DEF Inv, ElectionTypeOK
<1>6. \A p \in votes[m.dst] : p \in votes[m.dst] \/ CarriesVote(m, p, term[m.dst], m.dst)
  OBVIOUS
<1> HIDE DEF vote, reply
<1>7. \A x \in Flying' : \/ x \in Flying
                        \/ Plain(x)
                        \/ /\ MessageOK(x)
                           /\ x.content => /\ x.src = m.dst /\ x.dst = vote
                                           /\ x.term = TermNow(m)
  BY <1>1, <1>4
<1> QED BY <1>1, <1>2, <1>5, <1>6, <1>7, AdoptInv

\* A reply, or a heartbeat, that leaves the receiver its vote.
LEMMA AdoptPlainInv ==
    ASSUME Inv, NEW m \in Flying, NEW newRole \in {RoleNow(m), Follower}, NEW newLeader,
           Adopt(m, VoteNow(m), newRole, newLeader), UNCHANGED <<votes, leadersByTerm>>,
           \A x \in Flying' : x \in Flying \/ Plain(x)
    PROVE  Inv' /\ VotesGrow
<1>1. votes' = [votes EXCEPT ![m.dst] = votes[m.dst]] /\ votes[m.dst] \in SUBSET Node
  BY ReceiverFacts DEF Inv, ElectionTypeOK
<1>2. VoteNow(m) \in Node \cup {None}
  BY ReceiverFacts
<1> QED BY <1>1, <1>2, AdoptInv

LEMMA HandleVoteReplyInv ==
    ASSUME Inv, NEW m \in Flying, HandleVoteReply(m)
    PROVE  Inv' /\ VotesGrow
<1> DEFINE now == IF CountsVote(m) THEN votes[m.dst] \cup {m.src} ELSE votes[m.dst]
<1>1. /\ Adopt(m, VoteNow(m), RoleNow(m), LeaderNow(m)) /\ UNCHANGED leadersByTerm
      /\ votes' = [votes EXCEPT ![m.dst] = now]
      /\ Flying' \subseteq Flying \cup {} /\ m.type = "VoteReply"
  BY ExchangeFacts DEF HandleVoteReply, Receivable
<1>2. /\ now \in SUBSET Node /\ VoteNow(m) \in Node \cup {None}
  BY ReceiverFacts DEF Inv, ElectionTypeOK
<1>3. CountsVote(m) => CarriesVote(m, m.src, term[m.dst], m.dst)
  <2> SUFFICES ASSUME CountsVote(m) PROVE m.term = term[m.dst] /\ m.content
    BY <1>1 DEF CarriesVote
  <2> QED BY ReceiverFacts, NodeAssumption DEF CountsVote
<1>4. \A p \in now : p \in votes[m.dst] \/ CarriesVote(m, p, term[m.dst], m.dst)
  BY <1>3
<1> HIDE DEF now
<1> QED BY <1>1, <1>2, <1>4, AdoptInv

LEMMA HandleAppendEntriesInv ==
    ASSUME Inv, NEW m \in Flying, HandleAppendEntries(m)
    PROVE  Inv' /\ VotesGrow
<1>1. m.src \in Node /\ m.dst \in Node /\ m.term \in Nat /\ term[m.dst] \in Nat
  BY ReceiverFacts DEF Inv, ElectionTypeOK
<1>2. UNCHANGED <<votes, leadersByTerm>>
  BY DEF HandleAppendEntries
<1>3. CASE /\ Exchange({m}, {AppendReply(m.dst, m.src, term[m.dst], FALSE, 0)})
           /\ UNCHANGED <<persistent, role, leaderId, commitIndex>>
  <2>1. Flying' \subseteq Flying \cup {AppendReply(m.dst, m.src, term[m.dst], FALSE, 0)}
    BY <1>3, ExchangeFacts
  <2>2. Plain(AppendReply(m.dst, m.src, term[m.dst], FALSE, 0))
    BY <1>1, PlainMessages
  <2>3. UNCHANGED <<term, votedFor, role, votes, leadersByTerm>>
    BY <1>2, <1>3 DEF persistent
  <2>4. \A x \in Flying' : x \in Flying \/ Plain(x)
    BY <2>1, <2>2
  <2> QED BY <2>3, <2>4, QuietInv
<1>4. ASSUME Adopt(m, VoteNow(m), Follower, m.src), NEW success, NEW match,
             Exchange({m}, {AppendReply(m.dst, m.src, m.term, success, match)})
      PROVE  Inv' /\ VotesGrow
  <2>1. Flying' \subseteq Flying \cup {AppendReply(m.dst, m.src, m.term, success, match)}
    BY <1>4, ExchangeFacts
  <2>2. Plain(AppendReply(m.dst, m.src, m.term, success, match))
    BY <1>1, PlainMessages
  <2>3. \A x \in Flying' : x \in Flying \/ Plain(x)
    BY <2>1, <2>2
  <2> QED BY <1>2, <1>4, <2>3, AdoptPlainInv
<1> QED BY <1>3, <1>4 DEF HandleAppendEntries

LEMMA IgnoreAppendReplyInv ==
    ASSUME Inv, NEW m \in Flying, IgnoreAppendReply(m)
    PROVE  Inv' /\ VotesGrow
<1>1. \A x \in Flying' : x \in Flying
  BY ExchangeFacts DEF IgnoreAppendReply
<1> QED BY <1>1, AdoptPlainInv DEF IgnoreAppendReply

LEMMA FollowerRepliesInv ==
    ASSUME Inv, NEW m \in Flying, FollowerMatches(m) \/ FollowerDiffers(m)
    PROVE  Inv' /\ VotesGrow
<1>1. UNCHANGED <<term, votedFor, role, votes, leadersByTerm>>
  BY DEF FollowerMatches, FollowerDiffers, persistent
<1>2. CASE FollowerMatches(m)
  <2>1. \A x \in Flying' : x \in Flying
    BY <1>2, ExchangeFacts DEF FollowerMatches
  <2> QED BY <1>1, <2>1, QuietInv
<1>3. CASE FollowerDiffers(m)
  <2> DEFINE next == Max({1, nextIndex[m.dst][m.src] - 1})
             again == AppendEntries(m.dst, m.src, term[m.dst], log[m.dst], next, commitIndex[m.dst])
  <2>1. Flying' \subseteq Flying \cup {again}
    BY <1>3, ExchangeFacts DEF FollowerDiffers
  <2>2. Plain(again)
    BY ReceiverFacts, PlainMessages DEF Inv, ElectionTypeOK
  <2> HIDE DEF again
  <2>3. \A x \in Flying' : x \in Flying \/ Plain(x)
    BY <2>1, <2>2
  <2> QED BY <1>1, <2>3, QuietInv
<1> QED BY <1>2, <1>3

\* A majority elects a leader: it shares a voter with any leader of the same term,
\* and the voter has voted for one of them only.
LEMMA WinElectionInv ==
    ASSUME Inv, NEW m \in Flying, WinElection(m)
    PROVE  Inv' /\ VotesGrow
<1> DEFINE n == m.dst
           now == votes[n] \cup {m.src}
           t == term[n]
           S == {AppendEntries(n, p, term[n], log[n], Len(log[n]) + 1, commitIndex[n]) : p \in Peers(n)}
<1>1. /\ m.type = "VoteReply" /\ CountsVote(m) /\ Cardinality(now) >= Majority
      /\ votes' = [votes EXCEPT ![n] = now] /\ role' = [role EXCEPT ![n] = Leader]
      /\ leadersByTerm' = [leadersByTerm EXCEPT ![t] = leadersByTerm[t] \cup {n}]
      /\ UNCHANGED <<term, votedFor>>
      /\ Flying' \subseteq Flying \cup S
  BY ExchangeFacts DEF WinElection, Receivable, persistent
<1>2. /\ term \in [Node -> Nat] /\ votedFor \in [Node -> Node \cup {None}]
      /\ role \in [Node -> {Follower, Candidate, Leader}] /\ votes \in [Node -> SUBSET Node]
      /\ leadersByTerm \in [1..MaxTerm -> SUBSET Node]
      /\ n \in Node /\ m.src \in Node /\ t \in Nat /\ now \in SUBSET Node
  BY ReceiverFacts DEF Inv, ElectionTypeOK
<1>3. role[n] = Candidate /\ m.term = t /\ m.content
  BY <1>1, ReceiverFacts, NodeAssumption DEF CountsVote
<1>4. \A p \in now : Voted(p, t, n)
  BY <1>1, <1>2, <1>3 DEF Voted, CarriesVote
<1>5. \A x \in Flying' : x \in Flying \/ Plain(x)
  <2>1. \A x \in S : Plain(x)
    BY <1>2, PlainMessages DEF Peers
  <2> QED BY <1>1, <2>1
<1>6. ElectionTypeOK'
  <2>1. \A x \in Flying' : MessageOK(x)
    BY <1>5, PlainSent DEF Inv, ElectionTypeOK
  <2>2. /\ role' \in [Node -> {Follower, Candidate, Leader}] /\ votes' \in [Node -> SUBSET Node]
        /\ leadersByTerm' \in [1..MaxTerm -> SUBSET Node]
    BY <1>1, <1>2
  <2> QED BY <1>1, <1>2, <2>1, <2>2 DEF ElectionTypeOK
<1>7. ASSUME NEW p \in Node, NEW b \in Node, NEW u \in Nat, Voted(p, u, b)'
      PROVE  Voted(p, u, b)
  <2>1. CASE term'[b] = u /\ role'[b] = Candidate /\ p \in votes'[b]
    <3>1. b # n /\ role[b] = Candidate /\ p \in votes[b]
      BY <1>1, <1>2, <2>1, NodeAssumption
    <3> QED BY <1>1, <2>1, <3>1 DEF Voted
  <2>2. CASE \E x \in Flying' : CarriesVote(x, p, u, b)
    BY <1>5, <2>2, PlainSent DEF Voted
  <2> QED BY <1>1, <1>7, <2>1, <2>2 DEF Voted
<1>8. VotesGrow
  BY <1>1, <1>7 DEF VotesGrow
<1>9. VotesAreKept' /\ VotesAreSingle'
  BY <1>6, <1>8, VotesStay
<1>10. ASSUME NEW Q, Q = now, NEW u, u = t
       PROVE  Elects(Q, u, n)'
  <2>1. \A p \in Q : /\ p \in Node /\ Keeps(p, u, n)
                     /\ \A b \in Node : Voted(p, u, b) => b = n
    BY <1>2, <1>4, <1>10 DEF Inv, VotesAreKept, VotesAreSingle
  <2>2. \A p \in Q : Keeps(p, u, n)' /\ \A b \in Node : Voted(p, u, b)' => b = n
    BY <1>1, <1>2, <1>7, <1>10, <2>1 DEF Keeps
  <2> QED BY <1>1, <1>10, <2>2 DEF Elects, Majority
<1>11. LeadersAreElected'
  <2> SUFFICES ASSUME NEW u \in 1..MaxTerm, NEW a \in leadersByTerm'[u]
               PROVE  \E Q \in SUBSET Node : Elects(Q, u, a)'
    BY DEF LeadersAreElected
  <2>1. CASE u = t /\ a = n
    <3> HIDE DEF now, t
    <3> QED BY <1>2, <1>10, <2>1
  <2>2. CASE a \in leadersByTerm[u]
    <3>1. PICK Q \in SUBSET Node : Elects(Q, u, a)
      BY <2>2 DEF Inv, LeadersAreElected
    <3>2. a \in Node
      BY <1>2, <2>2
    <3> QED BY <1>6, <1>8, <3>1, <3>2, ElectedStays
  <2> QED BY <1>1, <1>2, <2>1, <2>2
<1>12. \A a \in Node : t \in 1..MaxTerm /\ a \in leadersByTerm[t] => a = n
  <2> SUFFICES ASSUME NEW a \in Node, t \in 1..MaxTerm, a \in leadersByTerm[t]
               PROVE  a = n
    OBVIOUS
  <2>1. PICK Q \in SUBSET Node : Elects(Q, t, a)
    BY DEF Inv, LeadersAreElected
  <2>2. Cardinality(Q) >= Majority /\ Cardinality(now) >= Majority
    BY <1>1, <2>1 DEF Elects
  <2>3. Q \cap now # {}
    <3> DEFINE k == Cardinality(Node)
    <3>1. IsFiniteSet(Node) /\ k \in Nat
      BY NodeAssumption, FS_CardinalityType
    <3>2. Cardinality(Q) \in Nat /\ Cardinality(now) \in Nat
      BY <1>2, <3>1, FS_Subset, FS_CardinalityType
    <3>3. 2 * Majority > k /\ Majority \in Nat
      BY <3>1 DEF Majority
    <3>4. Cardinality(Q) + Cardinality(now) > Cardinality(Node)
      BY <2>2, <3>1, <3>2, <3>3
    <3> QED BY <1>2, <3>1, <3>4, FS_MajoritiesIntersect
  <2>4. PICK p \in Q \cap now : TRUE
    BY <2>3
  <2> QED BY <1>2, <1>4, <2>1, <2>4 DEF Elects
<1>13. ElectionSafety'
  <2> SUFFICES ASSUME NEW u \in 1..MaxTerm, NEW a \in leadersByTerm'[u], NEW b \in leadersByTerm'[u]
               PROVE  a = b
    BY <1>1, <1>2 DEF ElectionSafety
  <2>1. CASE u # t
    BY <1>1, <1>2, <2>1 DEF Inv, ElectionSafety
  <2>2. CASE u = t
    <3>1. a \in leadersByTerm[t] \cup {n} /\ b \in leadersByTerm[t] \cup {n}
      BY <1>1, <1>2, <2>2
    <3>2. a = n /\ b = n
      BY <1>2, <1>12, <2>2, <3>1
    <3> QED BY <3>2
  <2> QED BY <2>1, <2>2
<1> QED BY <1>6, <1>8, <1>9, <1>11, <1>13 DEF Inv

------------------------------------------------------------------------------
LEMMA InitInv == Init => Inv
<1> SUFFICES ASSUME Init PROVE Inv
  OBVIOUS
<1>1. Flying = {}
  BY DEF Init, Flying, BagToSet, EmptyBag, SetToBag
<1>2. ElectionTypeOK
  BY <1>1 DEF Init, ElectionTypeOK
<1>3. \A p, b \in Node, t \in Nat : ~Voted(p, t, b)
  BY <1>1, NodeAssumption DEF Init, Voted
<1>4. \A t \in 1..MaxTerm : leadersByTerm[t] = {}
  BY DEF Init
<1> QED BY <1>2, <1>3, <1>4 DEF Inv, VotesAreKept, VotesAreSingle, LeadersAreElected,
                               ElectionSafety, ElectionTypeOK

LEMMA NextInv == Inv /\ [Next]_vars => Inv' /\ VotesGrow
<1> SUFFICES ASSUME Inv, [Next]_vars PROVE Inv' /\ VotesGrow
  OBVIOUS
<1>1. ASSUME NEW n \in Node, StartElection(n) \/ Heartbeat(n) \/ Crash(n) \/ Restart(n)
      PROVE  Inv' /\ VotesGrow
  <2>1. CASE Crash(n)
    <3>1. UNCHANGED <<term, votedFor, role, votes, leadersByTerm>> /\ Flying' = Flying
      BY <2>1 DEF Crash, persistent, Flying
    <3>2. \A x \in Flying' : x \in Flying \/ Plain(x)
      BY <3>1
    <3> QED BY <3>1, <3>2, QuietInv
  <2> QED BY <1>1, <2>1, StartElectionInv, HeartbeatInv, RestartInv
<1>2. ASSUME NEW n \in Node, NEW c \in Command, Submit(n, c) PROVE Inv' /\ VotesGrow
  BY <1>2, SubmitInv
<1>3. ASSUME NEW m \in Flying, Deliver(m) PROVE Inv' /\ VotesGrow
  BY <1>3, HandleRequestVoteInv, HandleVoteReplyInv, WinElectionInv, HandleAppendEntriesInv,
     IgnoreAppendReplyInv, FollowerRepliesInv DEF Deliver
<1>4. CASE UNCHANGED vars
  <2>1. UNCHANGED <<term, votedFor, role, votes, leadersByTerm>> /\ Flying' = Flying
    BY <1>4 DEF vars, persistent, Flying
  <2>2. \A x \in Flying' : x \in Flying \/ Plain(x)
    BY <2>1
  <2> QED BY <2>1, <2>2, QuietInv
<1> QED BY <1>1, <1>2, <1>3, <1>4 DEF Next, Flying

\* At most one leader is ever elected in a term, whatever is lost, delayed or
\* reordered and however nodes crash and restart.
THEOREM AtMostOneLeader == Spec => []ElectionSafety
<1>1. Inv => ElectionSafety
  BY DEF Inv
<1> QED BY InitInv, NextInv, <1>1, PTL DEF Spec

------------------------------------------------------------------------------
(* Maxima and minima *)

\* A set of naturals with an upper bound has a greatest element, and Max is it: the
\* numbers that some element of the set reaches are 0 .. k - 1, k being how many
\* they are, and k - 1 is an element.
LEMMA MaxFacts ==
    ASSUME NEW S, S \subseteq Nat, S # {}, NEW b \in Nat, \A x \in S : x <= b
    PROVE  Max(S) \in S /\ \A x \in S : x <= Max(S)
<1> DEFINE Below == {x \in 0..b : \E s \in S : x <= s}
           k == Cardinality(Below)
<1>1. IsFiniteSet(Below) /\ k \in Nat
  <2>1. Below \in SUBSET (0..b) /\ IsFiniteSet(0..b)
    BY FS_Interval
  <2> HIDE DEF Below
  <2> QED BY <2>1, FS_Subset, FS_CardinalityType
<1>2. S \subseteq Below
  OBVIOUS
<1>3. ASSUME NEW x \in Below PROVE x < k
  <2>1. 0..x \subseteq Below
    OBVIOUS
  <2>2. Cardinality(0..x) <= k
    BY <1>1, <2>1, FS_Subset
  <2>3. Cardinality(0..x) = x + 1
    <3>1. x \in Nat
      OBVIOUS
    <3>2. Cardinality(0..x) = IF 0 > x THEN 0 ELSE x - 0 + 1
      BY <3>1, FS_Interval
    <3> QED BY <3>1, <3>2
  <2> HIDE DEF k
  <2> QED BY <1>1, <2>2, <2>3
<1>4. k > 0
  <2>1. PICK x \in S : TRUE
    OBVIOUS
  <2>2. x \in Below /\ x \in Nat
    BY <1>2
  <2> HIDE DEF Below, k
  <2> QED BY <1>1, <1>3, <2>2
<1>5. Below = 0..(k - 1)
  <2>1. Below \in SUBSET (0..(k - 1))
    <3>1. \A x \in Below : x \in Nat
      OBVIOUS
    <3> HIDE DEF Below, k
    <3> QED BY <1>1, <1>3, <3>1
  <2>2. IsFiniteSet(0..(k - 1)) /\ Cardinality(0..(k - 1)) = k
    <3> HIDE DEF k
    <3>1. k - 1 \in Int /\ ~(0 > k - 1) /\ (k - 1) - 0 + 1 = k
      BY <1>1, <1>4
    <3> QED BY <3>1, FS_Interval
  <2> HIDE DEF Below
  <2> QED BY <2>1, <2>2, FS_Subset
<1>6. PICK s \in S : k - 1 <= s
  <2>1. k - 1 \in Below
    <3> HIDE DEF Below, k
    <3> QED BY <1>1, <1>4, <1>5
  <2> QED BY <2>1
<1>7. \A x \in S : x <= s
  <2> HIDE DEF k
  <2> QED BY <1>1, <1>2, <1>3, <1>6
<1> QED BY <1>7 DEF Max

LEMMA MaxOfTwo ==
    ASSUME NEW x \in Int, NEW y \in Int
    PROVE  Max({x, y}) \in {x, y} /\ x <= Max({x, y}) /\ y <= Max({x, y})
<1>1. \E z \in {x, y} : \A w \in {x, y} : z >= w
  <2>1. CASE x >= y
    BY <2>1
  <2>2. CASE y >= x
    BY <2>2
  <2> QED BY <2>1, <2>2
<1> QED BY <1>1 DEF Max

LEMMA MinOfTwo ==
    ASSUME NEW x \in Int, NEW y \in Int
    PROVE  Min({x, y}) \in {x, y} /\ Min({x, y}) <= x /\ Min({x, y}) <= y
<1>1. \E z \in {x, y} : \A w \in {x, y} : z <= w
  <2>1. CASE x >= y
    BY <2>1
  <2>2. CASE y >= x
    BY <2>2
  <2> QED BY <2>1, <2>2
<1> QED BY <1>1 DEF Min

------------------------------------------------------------------------------
(* Logs *)

Terms == 1..MaxTerm
Entry == [term : Terms, command : Command]

\* L begins with the first i entries of M.
Has(L, M, i) == i <= Len(L) /\ \A j \in 1..i : L[j] = M[j]

LEMMA HasPrefix ==
    ASSUME NEW X, NEW L \in Seq(X), NEW M \in Seq(X), NEW i \in Nat, i <= Len(M)
    PROVE  Has(L, M, i) <=> IsPrefix(SubSeq(M, 1, i), L)
<1> DEFINE S == SubSeq(M, 1, i)
<1>1. S \in Seq(X) /\ Len(S) = i /\ \A j \in 1..i : S[j] = M[j]
  BY SubSeqProperties
<1>2. SubSeq(S, 1, Len(S)) = S
  BY <1>1, SubSeqProperties, SeqEqual
<1>3. CASE i <= Len(L)
  <2> DEFINE R == SubSeq(L, 1, i)
  <2>1. R \in Seq(X) /\ Len(R) = i /\ \A j \in 1..i : R[j] = L[j]
    BY <1>3, SubSeqProperties
  <2>2. S = R <=> \A j \in 1..i : L[j] = M[j]
    <3> HIDE DEF S, R
    <3>1. ASSUME \A j \in 1..i : L[j] = M[j] PROVE S = R
      BY <1>1, <2>1, <3>1, SeqEqual
    <3> QED BY <1>1, <2>1, <3>1
  <2>3. IsPrefix(S, L) <=> S = R
    BY <1>1, <1>2, <1>3 DEF IsPrefix
  <2> QED BY <1>3, <2>2, <2>3 DEF Has
<1>4. CASE ~(i <= Len(L))
  BY <1>1, <1>4 DEF Has, IsPrefix
<1> QED BY <1>3, <1>4

\* One log that is the start of another's leader's.
Matches(lead, L) == \A i \in 1..Len(L) : Has(lead[L[i].term], L, i)

Books == [Terms -> Seq(Entry)]
Acks == [Node -> [Terms -> Nat]]

LEMMA LogTypes ==
    ASSUME NEW L \in Seq(Entry)
    PROVE  /\ Len(L) \in Nat /\ DOMAIN L = 1..Len(L)
           /\ \A i \in 1..Len(L) : L[i] \in Entry /\ L[i].term \in Terms /\ L[i].term \in Nat
<1>1. Len(L) \in Nat /\ DOMAIN L = 1..Len(L)
  BY LenProperties
<1>2. \A i \in 1..Len(L) : L[i] \in Entry
  BY ElementOfSeq
<1>3. \A e \in Entry : e.term \in Terms
  BY DEF Entry
<1>4. \A t \in Terms : t \in Nat
  BY BoundAssumption DEF Terms
<1> QED BY <1>1, <1>2, <1>3, <1>4

\* Two logs with an entry of one term at one index agree up to there.
LEMMA LogMatching ==
    ASSUME NEW lead \in Books, NEW L \in Seq(Entry), NEW M \in Seq(Entry),
           Matches(lead, L), Matches(lead, M),
           NEW i \in 1..Len(L), i <= Len(M), L[i].term = M[i].term
    PROVE  Has(L, M, i) /\ Has(M, L, i)
<1>1. i \in 1..Len(M) /\ Len(L) \in Nat /\ Len(M) \in Nat
  BY LogTypes
<1>2. Has(lead[L[i].term], L, i) /\ Has(lead[L[i].term], M, i)
  BY <1>1 DEF Matches
<1> QED BY <1>1, <1>2 DEF Has

\* entries is a fragment of the log "whole", whose start "mine" has.
Continues(mine, whole, prev, entries) ==
    /\ prev + Len(entries) <= Len(whole)
    /\ \A k \in 1..Len(entries) : entries[k] = whole[prev + k]
    /\ Has(mine, whole, prev)
    /\ \A i \in 1..Len(mine) : i <= Len(whole) /\ mine[i].term = whole[i].term
                                 => Has(mine, whole, i)

\* What a follower makes of such a fragment.
LEMMA MergedFacts ==
    ASSUME NEW mine \in Seq(Entry), NEW whole \in Seq(Entry), NEW entries \in Seq(Entry),
           NEW prev \in Nat, Continues(mine, whole, prev, entries),
           NEW last, last = prev + Len(entries),
           NEW new, new = Merged(mine, prev, entries)
    PROVE  /\ new \in Seq(Entry) /\ Has(new, whole, last)
           /\ new = mine \/ Len(new) = last
           /\ \A i \in Nat : i <= Len(whole) /\ Has(mine, whole, i) => Has(new, whole, i)
<1>0. /\ last <= Len(whole) /\ Has(mine, whole, prev)
      /\ \A k \in 1..Len(entries) : entries[k] = whole[prev + k]
      /\ \A i \in 1..Len(mine) : i <= Len(whole) /\ mine[i].term = whole[i].term
                                   => Has(mine, whole, i)
  BY DEF Continues
<1> DEFINE S == {k \in 0..Len(entries) :
                   /\ prev + k <= Len(mine)
                   /\ \A i \in 1..k : mine[prev + i].term = entries[i].term}
           g == Max(S)
<1>1. Len(mine) \in Nat /\ Len(whole) \in Nat /\ Len(entries) \in Nat /\ last \in Nat
      /\ prev <= Len(mine)
  BY <1>0, LogTypes DEF Has
<1>2. S \subseteq Nat /\ 0 \in S /\ \A k \in S : k <= Len(entries)
  BY <1>1
<1>3. g \in S /\ \A k \in S : k <= g
  <2> HIDE DEF S
  <2> QED BY <1>1, <1>2, MaxFacts
<1>4. g \in 0..Len(entries) /\ prev + g <= Len(mine)
      /\ \A i \in 1..g : mine[prev + i].term = entries[i].term
  BY <1>3
<1>5. g < Len(entries) => \/ Len(mine) = prev + g
                          \/ mine[prev + (g + 1)].term # entries[g + 1].term
  <2> SUFFICES ASSUME g < Len(entries), Len(mine) # prev + g,
                      mine[prev + (g + 1)].term = entries[g + 1].term
               PROVE  FALSE
    OBVIOUS
  <2> HIDE DEF g
  <2>1. g \in Nat /\ g + 1 \in 0..Len(entries) /\ prev + (g + 1) <= Len(mine)
    BY <1>1, <1>4
  <2>2. ASSUME NEW i \in 1..(g + 1) PROVE mine[prev + i].term = entries[i].term
    <3>1. i \in 1..g \/ i = g + 1
      BY <2>1
    <3> QED BY <1>4, <3>1
  <2>3. ASSUME NEW h, h = g + 1 PROVE h \in S
    <3>1. h \in 0..Len(entries) /\ prev + h <= Len(mine)
      BY <2>1, <2>3
    <3>2. \A i \in 1..h : mine[prev + i].term = entries[i].term
      BY <2>2, <2>3
    <3> HIDE <2>3
    <3> QED BY <3>1, <3>2
  <2>4. g + 1 \in S
    BY <2>3
  <2> HIDE DEF S
  <2> QED BY <1>3, <2>1, <2>4
<1>6. new = IF g = Len(entries) THEN mine
            ELSE SubSeq(mine, 1, prev + g) \o SubSeq(entries, g + 1, Len(entries))
  BY DEF Merged
<1> HIDE DEF g, S
<1>7. Has(mine, whole, prev + g)
  <2>1. CASE g = 0
    BY <1>0, <2>1
  <2>2. CASE g > 0
    <3>1. prev + g \in 1..Len(mine) /\ prev + g <= Len(whole) /\ g \in 1..Len(entries) /\ g \in 1..g
      BY <1>0, <1>1, <1>4, <2>2
    <3>2. mine[prev + g].term = entries[g].term /\ entries[g] = whole[prev + g]
      BY <1>0, <1>4, <3>1
    <3> QED BY <1>0, <3>1, <3>2
  <2> QED BY <1>0, <1>4, <2>1, <2>2
<1>8. CASE g = Len(entries)
  BY <1>0, <1>6, <1>7, <1>8
<1>9. CASE g # Len(entries)
  <2> DEFINE A == SubSeq(mine, 1, prev + g)
             B == SubSeq(entries, g + 1, Len(entries))
  <2>1. A \in Seq(Entry) /\ Len(A) = prev + g /\ \A j \in 1..(prev + g) : A[j] = mine[j]
    BY <1>1, <1>4, SubSeqProperties
  <2>2. B \in Seq(Entry) /\ Len(B) = Len(entries) - g /\ \A j \in 1..(Len(entries) - g) : B[j] = entries[g + j]
    BY <1>1, <1>4, <1>9, SubSeqProperties
  <2>3. new = A \o B
    BY <1>6, <1>9
  <2> HIDE DEF A, B
  <2>4. /\ new \in Seq(Entry) /\ Len(new) = last
        /\ \A j \in 1..last : new[j] = IF j <= prev + g THEN A[j] ELSE B[j - (prev + g)]
    <3>1. Len(A) + Len(B) = last
      BY <1>1, <1>4, <2>1, <2>2
    <3>2. /\ A \o B \in Seq(Entry) /\ Len(A \o B) = Len(A) + Len(B)
          /\ \A j \in 1..(Len(A) + Len(B)) : (A \o B)[j] = IF j <= Len(A) THEN A[j] ELSE B[j - Len(A)]
      <4>1. A \in Seq(Entry) /\ B \in Seq(Entry)
        BY <2>1, <2>2
      <4> QED BY <4>1, ConcatProperties
    <3> QED BY <2>1, <2>3, <3>1, <3>2
  <2>5. Has(new, whole, last)
    <3>0. last <= Len(new)
      BY <1>1, <2>4
    <3> SUFFICES ASSUME NEW j \in 1..last PROVE new[j] = whole[j]
      BY <3>0 DEF Has
    <3>1. CASE j <= prev + g
      <4>1. j \in 1..(prev + g)
        BY <1>1, <1>4, <3>1
      <4>2. new[j] = mine[j]
        BY <2>1, <2>4, <3>1, <4>1
      <4> QED BY <1>7, <4>1, <4>2 DEF Has
    <3>2. CASE ~(j <= prev + g)
      <4>1. j - (prev + g) \in 1..(Len(entries) - g) /\ g + (j - (prev + g)) = j - prev
            /\ j - prev \in 1..Len(entries) /\ prev + (j - prev) = j
        BY <1>1, <1>4, <3>2
      <4>2. new[j] = B[j - (prev + g)]
        BY <2>4, <3>2
      <4> QED BY <1>0, <2>2, <4>1, <4>2
    <3> QED BY <3>1, <3>2
  <2>6. ASSUME NEW i \in Nat, i <= Len(whole), Has(mine, whole, i)
        PROVE  Has(new, whole, i)
    <3>1. i <= last
      <4>1. CASE Len(mine) = prev + g
        BY <1>1, <1>4, <2>6, <4>1 DEF Has
      <4>2. CASE mine[prev + (g + 1)].term # entries[g + 1].term
        <5>1. g + 1 \in 1..Len(entries) /\ prev + (g + 1) \in Nat /\ prev + (g + 1) <= last
          BY <1>1, <1>4, <1>9
        <5>2. entries[g + 1] = whole[prev + (g + 1)]
          BY <1>0, <5>1
        <5>3. ~(prev + (g + 1) \in 1..i)
          BY <2>6, <4>2, <5>2 DEF Has
        <5> QED BY <1>1, <1>4, <5>1, <5>3
      <4> QED BY <1>4, <1>5, <1>9, <4>1, <4>2, <1>1
    <3> QED BY <1>1, <2>4, <2>5, <3>1 DEF Has
  <2> QED BY <2>4, <2>5, <2>6
<1> QED BY <1>8, <1>9

------------------------------------------------------------------------------
(* The history of the logs, which no variable keeps: lead[t] is the log of the    *)
(* leader of term t when last seen, ack[p][t] how much of it p has stored in       *)
(* term t.  The invariant says that there is such a history.                       *)

Elected(t) == leadersByTerm[t] # {}
Quorums == {Q \in SUBSET Node : Cardinality(Q) >= Majority}

\* A leader's log is made of what leaders of earlier terms wrote, and of its own.
LedOK(lead) ==
    \A t \in Terms :
        /\ Len(lead[t]) <= MaxLog
        /\ lead[t] # <<>> => Elected(t)
        /\ Matches(lead, lead[t])
        /\ \A i \in 1..Len(lead[t]) : lead[t][i].term <= t
        /\ \A i, j \in 1..Len(lead[t]) : i <= j => lead[t][i].term <= lead[t][j].term

LogsOK(lead) ==
    /\ log \in [Node -> Seq(Entry)]
    /\ \A n \in Node : Matches(lead, log[n]) /\ \A i \in 1..Len(log[n]) : log[n][i].term <= term[n]

\* A candidate has not won its term, and a leader has; what it knows of its
\* followers they have acknowledged.
CandidatesOK ==
    /\ \A t \in Terms : \A n \in leadersByTerm[t] : t <= term[n]
    /\ \A n \in Node : role[n] = Candidate => term[n] \in Terms /\ n \notin leadersByTerm[term[n]]

LeaderOK(lead, ack, n) ==
    /\ term[n] \in Terms /\ n \in leadersByTerm[term[n]]
    /\ log[n] = lead[term[n]] /\ ack[n][term[n]] = Len(log[n])
    /\ \A p \in Peers(n) : /\ nextIndex[n][p] <= Len(log[n]) + 1
                           /\ matchIndex[n][p] <= ack[p][term[n]]
LeadersOK(lead, ack) == \A n \in Node : role[n] = Leader => LeaderOK(lead, ack, n)

\* A majority has entry i of the log of term t, written in term t.
Chosen(lead, ack, t, i) ==
    /\ i \in 1..Len(lead[t]) /\ lead[t][i].term = t
    /\ \E Q \in Quorums : \A p \in Q : ack[p][t] >= i

\* The first c entries of L are in what was chosen by term u.
Decided(lead, ack, L, c, u) ==
    c = 0 \/ \E t \in Terms, i \in Nat :
               t <= u /\ c <= i /\ Chosen(lead, ack, t, i) /\ Has(L, lead[t], c)

\* What is said in a message is still so.
RequestVoteOK(m) ==
    /\ m.term <= term[m.src]
    /\ m.content.lastIndex \in Nat /\ m.content.lastTerm \in Nat
    /\ term[m.src] = m.term /\ role[m.src] = Candidate =>
          m.content.lastIndex = Len(log[m.src]) /\ m.content.lastTerm = LastLogTerm(m.src)

AppendEntriesOK(lead, ack, m) ==
    LET prev == m.content.prevIndex
        sent == m.content.entries
        whole == lead[m.term]
    IN  /\ Elected(m.term)
        /\ prev \in Nat /\ m.content.commit \in Nat /\ sent \in Seq(Entry)
        /\ prev + Len(sent) <= Len(whole)
        /\ m.content.prevTerm = TermAt(whole, prev)
        /\ \A k \in 1..Len(sent) : sent[k] = whole[prev + k]
        /\ m.content.commit <= Len(whole)
        /\ Decided(lead, ack, whole, m.content.commit, m.term)

AppendReplyOK(ack, m) ==
    m.content.success => m.content.match \in Nat /\ m.content.match <= ack[m.src][m.term]

TellsTruth(lead, ack, m) ==
    /\ m.term \in Terms /\ m.src # m.dst
    /\ m.type = "RequestVote" => RequestVoteOK(m)
    /\ m.type = "AppendEntries" => AppendEntriesOK(lead, ack, m)
    /\ m.type = "AppendReply" => AppendReplyOK(ack, m)
FlyingOK(lead, ack) == \A m \in Flying : TellsTruth(lead, ack, m)

\* A leader of a term between t and u does not have the first i entries of lead[t].
Overruled(lead, t, i, u) ==
    \E w \in Terms : t < w /\ w <= u /\ Elected(w) /\ ~Has(lead[w], lead[t], i)

\* What p has acknowledged it keeps until a later leader overrules it.
KeptOK(lead, ack, p) ==
    \A t \in Terms :
       /\ ack[p][t] <= Len(lead[t]) /\ (t > term[p] => ack[p][t] = 0)
       /\ \A i \in 1..ack[p][t] : Has(log[p], lead[t], i) \/ Overruled(lead, t, i, term[p])

\* A vote that may still elect c in term u: c has what the voter had acknowledged.
Counts(p, u, c) == Voted(p, u, c) /\ term[c] = u /\ role[c] = Candidate /\ ~Elected(u)
VoteOK(lead, ack, p, u, c) ==
    \A t \in Terms : t < u => \A i \in 1..ack[p][t] : lead[t][i].term = t =>
        Has(log[c], lead[t], i) \/ Overruled(lead, t, i, u - 1)
VotesOK(lead, ack) ==
    \A p, c \in Node, u \in Terms : /\ Voted(p, u, c) => u <= term[c]
                                    /\ Counts(p, u, c) => VoteOK(lead, ack, p, u, c)

\* A leader has what was, or may yet be, chosen in an earlier term.
SafeOK(lead, ack, u) ==
    \A t \in Terms : t < u => \A i \in 1..Len(lead[t]) : lead[t][i].term = t =>
        \/ Has(lead[u], lead[t], i)
        \/ \E Q \in Quorums : \A p \in Q : term[p] > t /\ ack[p][t] < i

CommitOK(lead, ack, n) ==
    commitIndex[n] <= Len(log[n]) /\ Decided(lead, ack, log[n], commitIndex[n], term[n])

History(lead, ack) ==
    /\ LedOK(lead) /\ LogsOK(lead) /\ LeadersOK(lead, ack) /\ FlyingOK(lead, ack)
    /\ \A p \in Node : KeptOK(lead, ack, p) /\ CommitOK(lead, ack, p)
    /\ VotesOK(lead, ack)
    /\ \A u \in Terms : Elected(u) => SafeOK(lead, ack, u)

\* The inductive invariant.
RaftInv ==
    /\ Inv /\ CandidatesOK /\ TypeOK
    /\ DOMAIN commitIndex = Node /\ DOMAIN nextIndex = Node /\ DOMAIN matchIndex = Node
    /\ \E lead \in Books, ack \in Acks : History(lead, ack)

------------------------------------------------------------------------------
(* How the history of the logs goes on *)

\* The leader of a term only appends, and entries of its term; a node
\* acknowledges for the term it is in.
Grows(lead, ack, lead2, ack2) ==
    /\ \A t \in Terms :
          /\ Has(lead2[t], lead[t], Len(lead[t]))
          /\ Elected(t) => /\ leadersByTerm'[t] # {}
                           /\ \A i \in 1..Len(lead2[t]) : i > Len(lead[t]) => lead2[t][i].term = t
    /\ \A p \in Node :
          /\ term[p] <= term'[p]
          /\ \A t \in Terms : /\ ack[p][t] <= ack2[p][t]
                              /\ t # term'[p] => ack2[p][t] = ack[p][t]

Step(lead, ack, lead2, ack2) ==
    /\ lead \in Books /\ ack \in Acks /\ lead2 \in Books /\ ack2 \in Acks
    /\ Inv /\ CandidatesOK /\ TypeOK /\ History(lead, ack)
    /\ Inv' /\ VotesGrow /\ Grows(lead, ack, lead2, ack2)

LEMMA BookFacts ==
    ASSUME NEW lead \in Books, NEW t \in Terms
    PROVE  /\ t \in Nat /\ lead[t] \in Seq(Entry) /\ Len(lead[t]) \in Nat
           /\ \A i \in 1..Len(lead[t]) : lead[t][i] \in Entry /\ lead[t][i].term \in Terms
                                         /\ lead[t][i].term \in Nat
<1>1. lead[t] \in Seq(Entry)
  BY DEF Books
<1>2. t \in Nat
  BY BoundAssumption DEF Terms
<1> QED BY <1>1, <1>2, LogTypes

LEMMA TermFacts ==
    ASSUME TypeOK, NEW p \in Node
    PROVE  term[p] \in Nat /\ (term[p] > 0 => term[p] \in Terms)
  BY BoundAssumption DEF TypeOK, Terms

LEMMA AckFacts ==
    ASSUME NEW ack \in Acks, NEW p \in Node, NEW t \in Terms
    PROVE  ack[p][t] \in Nat
  BY DEF Acks

\* The history is not rewritten.
LEMMA EntryStays ==
    ASSUME NEW lead, NEW ack, NEW lead2, NEW ack2, Step(lead, ack, lead2, ack2),
           NEW t \in Terms, NEW i \in 1..Len(lead[t])
    PROVE  i \in 1..Len(lead2[t]) /\ lead2[t][i] = lead[t][i]
<1>1. Has(lead2[t], lead[t], Len(lead[t]))
  BY DEF Step, Grows
<1>2. Len(lead[t]) \in Nat /\ Len(lead2[t]) \in Nat
  BY BookFacts DEF Step
<1> QED BY <1>1, <1>2 DEF Has

LEMMA HasStays ==
    ASSUME NEW lead, NEW ack, NEW lead2, NEW ack2, Step(lead, ack, lead2, ack2),
           NEW t \in Terms, NEW i \in Nat, i <= Len(lead[t]), NEW L
    PROVE  /\ i <= Len(lead2[t])
           /\ Has(L, lead[t], i) <=> Has(L, lead2[t], i)
<1>1. Has(lead2[t], lead[t], Len(lead[t]))
  BY DEF Step, Grows
<1>2. Len(lead[t]) \in Nat /\ Len(lead2[t]) \in Nat
  BY BookFacts DEF Step
<1> QED BY <1>1, <1>2 DEF Has

\* A later leader that lacks an entry never gets it.
LEMMA LackStays ==
    ASSUME NEW lead, NEW ack, NEW lead2, NEW ack2, Step(lead, ack, lead2, ack2),
           NEW t \in Terms, NEW w \in Terms, t < w, Elected(w),
           NEW i \in 1..Len(lead[t]), ~Has(lead[w], lead[t], i)
    PROVE  ~Has(lead2[w], lead2[t], i)
<1> SUFFICES ASSUME Has(lead2[w], lead2[t], i) PROVE FALSE
  OBVIOUS
<1>1. /\ Len(lead[t]) \in Nat /\ Len(lead2[t]) \in Nat /\ Len(lead[w]) \in Nat /\ Len(lead2[w]) \in Nat
      /\ t \in Nat /\ w \in Nat
  BY BookFacts DEF Step
<1>2. Has(lead2[t], lead[t], Len(lead[t])) /\ Has(lead2[w], lead[w], Len(lead[w]))
  BY DEF Step, Grows
<1>3. Has(lead2[w], lead[t], i)
  BY <1>1, HasStays
<1>4. CASE i <= Len(lead[w])
  BY <1>1, <1>2, <1>3, <1>4 DEF Has
<1>5. CASE i > Len(lead[w])
  <2>1. i \in 1..Len(lead2[w]) /\ lead2[w][i] = lead[t][i]
    BY <1>1, <1>3 DEF Has
  <2>2. lead2[w][i].term = w
    BY <1>5, <2>1 DEF Step, Grows
  <2>3. lead[t][i].term <= t
    BY DEF Step, History, LedOK
  <2> QED BY <1>1, <2>1, <2>2, <2>3
<1> QED BY <1>1, <1>4, <1>5

LEMMA OverruledStays ==
    ASSUME NEW lead, NEW ack, NEW lead2, NEW ack2, Step(lead, ack, lead2, ack2),
           NEW t \in Terms, NEW i \in 1..Len(lead[t]), NEW u \in Int, NEW v \in Int, u <= v,
           Overruled(lead, t, i, u)
    PROVE  Overruled(lead2, t, i, v)'
<1>1. PICK w \in Terms : t < w /\ w <= u /\ Elected(w) /\ ~Has(lead[w], lead[t], i)
  BY DEF Overruled
<1>2. leadersByTerm'[w] # {}
  BY <1>1 DEF Step, Grows
<1>3. ~Has(lead2[w], lead2[t], i)
  BY <1>1, LackStays
<1>4. w <= v
  BY <1>1, BookFacts DEF Step
<1> QED BY <1>1, <1>2, <1>3, <1>4 DEF Overruled, Elected

LEMMA ChosenStays ==
    ASSUME NEW lead, NEW ack, NEW lead2, NEW ack2, Step(lead, ack, lead2, ack2),
           NEW t \in Terms, NEW i, Chosen(lead, ack, t, i)
    PROVE  Chosen(lead2, ack2, t, i)
<1>1. i \in 1..Len(lead[t]) /\ lead[t][i].term = t
  BY DEF Chosen
<1>2. PICK Q \in Quorums : \A p \in Q : ack[p][t] >= i
  BY DEF Chosen
<1>3. Len(lead[t]) \in Nat /\ Len(lead2[t]) \in Nat
  BY BookFacts DEF Step
<1>4. i \in 1..Len(lead2[t]) /\ lead2[t][i].term = t
  BY <1>1, EntryStays
<1>5. \A p \in Q : ack2[p][t] >= i
  <2> SUFFICES ASSUME NEW p \in Q PROVE ack2[p][t] >= i
    OBVIOUS
  <2>1. p \in Node
    BY DEF Quorums
  <2>2. ack[p][t] <= ack2[p][t] /\ ack[p][t] >= i
    BY <1>2, <2>1 DEF Step, Grows
  <2>3. ack[p][t] \in Nat /\ ack2[p][t] \in Nat
    BY <2>1, AckFacts DEF Step
  <2> QED BY <1>1, <1>3, <2>2, <2>3
<1> QED BY <1>4, <1>5 DEF Chosen

LEMMA DecidedStays ==
    ASSUME NEW lead, NEW ack, NEW lead2, NEW ack2, Step(lead, ack, lead2, ack2),
           NEW L, NEW c \in Nat, NEW u \in Int, NEW v \in Int, u <= v,
           Decided(lead, ack, L, c, u), NEW M, Has(M, L, c)
    PROVE  Decided(lead2, ack2, M, c, v)
<1>1. CASE c = 0
  BY <1>1 DEF Decided
<1>2. CASE c # 0
  <2>1. PICK t \in Terms, i \in Nat : t <= u /\ c <= i /\ Chosen(lead, ack, t, i) /\ Has(L, lead[t], c)
    BY <1>2 DEF Decided
  <2>2. Chosen(lead2, ack2, t, i)
    BY <2>1, ChosenStays
  <2>3. t \in Nat /\ i <= Len(lead[t]) /\ Len(lead[t]) \in Nat
    BY <2>1, BookFacts DEF Chosen, Step
  <2>4. Has(M, lead[t], c)
    BY <2>1 DEF Has
  <2>5. Has(M, lead2[t], c)
    <3>1. c <= Len(lead[t])
      BY <2>1, <2>3
    <3> QED BY <2>4, <3>1, HasStays
  <2>6. t <= v /\ c <= i
    BY <2>1, <2>3
  <2>7. \E s \in Terms, j \in Nat :
           s <= v /\ c <= j /\ Chosen(lead2, ack2, s, j) /\ Has(M, lead2[s], c)
    BY <2>2, <2>5, <2>6
  <2> QED BY <2>7 DEF Decided
<1> QED BY <1>1, <1>2

\* What nodes have acknowledged stays acknowledged and kept, if their logs stay.
LEMMA KeptStays ==
    ASSUME NEW lead, NEW ack, NEW lead2, NEW ack2, Step(lead, ack, lead2, ack2),
           NEW p \in Node, log'[p] = log[p], ack2[p] = ack[p]
    PROVE  KeptOK(lead2, ack2, p)'
<1> SUFFICES ASSUME NEW t \in Terms
             PROVE  /\ ack[p][t] <= Len(lead2[t]) /\ (t > term'[p] => ack[p][t] = 0)
                    /\ \A i \in 1..ack[p][t] : \/ Has(log[p], lead2[t], i)
                                               \/ Overruled(lead2, t, i, term[p])'
  BY DEF KeptOK
<1>1. /\ Len(lead[t]) \in Nat /\ Len(lead2[t]) \in Nat /\ ack[p][t] \in Nat /\ t \in Nat
      /\ term[p] \in Nat /\ term'[p] \in Int
  BY BookFacts, TermFacts, AckFacts DEF Step, Inv, ElectionTypeOK
<1>2. ack[p][t] <= Len(lead[t]) /\ (t > term[p] => ack[p][t] = 0) /\ term[p] <= term'[p]
  BY DEF Step, History, KeptOK, Grows
<1>3. Len(lead[t]) <= Len(lead2[t])
  BY <1>1 DEF Step, Grows, Has
<1>4. ASSUME NEW i \in 1..ack[p][t]
      PROVE  Has(log[p], lead2[t], i) \/ Overruled(lead2, t, i, term[p])'
  <2>1. i \in 1..Len(lead[t]) /\ i \in Nat
    BY <1>1, <1>2
  <2>2. CASE Has(log[p], lead[t], i)
    BY <1>1, <2>1, <2>2, HasStays
  <2>3. CASE Overruled(lead, t, i, term[p])
    <3>1. \A v \in Int : term[p] <= v => Overruled(lead2, t, i, v)'
      BY <1>1, <2>1, <2>3, OverruledStays
    <3> QED BY <1>1, <1>2, <3>1 DEF Overruled
  <2> QED BY <2>2, <2>3 DEF Step, History, KeptOK
<1> QED BY <1>1, <1>2, <1>3, <1>4

\* A vote that counted and still counts.
LEMMA VoteStays ==
    ASSUME NEW lead, NEW ack, NEW lead2, NEW ack2, Step(lead, ack, lead2, ack2),
           NEW p \in Node, NEW c \in Node, NEW u \in Terms, Counts(p, u, c), log'[c] = log[c]
    PROVE  VoteOK(lead2, ack2, p, u, c)'
<1> SUFFICES ASSUME NEW t \in Terms, t < u, NEW i \in 1..ack2[p][t], lead2[t][i].term = t
             PROVE  Has(log[c], lead2[t], i) \/ Overruled(lead2, t, i, u - 1)'
  BY DEF VoteOK
<1>1. /\ Len(lead[t]) \in Nat /\ ack[p][t] \in Nat /\ t \in Nat /\ u \in Nat
      /\ term[p] \in Nat /\ term'[p] \in Nat
  BY BookFacts, TermFacts, AckFacts DEF Step, Inv, ElectionTypeOK
<1>2. Keeps(p, u, c)
  BY <1>1 DEF Step, Inv, VotesAreKept, Counts
<1>3. u <= term[p] /\ term[p] <= term'[p]
  BY <1>1, <1>2 DEF Keeps, Step, Grows
<1>4. ack2[p][t] = ack[p][t] /\ ack[p][t] <= Len(lead[t])
  BY <1>1, <1>3 DEF Step, Grows, History, KeptOK
<1>5. i \in 1..Len(lead[t]) /\ i \in Nat
  BY <1>1, <1>4
<1>6. lead[t][i].term = t
  BY <1>5, EntryStays
<1>7. VoteOK(lead, ack, p, u, c)
  BY DEF Step, History, VotesOK
<1>8. CASE Has(log[c], lead[t], i)
  BY <1>1, <1>5, <1>8, HasStays
<1>9. CASE Overruled(lead, t, i, u - 1)
  BY <1>1, <1>5, <1>9, OverruledStays
<1> QED BY <1>4, <1>6, <1>7, <1>8, <1>9 DEF VoteOK

\* What is chosen in no earlier term stays so.
LEMMA SafeStays ==
    ASSUME NEW lead, NEW ack, NEW lead2, NEW ack2, Step(lead, ack, lead2, ack2),
           NEW u \in Terms, Elected(u), LedOK(lead2)'
    PROVE  SafeOK(lead2, ack2, u)'
<1> SUFFICES ASSUME NEW t \in Terms, t < u, NEW i \in 1..Len(lead2[t]), lead2[t][i].term = t
             PROVE  \/ Has(lead2[u], lead2[t], i)
                    \/ \E Q \in Quorums : \A p \in Q : term'[p] > t /\ ack2[p][t] < i
  BY DEF SafeOK
<1>1. /\ t \in Nat /\ u \in Nat /\ Len(lead[t]) \in Nat /\ Len(lead2[t]) \in Nat
      /\ Len(lead[u]) \in Nat /\ Len(lead2[u]) \in Nat /\ i \in Nat
  BY BookFacts DEF Step
<1>2. ASSUME NEW Q \in Quorums, \A p \in Q : term[p] > t /\ ack[p][t] < i
      PROVE  \A p \in Q : term'[p] > t /\ ack2[p][t] < i
  <2> SUFFICES ASSUME NEW p \in Q PROVE term'[p] > t /\ ack2[p][t] < i
    OBVIOUS
  <2>1. p \in Node
    BY DEF Quorums
  <2>2. term[p] \in Nat /\ term'[p] \in Nat /\ term[p] <= term'[p]
    BY <2>1 DEF Step, Inv, ElectionTypeOK, Grows
  <2>3. term'[p] > t
    BY <1>1, <1>2, <2>2
  <2>4. ack2[p][t] = ack[p][t]
    BY <1>1, <2>1, <2>2, <2>3 DEF Step, Grows
  <2> QED BY <1>2, <2>3, <2>4
<1>3. CASE i <= Len(lead[t])
  <2>1. i \in 1..Len(lead[t]) /\ lead[t][i].term = t
    BY <1>1, <1>3, EntryStays
  <2>2. SafeOK(lead, ack, u)
    BY DEF Step, History
  <2>3. CASE Has(lead[u], lead[t], i)
    <3>1. Has(lead2[u], lead[u], Len(lead[u]))
      BY DEF Step, Grows
    <3>2. /\ Len(lead[u]) <= Len(lead2[u])
          /\ \A j \in 1..Len(lead[u]) : lead2[u][j] = lead[u][j]
      BY <3>1 DEF Has
    <3>3. i <= Len(lead[u]) /\ \A j \in 1..i : lead[u][j] = lead[t][j]
      BY <2>3 DEF Has
    <3>4. Has(lead2[u], lead[t], i)
      <4>1. ASSUME NEW j \in 1..i PROVE lead2[u][j] = lead[t][j]
        <5>1. j \in 1..Len(lead[u])
          BY <1>1, <3>3
        <5> QED BY <3>2, <3>3, <5>1
      <4>2. i <= Len(lead2[u])
        BY <1>1, <3>2, <3>3
      <4> QED BY <4>1, <4>2 DEF Has
    <3> QED BY <1>1, <1>3, <3>4, HasStays
  <2>4. CASE \E Q \in Quorums : \A p \in Q : term[p] > t /\ ack[p][t] < i
    BY <1>2, <2>4
  <2> QED BY <2>1, <2>2, <2>3, <2>4 DEF SafeOK
<1>4. CASE i > Len(lead[t])
  <2>1. PICK a \in leadersByTerm[u] : TRUE
    BY DEF Elected
  <2>2. PICK Q \in SUBSET Node : Elects(Q, u, a)
    BY DEF Step, Inv, LeadersAreElected, Terms
  <2>3. Q \in Quorums
    BY <2>2 DEF Elects, Quorums
  <2>4. ASSUME NEW p \in Q PROVE term[p] > t /\ ack[p][t] < i
    <3>1. p \in Node /\ Keeps(p, u, a)
      BY <2>2 DEF Elects
    <3>2. term[p] \in Nat /\ ack[p][t] \in Nat
      BY <3>1, TermFacts, AckFacts DEF Step
    <3>3. ack[p][t] <= Len(lead[t])
      BY <3>1 DEF Step, History, KeptOK
    <3> QED BY <1>1, <1>4, <3>1, <3>2, <3>3 DEF Keeps
  <2> QED BY <1>2, <2>3, <2>4
<1> QED BY <1>1, <1>3, <1>4

\* A candidate has its log and its term, unless it has just begun.
CandidatesStay ==
    \A c \in Node : role'[c] = Candidate =>
        \/ term'[c] > term[c]
        \/ role[c] = Candidate /\ term'[c] = term[c] /\ log'[c] = log[c]

\* A message stays true.
LEMMA TellsStays ==
    ASSUME NEW lead, NEW ack, NEW lead2, NEW ack2, Step(lead, ack, lead2, ack2),
           NEW m \in Flying, CandidatesStay
    PROVE  TellsTruth(lead2, ack2, m)'
<1>1. /\ TellsTruth(lead, ack, m) /\ m.src \in Node /\ m.dst \in Node /\ m.term \in Terms
      /\ m.term \in Nat /\ m.src # m.dst
  BY BoundAssumption DEF Step, History, FlyingOK, Inv, ElectionTypeOK, MessageOK, TellsTruth, Terms
<1>2. term[m.src] \in Nat /\ term'[m.src] \in Nat /\ term[m.src] <= term'[m.src]
  BY <1>1 DEF Step, Inv, ElectionTypeOK, Grows
<1>3. CASE m.type = "RequestVote"
  <2>1. RequestVoteOK(m)
    BY <1>1, <1>3 DEF TellsTruth
  <2>2. RequestVoteOK(m)'
    BY <1>1, <1>2, <2>1 DEF RequestVoteOK, LastLogTerm, LastLogIndex, CandidatesStay
  <2> QED BY <1>1, <1>3, <2>2 DEF TellsTruth
<1>4. CASE m.type = "AppendEntries"
  <2> DEFINE t == m.term
             prev == m.content.prevIndex
             sent == m.content.entries
  <2>1. AppendEntriesOK(lead, ack, m)
    BY <1>1, <1>4 DEF TellsTruth
  <2>2. /\ Elected(t) /\ prev \in Nat /\ m.content.commit \in Nat /\ sent \in Seq(Entry)
        /\ prev + Len(sent) <= Len(lead[t])
        /\ m.content.prevTerm = TermAt(lead[t], prev)
        /\ \A k \in 1..Len(sent) : sent[k] = lead[t][prev + k]
        /\ m.content.commit <= Len(lead[t])
        /\ Decided(lead, ack, lead[t], m.content.commit, t)
    BY <2>1 DEF AppendEntriesOK
  <2> HIDE DEF t, prev, sent
  <2>3. t \in Terms /\ t \in Nat
    BY <1>1 DEF t
  <2>4. Len(sent) \in Nat /\ Len(lead[t]) \in Nat /\ Len(lead2[t]) \in Nat
    BY <2>2, <2>3, LogTypes, BookFacts DEF Step
  <2>5. leadersByTerm'[t] # {} /\ Has(lead2[t], lead[t], Len(lead[t]))
    BY <2>2, <2>3 DEF Step, Grows
  <2>6. prev + Len(sent) <= Len(lead2[t]) /\ m.content.commit <= Len(lead2[t])
    BY <2>2, <2>4, <2>5 DEF Has
  <2>7. m.content.prevTerm = TermAt(lead2[t], prev)
    <3>1. prev > 0 => prev \in 1..Len(lead[t])
      BY <2>2, <2>4
    <3> QED BY <2>2, <2>3, <3>1, EntryStays DEF TermAt
  <2>8. ASSUME NEW k \in 1..Len(sent) PROVE sent[k] = lead2[t][prev + k]
    <3>1. prev + k \in 1..Len(lead[t])
      BY <2>2, <2>4
    <3> QED BY <2>2, <2>3, <3>1, EntryStays
  <2>9. Has(lead2[t], lead[t], m.content.commit)
    BY <2>2, <2>4, <2>5 DEF Has
  <2>10. Decided(lead2, ack2, lead2[t], m.content.commit, t)
    BY <2>2, <2>3, <2>9, DecidedStays
  <2>11. AppendEntriesOK(lead2, ack2, m)'
    BY <2>2, <2>5, <2>6, <2>7, <2>8, <2>10 DEF AppendEntriesOK, t, prev, sent, Elected
  <2> QED BY <1>1, <1>4, <2>11 DEF TellsTruth
<1>5. CASE m.type = "AppendReply"
  <2>1. ack[m.src][m.term] \in Nat /\ ack2[m.src][m.term] \in Nat
        /\ ack[m.src][m.term] <= ack2[m.src][m.term]
    BY <1>1, AckFacts DEF Step, Grows
  <2>2. AppendReplyOK(ack2, m)
    BY <1>1, <1>5, <2>1 DEF TellsTruth, AppendReplyOK
  <2> QED BY <1>1, <1>5, <2>2 DEF TellsTruth
<1>6. CASE m.type \notin {"RequestVote", "AppendEntries", "AppendReply"}
  BY <1>1, <1>6 DEF TellsTruth
<1> QED BY <1>3, <1>4, <1>5, <1>6

\* A vote cast before the step.
LEMMA OldVote ==
    ASSUME NEW lead, NEW ack, NEW lead2, NEW ack2, Step(lead, ack, lead2, ack2), CandidatesStay,
           NEW p \in Node, NEW c \in Node, NEW u \in Terms, Voted(p, u, c)
    PROVE  u <= term'[c] /\ (Counts(p, u, c)' => VoteOK(lead2, ack2, p, u, c)')
<1>1. u \in Nat /\ term[c] \in Nat /\ term'[c] \in Nat /\ term[c] <= term'[c]
  BY BookFacts DEF Step, Inv, ElectionTypeOK, Grows
<1>2. u <= term[c]
  BY DEF Step, History, VotesOK
<1>3. ASSUME Counts(p, u, c)' PROVE VoteOK(lead2, ack2, p, u, c)'
  <2>1. term'[c] = u /\ role'[c] = Candidate /\ leadersByTerm'[u] = {}
    BY <1>3 DEF Counts, Elected
  <2>2. role[c] = Candidate /\ term[c] = u /\ log'[c] = log[c]
    BY <1>1, <1>2, <2>1 DEF CandidatesStay
  <2>3. ~Elected(u)
    BY <2>1 DEF Step, Grows
  <2> QED BY <2>2, <2>3, VoteStays DEF Counts
<1> QED BY <1>1, <1>2, <1>3

NobodyVotes ==
    \A p \in Node : votedFor'[p] \in Node => term'[p] = term[p] /\ votedFor'[p] = votedFor[p]

LEMMA OldVotes ==
    ASSUME NEW lead, NEW ack, NEW lead2, NEW ack2, Step(lead, ack, lead2, ack2), CandidatesStay,
           NobodyVotes
    PROVE  VotesOK(lead2, ack2)'
<1> SUFFICES ASSUME NEW p \in Node, NEW c \in Node, NEW u \in Terms, Voted(p, u, c)'
             PROVE  u <= term'[c] /\ (Counts(p, u, c)' => VoteOK(lead2, ack2, p, u, c)')
  BY DEF VotesOK, Counts
<1>1. Voted(p, u, c) \/ (u = term'[p] /\ votedFor'[p] = c)
  BY BookFacts DEF Step, VotesGrow
<1>2. Voted(p, u, c)
  BY <1>1 DEF NobodyVotes, Voted
<1> QED BY <1>2, OldVote

LEMMA MatchesStays ==
    ASSUME NEW lead, NEW ack, NEW lead2, NEW ack2, Step(lead, ack, lead2, ack2),
           NEW L \in Seq(Entry), Matches(lead, L)
    PROVE  Matches(lead2, L)
<1> SUFFICES ASSUME NEW i \in 1..Len(L) PROVE Has(lead2[L[i].term], L, i)
  BY DEF Matches
<1> DEFINE t == L[i].term
<1>1. Len(L) \in Nat /\ t \in Terms
  BY LogTypes
<1>2. Has(lead[t], L, i)
  BY DEF Matches
<1>3. Len(lead[t]) \in Nat /\ Len(lead2[t]) \in Nat
  BY <1>1, BookFacts DEF Step
<1>4. Has(lead2[t], lead[t], Len(lead[t]))
  BY <1>1 DEF Step, Grows
<1> HIDE DEF t
<1>5. Has(lead2[t], L, i)
  BY <1>1, <1>2, <1>3, <1>4 DEF Has
<1> QED BY <1>5 DEF t

LEMMA CommitStays ==
    ASSUME NEW lead, NEW ack, NEW lead2, NEW ack2, Step(lead, ack, lead2, ack2),
           NEW n \in Node, commitIndex'[n] \in {0, commitIndex[n]},
           Len(log[n]) <= Len(log'[n]), \A j \in 1..Len(log[n]) : log'[n][j] = log[n][j],
           log'[n] \in Seq(Entry)
    PROVE  CommitOK(lead2, ack2, n)'
<1>1. /\ commitIndex[n] \in Nat /\ commitIndex[n] <= Len(log[n]) /\ Len(log[n]) \in Nat
      /\ Len(log'[n]) \in Nat
  <2>1. log[n] \in Seq(Entry)
    BY DEF Step, History, LogsOK
  <2> QED BY <2>1, LogTypes DEF Step, TypeOK
<1>2. term[n] \in Int /\ term'[n] \in Int /\ term[n] <= term'[n]
  BY DEF Step, Grows, Inv, ElectionTypeOK
<1>3. CASE commitIndex'[n] = 0
  BY <1>1, <1>3 DEF CommitOK, Decided
<1>4. CASE commitIndex'[n] = commitIndex[n]
  <2>1. Decided(lead, ack, log[n], commitIndex[n], term[n])
    BY DEF Step, History, CommitOK
  <2>2. Has(log'[n], log[n], commitIndex[n])
    BY <1>1 DEF Has
  <2>3. Decided(lead2, ack2, log'[n], commitIndex[n], term'[n])
    BY <1>1, <1>2, <2>1, <2>2, DecidedStays
  <2> QED BY <1>1, <1>4, <2>3 DEF CommitOK, Decided, Chosen
<1> QED BY <1>3, <1>4

LEMMA LeaderStays ==
    ASSUME NEW lead, NEW ack, NEW lead2, NEW ack2, Step(lead, ack, lead2, ack2),
           NEW n \in Node, role[n] = Leader, term'[n] = term[n], log'[n] = log[n],
           nextIndex'[n] = nextIndex[n], matchIndex'[n] = matchIndex[n],
           n \in leadersByTerm'[term[n]],
           lead2[term[n]] = lead[term[n]], ack2[n][term[n]] = ack[n][term[n]]
    PROVE  LeaderOK(lead2, ack2, n)'
<1>1. LeaderOK(lead, ack, n)
  BY DEF Step, History, LeadersOK
<1>2. ASSUME NEW q \in Peers(n) PROVE matchIndex[n][q] <= ack2[q][term[n]]
  <2>1. q \in Node /\ term[n] \in Terms /\ matchIndex[n][q] \in Nat
    <3>1. matchIndex[n] \in [Peers(n) -> 0..MaxLog]
      BY DEF Step, TypeOK
    <3> QED BY <1>1, <3>1, BoundAssumption DEF LeaderOK, Peers
  <2>2. ack[q][term[n]] \in Nat /\ ack2[q][term[n]] \in Nat /\ ack[q][term[n]] <= ack2[q][term[n]]
    BY <2>1, AckFacts DEF Step, Grows
  <2> QED BY <1>1, <2>1, <2>2 DEF LeaderOK
<1> QED BY <1>1, <1>2 DEF LeaderOK

\* A step that touches no log.
LEMMA SameLogs ==
    ASSUME NEW lead, NEW ack, Step(lead, ack, lead, ack),
           UNCHANGED <<log, leadersByTerm>>, CandidatesStay,
           LeadersOK(lead, ack)', VotesOK(lead, ack)', \A n \in Node : CommitOK(lead, ack, n)',
           \A m \in Flying' : m \in Flying \/ TellsTruth(lead, ack, m)'
    PROVE  History(lead, ack)'
<1>1. LedOK(lead)'
  BY DEF LedOK, Elected, Step, History
<1>2. LogsOK(lead)'
  <2> SUFFICES ASSUME NEW n \in Node, NEW i \in 1..Len(log[n]) PROVE log[n][i].term <= term'[n]
    BY DEF LogsOK, Step, History
  <2>1. log[n] \in Seq(Entry) /\ log[n][i].term <= term[n] /\ term[n] <= term'[n]
    BY DEF LogsOK, Step, History, Grows
  <2>2. log[n][i].term \in Nat /\ term[n] \in Nat /\ term'[n] \in Nat
    BY <2>1, LogTypes DEF Step, Inv, ElectionTypeOK
  <2> QED BY <2>1, <2>2
<1>3. FlyingOK(lead, ack)'
  BY TellsStays DEF FlyingOK
<1>4. \A p \in Node : KeptOK(lead, ack, p)'
  BY KeptStays
<1>5. ASSUME NEW u \in Terms, Elected(u)' PROVE SafeOK(lead, ack, u)'
  BY <1>1, <1>5, SafeStays DEF Elected
<1> QED BY <1>1, <1>2, <1>3, <1>4, <1>5 DEF History

\* Nor leads or commits.
LEMMA SameLeaders ==
    ASSUME NEW lead, NEW ack, Step(lead, ack, lead, ack),
           UNCHANGED <<log, leadersByTerm>>, CandidatesStay, VotesOK(lead, ack)',
           \A n \in Node : role'[n] = Leader =>
               /\ role[n] = Leader /\ term'[n] = term[n]
               /\ nextIndex'[n] = nextIndex[n] /\ matchIndex'[n] = matchIndex[n],
           \A n \in Node : commitIndex'[n] \in {0, commitIndex[n]},
           \A m \in Flying' : m \in Flying \/ TellsTruth(lead, ack, m)'
    PROVE  History(lead, ack)'
<1>1. LeadersOK(lead, ack)'
  <2> SUFFICES ASSUME NEW n \in Node, role'[n] = Leader PROVE LeaderOK(lead, ack, n)'
    BY DEF LeadersOK
  <2>1. role[n] = Leader /\ n \in leadersByTerm[term[n]]
    BY DEF Step, History, LeadersOK, LeaderOK
  <2> QED BY <2>1, LeaderStays
<1>2. \A n \in Node : CommitOK(lead, ack, n)'
  <2> SUFFICES ASSUME NEW n \in Node PROVE CommitOK(lead, ack, n)'
    OBVIOUS
  <2>1. log[n] \in Seq(Entry) /\ Len(log[n]) \in Nat
    BY LogTypes DEF Step, History, LogsOK
  <2> QED BY <2>1, CommitStays
<1> QED BY <1>1, <1>2, SameLogs

------------------------------------------------------------------------------
(* The steps that append nothing *)

RaftTypes ==
    TypeOK /\ DOMAIN commitIndex = Node /\ DOMAIN nextIndex = Node /\ DOMAIN matchIndex = Node

\* What a step that leaves the history alone has to show.
Before(lead, ack) ==
    /\ lead \in Books /\ ack \in Acks /\ Inv /\ CandidatesOK /\ RaftTypes /\ History(lead, ack)
    /\ Inv' /\ VotesGrow
After(lead, ack) == CandidatesOK' /\ RaftTypes' /\ History(lead, ack)'

LEMMA TermsGrow ==
    ASSUME Inv, Inv', VotesGrow, NEW p \in Node
    PROVE  term[p] \in Nat /\ term'[p] \in Nat /\ term[p] <= term'[p]
<1>1. term[p] \in Nat /\ term'[p] \in Nat
  BY DEF Inv, ElectionTypeOK
<1>2. term'[p] > term[p] \/ term'[p] = term[p]
  BY DEF VotesGrow
<1> QED BY <1>1, <1>2

LEMMA SameStep ==
    ASSUME NEW lead, NEW ack, Before(lead, ack), leadersByTerm' = leadersByTerm
    PROVE  Step(lead, ack, lead, ack) /\ \A p \in Node : term[p] <= term'[p]
<1>1. \A p \in Node : term[p] <= term'[p]
  BY TermsGrow DEF Before
<1>2. \A p \in Node, t \in Terms : ack[p][t] \in Nat
  BY AckFacts DEF Before
<1>3. \A t \in Terms : Len(lead[t]) \in Nat
  BY BookFacts DEF Before
<1>4. \A t \in Terms : Has(lead[t], lead[t], Len(lead[t]))
  BY <1>3 DEF Has
<1>5. Grows(lead, ack, lead, ack)
  BY <1>1, <1>2, <1>3, <1>4 DEF Grows, Elected
<1> QED BY <1>1, <1>5 DEF Step, Before, RaftTypes

\* Only a candidate that has just begun is new.
LEMMA CandidatesRemain ==
    ASSUME Inv, Inv', VotesGrow, CandidatesOK, leadersByTerm' = leadersByTerm,
           \A c \in Node : role'[c] = Candidate =>
              \/ term'[c] > term[c] /\ term'[c] \in Terms
              \/ role[c] = Candidate /\ term'[c] = term[c]
    PROVE  CandidatesOK'
<1>1. \A c \in Node : term[c] \in Nat /\ term'[c] \in Nat /\ term[c] <= term'[c]
  BY TermsGrow
<1>2. ASSUME NEW t \in Terms, NEW n \in leadersByTerm[t] PROVE t \in Nat /\ n \in Node /\ t <= term[n]
  BY <1>2, BoundAssumption DEF CandidatesOK, Inv, ElectionTypeOK, Terms
<1>3. \A t \in Terms : \A n \in leadersByTerm[t] : t <= term'[n]
  BY <1>1, <1>2
<1>4. ASSUME NEW n \in Node, role'[n] = Candidate
      PROVE  term'[n] \in Terms /\ n \notin leadersByTerm[term'[n]]
  <2>1. CASE term'[n] > term[n] /\ term'[n] \in Terms
    BY <1>1, <1>2, <2>1
  <2>2. CASE role[n] = Candidate /\ term'[n] = term[n]
    BY <2>2 DEF CandidatesOK
  <2> QED BY <1>4, <2>1, <2>2
<1> QED BY <1>3, <1>4 DEF CandidatesOK

\* The leader n of term t sends p a fragment of its log, and how much is committed.
Fragment(lead, ack, m, n, p, t) ==
    LET prev == m.content.prevIndex
        sent == m.content.entries
        whole == lead[m.term]
    IN  /\ m.src = n /\ m.dst = p /\ m.term = t /\ m.type = "AppendEntries"
        /\ prev \in Nat /\ m.content.commit \in Nat /\ sent \in Seq(Entry)
        /\ prev + Len(sent) <= Len(whole)
        /\ m.content.prevTerm = TermAt(whole, prev)
        /\ \A k \in 1..Len(sent) : sent[k] = whole[prev + k]
        /\ m.content.commit <= Len(whole)
        /\ Decided(lead, ack, whole, m.content.commit, m.term)

\* What a leader sends to a follower that it believes to lack the entries from next.
LEMMA SentFragment ==
    ASSUME NEW lead, NEW ack, NEW n \in Node, NEW p \in Peers(n), NEW t \in Terms,
           NEW L, lead \in Books, L = lead[t],
           NEW next \in Nat, next \in 1..(Len(L) + 1),
           NEW commit \in Nat, commit <= Len(L), Decided(lead, ack, L, commit, t),
           NEW m, m = AppendEntries(n, p, t, L, next, commit)
    PROVE  Fragment(lead, ack, m, n, p, t)
<1>1. L \in Seq(Entry) /\ Len(L) \in Nat
  BY BookFacts
<1> DEFINE sent == SubSeq(L, next, Len(L))
<1>2. /\ sent \in Seq(Entry) /\ Len(sent) = IF next <= Len(L) THEN Len(L) - next + 1 ELSE 0
      /\ \A k \in 1..(Len(L) - next + 1) : sent[k] = L[next + k - 1]
  BY <1>1, SubSeqProperties
<1>3. /\ m.src = n /\ m.dst = p /\ m.term = t /\ m.type = "AppendEntries"
      /\ m.content.prevIndex = next - 1 /\ m.content.prevTerm = TermAt(L, next - 1)
      /\ m.content.entries = sent /\ m.content.commit = commit
  BY DEF AppendEntries, Message
<1> HIDE DEF sent
<1>4. Len(sent) = Len(L) - next + 1 /\ (next - 1) + Len(sent) <= Len(L)
  BY <1>1, <1>2
<1>5. \A k \in 1..Len(sent) : sent[k] = L[(next - 1) + k]
  <2> SUFFICES ASSUME NEW k \in 1..Len(sent) PROVE sent[k] = L[(next - 1) + k]
    OBVIOUS
  <2>1. k \in 1..(Len(L) - next + 1) /\ next + k - 1 = (next - 1) + k
    BY <1>1, <1>4
  <2> QED BY <1>2, <2>1
<1> QED BY <1>1, <1>2, <1>3, <1>4, <1>5 DEF Fragment

LEMMA SentIsTrue ==
    ASSUME NEW lead, NEW ack, NEW n \in Node, NEW p \in Peers(n), NEW t \in Terms,
           NEW L, lead \in Books, L = lead[t], Elected(t),
           NEW next \in Nat, next \in 1..(Len(L) + 1),
           NEW commit \in Nat, commit <= Len(L), Decided(lead, ack, L, commit, t),
           NEW m, m = AppendEntries(n, p, t, L, next, commit)
    PROVE  TellsTruth(lead, ack, m)
<1>1. Fragment(lead, ack, m, n, p, t)
  BY SentFragment
<1>2. AppendEntriesOK(lead, ack, m)
  BY <1>1 DEF AppendEntriesOK, Fragment
<1> QED BY <1>1, <1>2 DEF Fragment, TellsTruth, Peers

\* The types of what a step can touch.
LEMMA RaftFacts ==
    ASSUME RaftTypes, NEW n \in Node
    PROVE  /\ term[n] \in Nat /\ (term[n] > 0 => term[n] \in Terms)
           /\ commitIndex[n] \in Nat /\ commitIndex[n] <= Len(log[n])
           /\ nextIndex[n] \in [Peers(n) -> 1..(MaxLog + 1)] /\ MaxLog \in Nat
           /\ matchIndex[n] \in [Peers(n) -> 0..MaxLog]
           /\ role[n] \in {Follower, Candidate, Leader} /\ role \in [Node -> {Follower, Candidate, Leader}]
           /\ term \in [Node -> 0..MaxTerm] /\ votedFor \in [Node -> Node \cup {None}]
           /\ leaderId \in [Node -> Node \cup {None}] /\ alive \in [Node -> BOOLEAN]
           /\ votes \in [Node -> SUBSET Node]
<1>1. TypeOK
  BY DEF RaftTypes
<1>2. term \in [Node -> 0..MaxTerm] /\ MaxTerm \in Nat /\ MaxLog \in Nat
  BY <1>1, BoundAssumption DEF TypeOK
<1>3. commitIndex[n] \in 0..Len(log[n])
  BY <1>1 DEF TypeOK
<1> QED BY <1>1, <1>2, <1>3 DEF TypeOK, Terms

\* A leader's log is its term's, and it may send any of it.
LEMMA LeaderSends ==
    ASSUME NEW lead \in Books, NEW ack, RaftTypes, History(lead, ack),
           NEW n \in Node, role[n] = Leader, NEW p \in Peers(n),
           NEW next \in 1..(Len(log[n]) + 1),
           NEW m, m = AppendEntries(n, p, term[n], log[n], next, commitIndex[n])
    PROVE  TellsTruth(lead, ack, m)
<1>1. LeaderOK(lead, ack, n) /\ CommitOK(lead, ack, n) /\ log[n] \in Seq(Entry)
  BY DEF History, LeadersOK, LogsOK
<1>2. term[n] \in Terms /\ log[n] = lead[term[n]] /\ Elected(term[n])
  BY <1>1 DEF LeaderOK, Elected
<1>3. /\ commitIndex[n] \in Nat /\ commitIndex[n] <= Len(log[n])
      /\ Decided(lead, ack, log[n], commitIndex[n], term[n])
  BY <1>1, RaftFacts DEF CommitOK
<1>4. next \in Nat
  BY <1>1, LogTypes
<1> QED BY <1>2, <1>3, <1>4, SentIsTrue

LEMMA HeartbeatStep ==
    ASSUME NEW lead, NEW ack, Before(lead, ack), NEW n \in Node, Heartbeat(n)
    PROVE  After(lead, ack)
<1> DEFINE S == {AppendEntries(n, p, term[n], log[n], nextIndex[n][p], commitIndex[n]) : p \in Peers(n)}
<1>1. /\ role[n] = Leader /\ Flying' \subseteq Flying \cup S
      /\ UNCHANGED <<term, votedFor, log, role, leaderId, commitIndex, alive, votes,
                     nextIndex, matchIndex, leadersByTerm, crashes>>
  BY ExchangeFacts DEF Heartbeat, Send, persistent, leaderVars
<1>2. Step(lead, ack, lead, ack)
  BY <1>1, SameStep
<1>3. CandidatesOK' /\ RaftTypes'
  BY <1>1 DEF Before, CandidatesOK, RaftTypes, TypeOK
<1>4. ASSUME NEW p \in Peers(n), NEW m,
             m = AppendEntries(n, p, term[n], log[n], nextIndex[n][p], commitIndex[n])
      PROVE  TellsTruth(lead, ack, m)
  <2>1. LeaderOK(lead, ack, n)
    BY <1>1 DEF Before, History, LeadersOK
  <2>2. nextIndex[n][p] \in 1..(Len(log[n]) + 1)
    <3>1. nextIndex[n][p] \in 1..(MaxLog + 1) /\ MaxLog \in Nat /\ Len(log[n]) \in Nat
      <4>1. log[n] \in Seq(Entry)
        BY DEF Before, History, LogsOK
      <4> QED BY <4>1, RaftFacts, LogTypes DEF Before
    <3> QED BY <2>1, <3>1 DEF LeaderOK
  <2> QED BY <1>1, <1>4, <2>2, LeaderSends DEF Before
<1>5. ASSUME NEW m \in Flying', m \notin Flying PROVE TellsTruth(lead, ack, m)'
  <2>1. TellsTruth(lead, ack, m)
    BY <1>1, <1>4, <1>5
  <2> QED BY <1>1, <2>1 DEF TellsTruth, RequestVoteOK, AppendEntriesOK, AppendReplyOK, Elected,
                            LastLogTerm, LastLogIndex, Decided, Chosen
<1>6. CandidatesStay /\ NobodyVotes
  BY <1>1 DEF CandidatesStay, NobodyVotes
<1>7. History(lead, ack)'
  BY <1>1, <1>2, <1>5, <1>6, OldVotes, SameLeaders
<1> QED BY <1>3, <1>7 DEF After

LEMMA CrashStep ==
    ASSUME NEW lead, NEW ack, Before(lead, ack), NEW n \in Node, Crash(n)
    PROVE  After(lead, ack)
<1>1. /\ alive' = [alive EXCEPT ![n] = FALSE] /\ crashes' = crashes + 1 /\ crashes < MaxCrashes
      /\ UNCHANGED <<term, votedFor, log, role, leaderId, commitIndex, votes,
                     nextIndex, matchIndex, leadersByTerm, inFlight>> /\ Flying' = Flying
  BY DEF Crash, persistent, leaderVars, Flying
<1>2. Step(lead, ack, lead, ack)
  BY <1>1, SameStep
<1>3. CandidatesOK' /\ RaftTypes'
  BY <1>1, BoundAssumption DEF Before, CandidatesOK, RaftTypes, TypeOK
<1>4. CandidatesStay /\ NobodyVotes
  BY <1>1 DEF CandidatesStay, NobodyVotes
<1>5. History(lead, ack)'
  BY <1>1, <1>2, <1>4, OldVotes, SameLeaders
<1> QED BY <1>3, <1>5 DEF After

LEMMA RestartStep ==
    ASSUME NEW lead, NEW ack, Before(lead, ack), NEW n \in Node, Restart(n)
    PROVE  After(lead, ack)
<1>1. /\ alive' = [alive EXCEPT ![n] = TRUE] /\ role' = [role EXCEPT ![n] = Follower]
      /\ leaderId' = [leaderId EXCEPT ![n] = None]
      /\ commitIndex' = [commitIndex EXCEPT ![n] = 0]
      /\ UNCHANGED <<term, votedFor, log, votes, nextIndex, matchIndex, leadersByTerm,
                     inFlight, crashes>> /\ Flying' = Flying
  BY DEF Restart, persistent, leaderVars, Flying
<1>2. Step(lead, ack, lead, ack)
  BY <1>1, SameStep
<1>3. /\ role \in [Node -> {Follower, Candidate, Leader}] /\ DOMAIN commitIndex = Node
      /\ alive \in [Node -> BOOLEAN] /\ leaderId \in [Node -> Node \cup {None}]
  BY RaftFacts DEF Before, RaftTypes
<1>4. /\ role'[n] = Follower /\ commitIndex'[n] = 0
      /\ \A p \in Node \ {n} : role'[p] = role[p] /\ commitIndex'[p] = commitIndex[p]
  BY <1>1, <1>3
<1>5. \A p \in Node : /\ role'[p] = Leader => role[p] = Leader
                      /\ role'[p] = Candidate => role[p] = Candidate
                      /\ commitIndex'[p] \in {0, commitIndex[p]}
  BY <1>4, NodeAssumption
<1>6. CandidatesOK'
  BY <1>1, <1>5 DEF Before, CandidatesOK
<1>7. RaftTypes'
  <2>1. \A p \in Node : commitIndex'[p] \in 0..Len(log[p])
    <3> SUFFICES ASSUME NEW p \in Node PROVE commitIndex'[p] \in 0..Len(log[p])
      OBVIOUS
    <3>1. log[p] \in Seq(Entry) /\ Len(log[p]) \in Nat
      BY LogTypes DEF Before, History, LogsOK
    <3>2. commitIndex[p] \in 0..Len(log[p])
      BY DEF Before, RaftTypes, TypeOK
    <3>3. 0 \in 0..Len(log[p])
      BY <3>1
    <3> QED BY <1>5, <3>2, <3>3
  <2>2. alive' \in [Node -> BOOLEAN] /\ leaderId' \in [Node -> Node \cup {None}]
        /\ role' \in [Node -> {Follower, Candidate, Leader}]
    BY <1>1, <1>3
  <2>3. DOMAIN commitIndex' = Node
    BY <1>1, <1>3
  <2>4. UNCHANGED <<term, votedFor, log, votes, nextIndex, matchIndex, leadersByTerm, crashes>>
    BY <1>1
  <2> QED BY <2>1, <2>2, <2>3, <2>4 DEF Before, RaftTypes, TypeOK
<1>8. CandidatesStay /\ NobodyVotes
  BY <1>1, <1>5 DEF CandidatesStay, NobodyVotes
<1>9. History(lead, ack)'
  BY <1>1, <1>2, <1>5, <1>8, OldVotes, SameLeaders
<1> QED BY <1>6, <1>7, <1>9 DEF After

\* What on_message does to the receiver's term, vote and role.
LEMMA AdoptFacts ==
    ASSUME NEW lead, NEW ack, Before(lead, ack), NEW m \in Flying,
           NEW vote \in Node \cup {None}, NEW newRole \in {RoleNow(m), Follower},
           NEW newLeader \in Node \cup {None}, Adopt(m, vote, newRole, newLeader)
    PROVE  /\ TermNow(m) \in Terms /\ term[m.dst] <= TermNow(m)
           /\ term' \in [Node -> 0..MaxTerm] /\ votedFor' \in [Node -> Node \cup {None}]
           /\ role' \in [Node -> {Follower, Candidate, Leader}]
           /\ leaderId' \in [Node -> Node \cup {None}]
           /\ term'[m.dst] = TermNow(m) /\ votedFor'[m.dst] = vote
           /\ \A p \in Node \ {m.dst} : term'[p] = term[p] /\ votedFor'[p] = votedFor[p]
                                        /\ role'[p] = role[p]
           /\ \A p \in Node : role'[p] \in {Candidate, Leader}
                               => role[p] = role'[p] /\ term'[p] = term[p]
<1> DEFINE n == m.dst
<1>1. /\ term' = [term EXCEPT ![n] = TermNow(m)]
      /\ votedFor' = [votedFor EXCEPT ![n] = vote]
      /\ role' = [role EXCEPT ![n] = newRole]
      /\ leaderId' = [leaderId EXCEPT ![n] = newLeader]
  BY DEF Adopt
<1>2. m.term \in Terms /\ MaxTerm \in Nat
  BY BoundAssumption DEF Before, History, FlyingOK, TellsTruth
<1>3. n \in Node /\ TermNow(m) \in Nat /\ RoleNow(m) \in {Follower, Candidate, Leader}
      /\ (TermNow(m) = m.term \/ TermNow(m) = term[n]) /\ m.term <= TermNow(m)
      /\ term[n] <= TermNow(m)
      /\ (RoleNow(m) # Follower => TermNow(m) = term[n] /\ RoleNow(m) = role[n])
  BY ReceiverFacts DEF Before, Inv, ElectionTypeOK
<1>4. /\ term \in [Node -> 0..MaxTerm] /\ votedFor \in [Node -> Node \cup {None}]
      /\ role \in [Node -> {Follower, Candidate, Leader}] /\ leaderId \in [Node -> Node \cup {None}]
  BY <1>3, RaftFacts DEF Before
<1>5. TermNow(m) \in Terms /\ TermNow(m) \in 0..MaxTerm
  BY <1>2, <1>3, <1>4 DEF Terms
<1>6. /\ term'[n] = TermNow(m) /\ votedFor'[n] = vote /\ role'[n] = newRole
      /\ \A p \in Node \ {n} : term'[p] = term[p] /\ votedFor'[p] = votedFor[p] /\ role'[p] = role[p]
  BY <1>1, <1>3, <1>4
<1>7. ASSUME NEW p \in Node, role'[p] \in {Candidate, Leader}
      PROVE  role[p] = role'[p] /\ term'[p] = term[p]
  <2>1. CASE p = n
    BY <1>3, <1>6, <1>7, <2>1, NodeAssumption
  <2>2. CASE p # n
    BY <1>6, <2>2
  <2> QED BY <2>1, <2>2
<1>8. /\ term' \in [Node -> 0..MaxTerm] /\ votedFor' \in [Node -> Node \cup {None}]
      /\ role' \in [Node -> {Follower, Candidate, Leader}] /\ leaderId' \in [Node -> Node \cup {None}]
  <2>1. newRole \in {Follower, Candidate, Leader}
    BY <1>3
  <2> QED BY <1>1, <1>3, <1>4, <1>5, <2>1
<1> QED BY <1>3, <1>5, <1>6, <1>7, <1>8

LEMMA NowFacts ==
    ASSUME RaftTypes, Inv, NEW m \in Flying
    PROVE  VoteNow(m) \in Node \cup {None} /\ LeaderNow(m) \in Node \cup {None}
  BY ReceiverFacts, RaftFacts DEF LeaderNow

LEMMA AdoptVotes ==
    ASSUME NEW lead, NEW ack, Before(lead, ack), NEW m \in Flying,
           NEW newRole \in {RoleNow(m), Follower},
           NEW newLeader \in Node \cup {None}, Adopt(m, VoteNow(m), newRole, newLeader)
    PROVE  NobodyVotes
<1> SUFFICES ASSUME NEW p \in Node, votedFor'[p] \in Node
             PROVE  term'[p] = term[p] /\ votedFor'[p] = votedFor[p]
  BY DEF NobodyVotes
<1>1. VoteNow(m) \in Node \cup {None}
  BY NowFacts DEF Before
<1>2. CASE p = m.dst
  <2>1. votedFor'[p] = VoteNow(m) /\ term'[p] = TermNow(m)
    BY <1>1, <1>2, AdoptFacts
  <2>2. ~Newer(m)
    BY <2>1, ReceiverFacts, NodeAssumption DEF Before
  <2> QED BY <1>2, <2>1, <2>2, ReceiverFacts DEF Before
<1>3. CASE p # m.dst
  BY <1>1, <1>3, AdoptFacts
<1> QED BY <1>2, <1>3

\* A step that adopts a term and casts no vote.
LEMMA QuietAdopt ==
    ASSUME NEW lead, NEW ack, Before(lead, ack), NEW m \in Flying,
           NEW newRole \in {RoleNow(m), Follower},
           NEW newLeader \in Node \cup {None}, Adopt(m, VoteNow(m), newRole, newLeader),
           UNCHANGED <<log, commitIndex, alive, nextIndex, matchIndex, leadersByTerm, crashes>>,
           votes' \in [Node -> SUBSET Node],
           \A x \in Flying' : x \in Flying \/ TellsTruth(lead, ack, x)'
    PROVE  After(lead, ack)
<1>1. VoteNow(m) \in Node \cup {None}
  BY NowFacts DEF Before
<1>2. Step(lead, ack, lead, ack)
  BY SameStep
<1>3. \A p \in Node : role'[p] \in {Candidate, Leader} => role[p] = role'[p] /\ term'[p] = term[p]
  BY <1>1, AdoptFacts
<1>4. CandidatesOK'
  <2>1. \A c \in Node : role'[c] = Candidate => role[c] = Candidate /\ term'[c] = term[c]
    BY <1>3
  <2> QED BY <2>1, CandidatesRemain DEF Before
<1>5. RaftTypes'
  <2>1. /\ term' \in [Node -> 0..MaxTerm] /\ votedFor' \in [Node -> Node \cup {None}]
        /\ role' \in [Node -> {Follower, Candidate, Leader}]
        /\ leaderId' \in [Node -> Node \cup {None}]
    BY <1>1, AdoptFacts
  <2> QED BY <2>1 DEF Before, RaftTypes, TypeOK
<1>6. CandidatesStay
  BY <1>3 DEF CandidatesStay
<1>7. NobodyVotes
  BY AdoptVotes
<1>8. \A p \in Node : commitIndex'[p] \in {0, commitIndex[p]}
  OBVIOUS
<1>9. \A p \in Node : role'[p] = Leader =>
         /\ role[p] = Leader /\ term'[p] = term[p]
         /\ nextIndex'[p] = nextIndex[p] /\ matchIndex'[p] = matchIndex[p]
  BY <1>3
<1>10. History(lead, ack)'
  BY <1>2, <1>6, <1>7, <1>8, <1>9, OldVotes, SameLeaders
<1> QED BY <1>4, <1>5, <1>10 DEF After

LEMMA HandleVoteReplyStep ==
    ASSUME NEW lead, NEW ack, Before(lead, ack), NEW m \in Flying, HandleVoteReply(m)
    PROVE  After(lead, ack)
<1> DEFINE now == IF CountsVote(m) THEN votes[m.dst] \cup {m.src} ELSE votes[m.dst]
<1>1. /\ Adopt(m, VoteNow(m), RoleNow(m), LeaderNow(m))
      /\ votes' = [votes EXCEPT ![m.dst] = now] /\ Flying' \subseteq Flying \cup {}
      /\ UNCHANGED <<log, commitIndex, alive, nextIndex, matchIndex, leadersByTerm, crashes>>
  BY ExchangeFacts DEF HandleVoteReply, leaderVars
<1>2. LeaderNow(m) \in Node \cup {None}
  BY NowFacts DEF Before
<1>3. votes' \in [Node -> SUBSET Node]
  <2>1. votes \in [Node -> SUBSET Node] /\ m.src \in Node /\ m.dst \in Node
    BY ReceiverFacts DEF Before, Inv, ElectionTypeOK
  <2>2. now \in SUBSET Node
    BY <2>1
  <2> HIDE DEF now
  <2> QED BY <1>1, <2>1, <2>2
<1> QED BY <1>1, <1>2, <1>3, QuietAdopt

LEMMA IgnoreAppendReplyStep ==
    ASSUME NEW lead, NEW ack, Before(lead, ack), NEW m \in Flying, IgnoreAppendReply(m)
    PROVE  After(lead, ack)
<1>1. /\ Adopt(m, VoteNow(m), RoleNow(m), LeaderNow(m)) /\ Flying' \subseteq Flying \cup {}
      /\ UNCHANGED <<log, commitIndex, alive, votes, nextIndex, matchIndex, leadersByTerm, crashes>>
  BY ExchangeFacts DEF IgnoreAppendReply, leaderVars
<1>2. LeaderNow(m) \in Node \cup {None}
  BY NowFacts DEF Before
<1>3. votes' \in [Node -> SUBSET Node]
  BY <1>1 DEF Before, Inv, ElectionTypeOK
<1> QED BY <1>1, <1>2, <1>3, QuietAdopt

------------------------------------------------------------------------------
(* Elections *)

\* The last entry of a log was written by a leader that has all of it.
LEMMA LastFacts ==
    ASSUME NEW lead \in Books, LedOK(lead), NEW L \in Seq(Entry), Matches(lead, L), L # <<>>,
           NEW s, s = L[Len(L)].term
    PROVE  /\ Len(L) \in Nat /\ Len(L) > 0 /\ s \in Terms /\ s \in Nat /\ Elected(s)
           /\ Len(L) <= Len(lead[s]) /\ \A j \in 1..Len(L) : lead[s][j] = L[j]
           /\ \A j \in 1..Len(L) : L[j].term <= s
<1>1. Len(L) \in Nat /\ Len(L) > 0
  BY LenProperties, EmptySeq
<1>2. s \in Terms /\ s \in Nat
  BY <1>1, LogTypes
<1>3. Len(L) <= Len(lead[s]) /\ \A j \in 1..Len(L) : lead[s][j] = L[j]
  BY <1>1 DEF Matches, Has
<1>4. lead[s] \in Seq(Entry) /\ Len(lead[s]) \in Nat
  BY <1>2, BookFacts
<1>5. lead[s] # <<>>
  BY <1>1, <1>3, <1>4, EmptySeq
<1>6. Elected(s)
  BY <1>2, <1>5 DEF LedOK
<1>7. ASSUME NEW j \in 1..Len(L) PROVE L[j].term <= s
  <2>1. j \in 1..Len(lead[s]) /\ Len(L) \in 1..Len(lead[s]) /\ j <= Len(L)
    BY <1>1, <1>3, <1>4
  <2>2. lead[s][j].term <= lead[s][Len(L)].term
    BY <1>2, <2>1 DEF LedOK
  <2> QED BY <1>1, <1>3, <2>2
<1> QED BY <1>1, <1>2, <1>3, <1>6, <1>7

\* A log at least as up to date as another has what the other has acknowledged, or a
\* leader in between has overruled it.
LEMMA UpToDate ==
    ASSUME NEW lead \in Books, NEW ack \in Acks, History(lead, ack), RaftTypes,
           NEW n \in Node, NEW c \in Node, NEW u \in Terms, ~Elected(u),
           term[c] = u, term[n] <= u,
           \/ LastLogTerm(c) > LastLogTerm(n)
           \/ LastLogTerm(c) = LastLogTerm(n) /\ Len(log[c]) >= Len(log[n])
    PROVE  VoteOK(lead, ack, n, u, c)
<1> SUFFICES ASSUME NEW t \in Terms, t < u, NEW i \in 1..ack[n][t], lead[t][i].term = t
             PROVE  Has(log[c], lead[t], i) \/ Overruled(lead, t, i, u - 1)
  BY DEF VoteOK
<1>1. /\ t \in Nat /\ u \in Nat /\ term[n] \in Nat /\ ack[n][t] \in Nat /\ Len(lead[t]) \in Nat
      /\ lead[t] \in Seq(Entry) /\ \A w \in Terms : w \in Nat
  BY BookFacts, RaftFacts, AckFacts
<1>2. KeptOK(lead, ack, n) /\ LedOK(lead)
  BY DEF History
<1>3. i \in Nat /\ i > 0 /\ i <= Len(lead[t])
  BY <1>1, <1>2 DEF KeptOK
<1>4. /\ log[n] \in Seq(Entry) /\ log[c] \in Seq(Entry)
      /\ Matches(lead, log[n]) /\ Matches(lead, log[c])
      /\ Len(log[n]) \in Nat /\ Len(log[c]) \in Nat
      /\ \A j \in 1..Len(log[c]) : log[c][j].term <= u
  BY LogTypes DEF History, LogsOK
<1>5. CASE Overruled(lead, t, i, term[n])
  <2>1. PICK w \in Terms : t < w /\ w <= term[n] /\ Elected(w) /\ ~Has(lead[w], lead[t], i)
    BY <1>5 DEF Overruled
  <2>2. w # u /\ w \in Nat
    BY <1>1, <2>1
  <2>3. w <= u - 1
    BY <1>1, <2>1, <2>2
  <2> QED BY <2>1, <2>3 DEF Overruled
<1>6. CASE Has(log[n], lead[t], i)
  <2> DEFINE a == log[n][Len(log[n])].term
             b == log[c][Len(log[c])].term
  <2>1. i <= Len(log[n]) /\ \A j \in 1..i : log[n][j] = lead[t][j]
    BY <1>6 DEF Has
  <2>2. log[n] # <<>> /\ i \in 1..Len(log[n]) /\ log[n][i].term = t
    BY <1>3, <1>4, <2>1, EmptySeq
  <2>3. /\ a \in Nat /\ \A j \in 1..Len(log[n]) : lead[a][j] = log[n][j]
        /\ t <= a
    BY <1>2, <1>4, <2>2, LastFacts
  <2>4. LastLogTerm(n) = a
    BY <1>4, <2>2 DEF LastLogTerm, LastLogIndex, TermAt
  <2>5. LastLogTerm(c) = IF Len(log[c]) > 0 THEN b ELSE 0
    BY DEF LastLogTerm, LastLogIndex, TermAt
  <2>6. Len(log[c]) > 0 /\ LastLogTerm(c) = b
    <3> HIDE DEF a, b
    <3>1. a > 0
      BY <1>1, <2>3 DEF Terms
    <3> QED BY <1>4, <2>3, <2>4, <2>5, <3>1
  <2>7. log[c] # <<>>
    BY <1>4, <2>6, EmptySeq
  <2>8. /\ b \in Terms /\ b \in Nat /\ Elected(b) /\ Len(log[c]) <= Len(lead[b])
        /\ \A j \in 1..Len(log[c]) : lead[b][j] = log[c][j]
    BY <1>2, <1>4, <2>7, LastFacts
  <2>9. CASE b = a
    <3>1. i <= Len(log[c])
      BY <1>3, <1>4, <2>1, <2>4, <2>6, <2>8, <2>9
    <3>2. \A j \in 1..i : log[c][j] = lead[t][j]
      <4> HIDE DEF a, b
      <4> QED BY <1>3, <1>4, <2>1, <2>3, <2>8, <2>9, <3>1
    <3> QED BY <3>1, <3>2 DEF Has
  <2>10. CASE b > a
    <3>1. t < b /\ b <= u
      <4>1. b <= u
        BY <1>4, <2>6
      <4> HIDE DEF a, b
      <4> QED BY <1>1, <2>3, <2>8, <2>10, <4>1
    <3>2. b # u
      BY <2>8
    <3>3. b <= u - 1
      <4> HIDE DEF b
      <4> QED BY <1>1, <2>8, <3>1, <3>2
    <3>4. CASE ~Has(lead[b], lead[t], i)
      <4> HIDE DEF b
      <4> QED BY <2>8, <3>1, <3>3, <3>4 DEF Overruled
    <3>5. CASE Has(lead[b], lead[t], i)
      <4>1. lead[b] \in Seq(Entry) /\ Len(lead[b]) \in Nat
        BY <2>8, BookFacts
      <4>2. i <= Len(lead[b]) /\ \A j \in 1..i : lead[b][j] = lead[t][j]
        BY <3>5 DEF Has
      <4>3. i <= Len(log[c])
        <5> SUFFICES ASSUME i > Len(log[c]) PROVE FALSE
          BY <1>3, <1>4
        <5>1. Len(log[c]) \in 1..Len(lead[b]) /\ i \in 1..Len(lead[b]) /\ Len(log[c]) <= i
          BY <1>3, <1>4, <2>6, <4>1, <4>2
        <5>2. lead[b][Len(log[c])].term <= lead[b][i].term
          BY <1>2, <2>8, <5>1 DEF LedOK
        <5>3. lead[b][Len(log[c])].term = b /\ lead[b][i].term = t
          BY <1>3, <1>4, <2>6, <2>8, <4>2
        <5> HIDE DEF b
        <5> QED BY <1>1, <2>8, <3>1, <5>2, <5>3
      <4>4. \A j \in 1..i : log[c][j] = lead[t][j]
        <5> HIDE DEF b
        <5> QED BY <1>3, <1>4, <2>8, <4>2, <4>3
      <4> QED BY <4>3, <4>4 DEF Has
    <3> QED BY <3>4, <3>5
  <2>11. b = a \/ b > a
    BY <2>4, <2>6
  <2> QED BY <2>9, <2>10, <2>11
<1> QED BY <1>2, <1>5, <1>6 DEF KeptOK

LEMMA HandleRequestVoteStep ==
    ASSUME NEW lead, NEW ack, Before(lead, ack), NEW m \in Flying, HandleRequestVote(m)
    PROVE  After(lead, ack)
<1> DEFINE n == m.dst
           vote == IF Grants(m) THEN m.src ELSE VoteNow(m)
           reply == VoteReply(m.dst, m.src, TermNow(m), Grants(m))
<1>1. /\ m.type = "RequestVote" /\ Adopt(m, vote, RoleNow(m), LeaderNow(m))
      /\ Flying' \subseteq Flying \cup {reply}
      /\ UNCHANGED <<log, commitIndex, alive, votes, nextIndex, matchIndex, leadersByTerm, crashes>>
  BY ExchangeFacts DEF HandleRequestVote, Receivable, leaderVars
<1>2. Step(lead, ack, lead, ack)
  BY <1>1, SameStep
<1>3. m.src \in Node /\ n \in Node /\ m.src # n /\ m.term \in Terms /\ RequestVoteOK(m)
  BY <1>1, ReceiverFacts DEF Before, History, FlyingOK, TellsTruth
<1>4. vote \in Node \cup {None} /\ LeaderNow(m) \in Node \cup {None}
  BY <1>3, NowFacts DEF Before
<1> HIDE DEF vote
<1>5. /\ TermNow(m) \in Terms /\ term[n] <= TermNow(m)
      /\ term' \in [Node -> 0..MaxTerm] /\ votedFor' \in [Node -> Node \cup {None}]
      /\ role' \in [Node -> {Follower, Candidate, Leader}]
      /\ leaderId' \in [Node -> Node \cup {None}]
      /\ term'[n] = TermNow(m) /\ votedFor'[n] = vote
      /\ \A p \in Node \ {n} : term'[p] = term[p] /\ votedFor'[p] = votedFor[p]
      /\ \A p \in Node : role'[p] \in {Candidate, Leader} => role[p] = role'[p] /\ term'[p] = term[p]
  BY <1>1, <1>4, AdoptFacts
<1>6. CandidatesOK'
  <2>1. \A c \in Node : role'[c] = Candidate => role[c] = Candidate /\ term'[c] = term[c]
    BY <1>5
  <2> QED BY <1>1, <2>1, CandidatesRemain DEF Before
<1>7. RaftTypes'
  BY <1>1, <1>5 DEF Before, RaftTypes, TypeOK
<1>8. CandidatesStay
  BY <1>1, <1>5 DEF CandidatesStay
<1>9. ASSUME NEW u \in Terms, NEW c \in Node, u = TermNow(m), c = vote, Grants(m)
      PROVE  u <= term'[c] /\ (Counts(n, u, c)' => VoteOK(lead, ack, n, u, c)')
  <2>1. c = m.src /\ u = m.term
    BY <1>9 DEF vote, Grants
  <2>2. /\ u \in Nat /\ term[c] \in Nat /\ term'[c] \in Nat /\ term[c] <= term'[c]
        /\ term[n] \in Nat
    BY <1>3, BookFacts, TermsGrow DEF Before
  <2>3. u <= term'[c]
    BY <1>3, <2>1, <2>2 DEF RequestVoteOK
  <2>4. ASSUME Counts(n, u, c)' PROVE VoteOK(lead, ack, n, u, c)'
    <3>1. term'[c] = u /\ role'[c] = Candidate /\ ~Elected(u)
      BY <1>1, <2>4 DEF Counts, Elected
    <3>2. role[c] = Candidate /\ term[c] = u
      BY <1>5, <3>1
    <3>3. m.content.lastIndex = Len(log[c]) /\ m.content.lastTerm = LastLogTerm(c)
      BY <1>3, <2>1, <3>2 DEF RequestVoteOK
    <3>4. \/ LastLogTerm(c) > LastLogTerm(n)
          \/ LastLogTerm(c) = LastLogTerm(n) /\ Len(log[c]) >= Len(log[n])
      BY <1>9, <3>3 DEF Grants, LastLogIndex
    <3>5. VoteOK(lead, ack, n, u, c)
      BY <1>3, <1>5, <1>9, <3>1, <3>2, <3>4, UpToDate DEF Before
    <3> QED BY <1>1, <3>5 DEF VoteOK, Overruled, Elected
  <2> QED BY <2>3, <2>4
<1>10. VotesOK(lead, ack)'
  <2> SUFFICES ASSUME NEW p \in Node, NEW c \in Node, NEW u \in Terms, Voted(p, u, c)'
               PROVE  u <= term'[c] /\ (Counts(p, u, c)' => VoteOK(lead, ack, p, u, c)')
    BY DEF VotesOK, Counts
  <2>1. CASE Voted(p, u, c)
    BY <1>2, <1>8, <2>1, OldVote
  <2>2. CASE ~Voted(p, u, c)
    <3>1. u = term'[p] /\ votedFor'[p] = c
      BY <2>2, BookFacts DEF Before, VotesGrow
    <3>2. p = n
      BY <1>5, <2>2, <3>1 DEF Voted
    <3>3. c = vote /\ u = TermNow(m)
      BY <1>5, <3>1, <3>2
    <3>4. Grants(m)
      <4> SUFFICES ASSUME ~Grants(m) PROVE FALSE
        OBVIOUS
      <4>1. VoteNow(m) = c
        BY <3>3 DEF vote
      <4>2. ~Newer(m)
        BY <4>1, ReceiverFacts, NodeAssumption DEF Before
      <4>3. term[n] = u /\ votedFor[n] = c
        BY <3>3, <4>1, <4>2, ReceiverFacts DEF Before
      <4> QED BY <2>2, <3>2, <4>3 DEF Voted
    <3> QED BY <1>9, <3>2, <3>3, <3>4
  <2> QED BY <2>1, <2>2
<1>11. ASSUME NEW x, x = reply PROVE TellsTruth(lead, ack, x)'
  BY <1>3, <1>5, <1>11 DEF VoteReply, Message, TellsTruth
<1>12. \A p \in Node : /\ commitIndex'[p] \in {0, commitIndex[p]}
                       /\ role'[p] = Leader =>
                             /\ role[p] = Leader /\ term'[p] = term[p]
                             /\ nextIndex'[p] = nextIndex[p] /\ matchIndex'[p] = matchIndex[p]
  BY <1>1, <1>5
<1>13. \A x \in Flying' : x \in Flying \/ TellsTruth(lead, ack, x)'
  BY <1>1, <1>11
<1> HIDE DEF reply
<1>14. History(lead, ack)'
  BY <1>1, <1>2, <1>8, <1>10, <1>12, <1>13, SameLeaders
<1> QED BY <1>6, <1>7, <1>14 DEF After

\* The election timer fires: n votes for itself and asks the others.
LEMMA StartElectionStep ==
    ASSUME NEW lead, NEW ack, Before(lead, ack), NEW n \in Node, StartElection(n)
    PROVE  After(lead, ack)
<1> DEFINE u == term[n] + 1
           S == {RequestVote(n, p, u) : p \in Peers(n)}
<1>1. /\ role[n] # Leader /\ term[n] < MaxTerm
      /\ term' = [term EXCEPT ![n] = u] /\ role' = [role EXCEPT ![n] = Candidate]
      /\ votedFor' = [votedFor EXCEPT ![n] = n] /\ leaderId' = [leaderId EXCEPT ![n] = None]
      /\ votes' = [votes EXCEPT ![n] = {n}]
      /\ UNCHANGED <<log, commitIndex, alive, nextIndex, matchIndex, leadersByTerm, crashes>>
  BY DEF StartElection, leaderVars
<1>2. term'[n] = u /\ u \in Terms /\ u \in 0..MaxTerm /\ term[n] \in Nat /\ u \in Nat /\ u > term[n]
  BY <1>1, RaftFacts, BoundAssumption DEF Before, Terms
<1>3. Flying' \subseteq Flying \cup S
  <2>1. Flying' \subseteq Flying \cup {RequestVote(n, p, term'[n]) : p \in Peers(n)}
    BY ExchangeFacts DEF StartElection, Send
  <2> QED BY <1>2, <2>1
<1>4. Step(lead, ack, lead, ack)
  BY <1>1, SameStep
<1>5. /\ term \in [Node -> 0..MaxTerm] /\ votedFor \in [Node -> Node \cup {None}]
      /\ role \in [Node -> {Follower, Candidate, Leader}] /\ leaderId \in [Node -> Node \cup {None}]
      /\ votes \in [Node -> SUBSET Node]
  BY RaftFacts DEF Before
<1>6. /\ role'[n] = Candidate /\ votedFor'[n] = n
      /\ \A p \in Node \ {n} : /\ role'[p] = role[p] /\ term'[p] = term[p]
                               /\ votedFor'[p] = votedFor[p]
  BY <1>1, <1>5
<1> HIDE DEF u
<1>7. RaftTypes'
  <2>1. /\ term' \in [Node -> 0..MaxTerm] /\ votedFor' \in [Node -> Node \cup {None}]
        /\ role' \in [Node -> {Follower, Candidate, Leader}]
        /\ leaderId' \in [Node -> Node \cup {None}] /\ votes' \in [Node -> SUBSET Node]
    BY <1>1, <1>2, <1>5
  <2> QED BY <1>1, <2>1 DEF Before, RaftTypes, TypeOK
<1>8. \A c \in Node : role'[c] = Candidate =>
         \/ term'[c] > term[c] /\ term'[c] \in Terms
         \/ role[c] = Candidate /\ term'[c] = term[c]
  BY <1>2, <1>6
<1>9. CandidatesOK'
  BY <1>1, <1>8, CandidatesRemain DEF Before
<1>10. CandidatesStay
  BY <1>1, <1>8 DEF CandidatesStay
<1>11. ASSUME NEW v \in Terms, v = u PROVE VoteOK(lead, ack, n, v, n)'
  <2> SUFFICES ASSUME NEW t \in Terms, t < v, NEW i \in 1..ack[n][t]
               PROVE  Has(log[n], lead[t], i) \/ Overruled(lead, t, i, v - 1)
    BY <1>1 DEF VoteOK, Overruled, Elected
  <2>1. Has(log[n], lead[t], i) \/ Overruled(lead, t, i, term[n])
    BY DEF Before, History, KeptOK
  <2>2. v - 1 = term[n]
    BY <1>2, <1>11 DEF u
  <2> QED BY <2>1, <2>2
<1>12. VotesOK(lead, ack)'
  <2> SUFFICES ASSUME NEW p \in Node, NEW c \in Node, NEW v \in Terms, Voted(p, v, c)'
               PROVE  v <= term'[c] /\ (Counts(p, v, c)' => VoteOK(lead, ack, p, v, c)')
    BY DEF VotesOK, Counts
  <2>1. CASE Voted(p, v, c)
    BY <1>4, <1>10, <2>1, OldVote
  <2>2. CASE ~Voted(p, v, c)
    <3>1. v = term'[p] /\ votedFor'[p] = c
      BY <2>2, BookFacts DEF Before, VotesGrow
    <3>2. p = n
      BY <1>6, <2>2, <3>1 DEF Voted
    <3>3. c = n /\ v = u
      BY <1>2, <1>6, <3>1, <3>2
    <3> QED BY <1>2, <1>11, <3>2, <3>3
  <2> QED BY <2>1, <2>2
<1>13. ASSUME NEW p \in Peers(n), NEW m, m = RequestVote(n, p, u) PROVE TellsTruth(lead, ack, m)'
  <2>1. /\ m.src = n /\ m.dst = p /\ m.term = u /\ m.type = "RequestVote"
        /\ m.content.lastIndex = Len(log[n]) /\ m.content.lastTerm = LastLogTerm(n)
    BY <1>13 DEF RequestVote, Message, LastLogIndex
  <2>2. log[n] \in Seq(Entry)
    BY DEF Before, History, LogsOK
  <2>3. Len(log[n]) \in Nat /\ LastLogTerm(n) \in Nat
    <3>1. Len(log[n]) \in Nat /\ \A j \in 1..Len(log[n]) : log[n][j].term \in Nat
      BY <2>2, LogTypes
    <3> QED BY <3>1 DEF LastLogTerm, LastLogIndex, TermAt
  <2>4. LastLogTerm(n)' = LastLogTerm(n) /\ Len(log'[n]) = Len(log[n])
    BY <1>1 DEF LastLogTerm, LastLogIndex
  <2>5. RequestVoteOK(m)'
    BY <1>2, <2>1, <2>3, <2>4 DEF RequestVoteOK
  <2> QED BY <1>2, <2>1, <2>5 DEF TellsTruth, Peers
<1>14. \A x \in Flying' : x \in Flying \/ TellsTruth(lead, ack, x)'
  BY <1>3, <1>13
<1>15. \A p \in Node : /\ commitIndex'[p] \in {0, commitIndex[p]}
                       /\ role'[p] = Leader =>
                             /\ role[p] = Leader /\ term'[p] = term[p]
                             /\ nextIndex'[p] = nextIndex[p] /\ matchIndex'[p] = matchIndex[p]
  BY <1>1, <1>6, NodeAssumption
<1>16. History(lead, ack)'
  BY <1>1, <1>4, <1>10, <1>12, <1>14, <1>15, SameLeaders
<1> QED BY <1>7, <1>9, <1>16 DEF After

------------------------------------------------------------------------------
(* What a leader makes of its followers' replies *)

LEMMA LeadsFacts ==
    ASSUME NEW lead, NEW ack, Before(lead, ack), NEW m \in Flying,
           m.type = "AppendReply", LeadsAt(m)
    PROVE  /\ m.dst \in Node /\ m.src \in Peers(m.dst) /\ role[m.dst] = Leader
           /\ m.term = term[m.dst] /\ term[m.dst] \in Terms
           /\ LeaderOK(lead, ack, m.dst) /\ AppendReplyOK(ack, m)
           /\ log[m.dst] \in Seq(Entry) /\ Len(log[m.dst]) \in Nat /\ Len(log[m.dst]) <= MaxLog
<1> DEFINE n == m.dst
<1>1. n \in Node /\ m.src \in Node /\ m.src # n /\ AppendReplyOK(ack, m)
  BY ReceiverFacts DEF Before, History, FlyingOK, TellsTruth
<1>2. role[n] = Leader /\ m.term = term[n]
  BY ReceiverFacts, NodeAssumption DEF LeadsAt, Before
<1>3. LeaderOK(lead, ack, n) /\ log[n] \in Seq(Entry)
  BY <1>1, <1>2 DEF Before, History, LeadersOK, LogsOK
<1>4. term[n] \in Terms /\ log[n] = lead[term[n]]
  BY <1>3 DEF LeaderOK
<1>5. Len(log[n]) <= MaxLog
  BY <1>4 DEF Before, History, LedOK
<1>6. Len(log[n]) \in Nat
  BY <1>3, LogTypes
<1> QED BY <1>1, <1>2, <1>3, <1>4, <1>5, <1>6 DEF Peers

LEMMA FollowerDiffersStep ==
    ASSUME NEW lead, NEW ack, Before(lead, ack), NEW m \in Flying, FollowerDiffers(m)
    PROVE  After(lead, ack)
<1> DEFINE n == m.dst
           p == m.src
           next == Max({1, nextIndex[n][p] - 1})
           sent == AppendEntries(n, p, term[n], log[n], next, commitIndex[n])
<1>1. /\ m.type = "AppendReply" /\ LeadsAt(m) /\ Flying' \subseteq Flying \cup {sent}
      /\ nextIndex' = [nextIndex EXCEPT ![n][p] = next]
      /\ UNCHANGED <<term, votedFor, log, role, leaderId, commitIndex, alive, votes,
                     matchIndex, leadersByTerm, crashes>>
  BY ExchangeFacts DEF FollowerDiffers, Receivable, persistent
<1>2. /\ n \in Node /\ p \in Peers(n) /\ role[n] = Leader /\ LeaderOK(lead, ack, n)
      /\ Len(log[n]) \in Nat /\ Len(log[n]) <= MaxLog
  BY <1>1, LeadsFacts
<1>3. /\ nextIndex[n] \in [Peers(n) -> 1..(MaxLog + 1)] /\ MaxLog \in Nat
      /\ DOMAIN nextIndex = Node
  BY <1>2, RaftFacts DEF Before, RaftTypes
<1>4. nextIndex[n][p] \in 1..(MaxLog + 1) /\ nextIndex[n][p] <= Len(log[n]) + 1
  BY <1>2, <1>3 DEF LeaderOK
<1>5. next \in {1, nextIndex[n][p] - 1} /\ 1 <= next
  <2> DEFINE k == nextIndex[n][p] - 1
  <2>1. k \in Int /\ next = Max({1, k})
    BY <1>3, <1>4
  <2> HIDE DEF k, next
  <2>2. next \in {1, k} /\ 1 <= next
    BY <2>1, MaxOfTwo
  <2> QED BY <2>2 DEF k
<1>6. next \in 1..(Len(log[n]) + 1) /\ next \in 1..(MaxLog + 1)
  BY <1>2, <1>3, <1>4, <1>5
<1>7. Step(lead, ack, lead, ack)
  BY <1>1, SameStep
<1>8. ASSUME NEW x, x = sent PROVE TellsTruth(lead, ack, x)'
  <2> HIDE DEF next
  <2>1. TellsTruth(lead, ack, x)
    BY <1>2, <1>6, <1>8, LeaderSends DEF Before
  <2> QED BY <1>1, <2>1 DEF TellsTruth, RequestVoteOK, AppendEntriesOK, AppendReplyOK, Elected,
                            LastLogTerm, LastLogIndex, Decided, Chosen
<1> HIDE DEF next, sent
<1>9. /\ DOMAIN nextIndex' = Node
      /\ \A q \in Node \ {n} : nextIndex'[q] = nextIndex[q]
      /\ nextIndex'[n] = [nextIndex[n] EXCEPT ![p] = next]
  BY <1>1, <1>2, <1>3
<1>10. /\ nextIndex'[n] \in [Peers(n) -> 1..(MaxLog + 1)]
       /\ \A q \in Peers(n) : nextIndex'[n][q] \in {next, nextIndex[n][q]}
  BY <1>2, <1>3, <1>6, <1>9
<1>11. CandidatesOK' /\ CandidatesStay /\ NobodyVotes
  BY <1>1 DEF Before, CandidatesOK, CandidatesStay, NobodyVotes
<1>12. RaftTypes'
  <2>1. \A q \in Node : nextIndex'[q] \in [Peers(q) -> 1..(MaxLog + 1)]
    BY <1>9, <1>10, RaftFacts DEF Before
  <2> QED BY <1>1, <1>9, <2>1 DEF Before, RaftTypes, TypeOK, Peers
<1>13. LeadersOK(lead, ack)'
  <2> SUFFICES ASSUME NEW q \in Node, role'[q] = Leader PROVE LeaderOK(lead, ack, q)'
    BY DEF LeadersOK
  <2>1. CASE q = n
    <3>1. \A r \in Peers(n) : nextIndex'[n][r] <= Len(log[n]) + 1
      BY <1>2, <1>6, <1>10 DEF LeaderOK
    <3> QED BY <1>1, <1>2, <2>1, <3>1 DEF LeaderOK, Peers
  <2>2. CASE q # n
    <3>1. LeaderOK(lead, ack, q) /\ nextIndex'[q] = nextIndex[q]
      BY <1>1, <1>9, <2>2 DEF Before, History, LeadersOK
    <3> QED BY <1>1, <3>1 DEF LeaderOK, Peers
  <2> QED BY <2>1, <2>2
<1>14. \A q \in Node : CommitOK(lead, ack, q)'
  BY <1>1 DEF Before, History, CommitOK, Decided, Chosen
<1>15. \A x \in Flying' : x \in Flying \/ TellsTruth(lead, ack, x)'
  BY <1>1, <1>8
<1>16. History(lead, ack)'
  BY <1>1, <1>7, <1>11, <1>13, <1>14, <1>15, OldVotes, SameLogs
<1> QED BY <1>11, <1>12, <1>16 DEF After

\* A leader commits only what a majority has acknowledged of its own term.
LEMMA CommittedFacts ==
    ASSUME NEW lead \in Books, NEW ack \in Acks, RaftTypes, History(lead, ack),
           NEW n \in Node, role[n] = Leader, NEW match,
           \A p \in Peers(n) : match[p] \in Nat /\ match[p] <= ack[p][term[n]],
           NEW c, c = Committed(n, match)
    PROVE  /\ c \in Nat /\ commitIndex[n] <= c /\ c <= Len(log[n])
           /\ Decided(lead, ack, log[n], c, term[n])
<1> DEFINE L == log[n]
           t == term[n]
           agreed == {i \in (commitIndex[n] + 1)..Len(L) :
                        /\ \A j \in i..Len(L) : L[j].term = t
                        /\ 1 + Cardinality({p \in Peers(n) : match[p] >= i}) >= Majority}
<1>1. /\ LeaderOK(lead, ack, n) /\ CommitOK(lead, ack, n) /\ L \in Seq(Entry) /\ Len(L) \in Nat
  BY LogTypes DEF History, LeadersOK, LogsOK
<1>2. t \in Terms /\ t \in Nat /\ L = lead[t] /\ ack[n][t] = Len(L)
  BY <1>1, BookFacts DEF LeaderOK
<1>3. commitIndex[n] \in Nat /\ commitIndex[n] <= Len(L)
  BY RaftFacts
<1>4. c = Max(agreed \cup {commitIndex[n]})
  BY DEF Committed
<1>5. c \in agreed \cup {commitIndex[n]} /\ commitIndex[n] <= c
  <2> DEFINE S == agreed \cup {commitIndex[n]}
  <2>1. S \subseteq Nat /\ S # {} /\ \A x \in S : x <= Len(L)
    BY <1>1, <1>3
  <2>2. commitIndex[n] \in S
    OBVIOUS
  <2> HIDE DEF S
  <2>3. Max(S) \in S /\ \A x \in S : x <= Max(S)
    BY <1>1, <2>1, MaxFacts
  <2> QED BY <1>4, <2>2, <2>3 DEF S
<1>6. CASE c = commitIndex[n]
  BY <1>1, <1>3, <1>6 DEF CommitOK
<1>7. CASE c \in agreed
  <2> DEFINE F == {p \in Peers(n) : match[p] >= c}
             Q == F \cup {n}
  <2>1. /\ c \in Nat /\ c \in 1..Len(L) /\ L[c].term = t
        /\ 1 + Cardinality(F) >= Majority
    BY <1>1, <1>3, <1>7
  <2>2. IsFiniteSet(F) /\ n \notin F /\ Q \in SUBSET Node
    BY NodeAssumption, FS_Subset DEF Peers
  <2>3. Cardinality(Q) = Cardinality(F) + 1 /\ Cardinality(F) \in Nat
    <3> HIDE DEF F
    <3> QED BY <2>2, FS_AddElement, FS_CardinalityType
  <2>4. Q \in Quorums
    <3>1. Cardinality(Q) >= Majority
      <4>1. Majority \in Nat
        BY NodeAssumption, FS_CardinalityType DEF Majority
      <4> HIDE DEF F, Q
      <4> QED BY <2>1, <2>3, <4>1
    <3> QED BY <2>2, <3>1 DEF Quorums
  <2>5. \A p \in Q : ack[p][t] >= c
    <3> SUFFICES ASSUME NEW p \in Q PROVE ack[p][t] >= c
      OBVIOUS
    <3>1. CASE p = n
      BY <1>2, <2>1, <3>1
    <3>2. CASE p # n
      <4>1. p \in Peers(n) /\ p \in Node /\ match[p] >= c
        BY <3>2 DEF Peers
      <4> QED BY <1>2, <2>1, <4>1, AckFacts
    <3> QED BY <3>1, <3>2
  <2> HIDE DEF Q
  <2>6. Chosen(lead, ack, t, c)
    BY <1>2, <2>1, <2>4, <2>5 DEF Chosen
  <2>7. Has(L, lead[t], c)
    BY <1>2, <2>1 DEF Has
  <2> QED BY <1>1, <1>2, <1>5, <2>1, <2>6, <2>7 DEF Decided
<1> QED BY <1>5, <1>6, <1>7

LEMMA FollowerMatchesStep ==
    ASSUME NEW lead, NEW ack, Before(lead, ack), NEW m \in Flying, FollowerMatches(m)
    PROVE  After(lead, ack) /\ \A q \in Node : commitIndex[q] <= commitIndex'[q]
<1> DEFINE n == m.dst
           p == m.src
           t == term[n]
           match == Max({matchIndex[n][p], m.content.match})
<1>1. /\ m.type = "AppendReply" /\ LeadsAt(m) /\ m.content.success
      /\ Flying' \subseteq Flying \cup {}
      /\ matchIndex' = [matchIndex EXCEPT ![n][p] = match]
      /\ nextIndex' = [nextIndex EXCEPT ![n][p] = matchIndex'[n][p] + 1]
      /\ commitIndex' = [commitIndex EXCEPT ![n] = Committed(n, matchIndex'[n])]
      /\ UNCHANGED <<term, votedFor, log, role, leaderId, alive, votes, leadersByTerm, crashes>>
  BY ExchangeFacts DEF FollowerMatches, Receivable, persistent
<1>2. /\ n \in Node /\ p \in Peers(n) /\ p \in Node /\ role[n] = Leader /\ LeaderOK(lead, ack, n)
      /\ m.term = t /\ t \in Terms /\ AppendReplyOK(ack, m)
      /\ Len(log[n]) \in Nat /\ Len(log[n]) <= MaxLog
  BY <1>1, LeadsFacts DEF Peers
<1>3. /\ nextIndex[n] \in [Peers(n) -> 1..(MaxLog + 1)] /\ MaxLog \in Nat
      /\ matchIndex[n] \in [Peers(n) -> 0..MaxLog]
      /\ DOMAIN nextIndex = Node /\ DOMAIN matchIndex = Node /\ DOMAIN commitIndex = Node
  BY <1>2, RaftFacts DEF Before, RaftTypes
<1>4. ack[p][t] \in Nat /\ ack[p][t] <= Len(log[n])
  <2>1. ack[p][t] <= Len(lead[t]) /\ log[n] = lead[t]
    BY <1>2 DEF Before, History, KeptOK, LeaderOK
  <2> QED BY <1>2, <2>1, AckFacts DEF Before
<1>5. match \in Nat /\ match <= ack[p][t]
  <2> DEFINE a == matchIndex[n][p]
             b == m.content.match
  <2>1. a \in Nat /\ a <= ack[p][t] /\ b \in Nat /\ b <= ack[p][t]
    BY <1>1, <1>2, <1>3 DEF LeaderOK, AppendReplyOK
  <2> HIDE DEF a, b
  <2>2. Max({a, b}) \in {a, b}
    BY <2>1, MaxOfTwo
  <2> QED BY <2>1, <2>2 DEF a, b
<1> HIDE DEF match
<1>6. /\ DOMAIN matchIndex' = Node /\ matchIndex'[n] = [matchIndex[n] EXCEPT ![p] = match]
      /\ \A q \in Node \ {n} : matchIndex'[q] = matchIndex[q]
  BY <1>1, <1>2, <1>3
<1>7. /\ matchIndex'[n] \in [Peers(n) -> 0..MaxLog] /\ matchIndex'[n][p] = match
      /\ \A q \in Peers(n) : q # p => matchIndex'[n][q] = matchIndex[n][q]
  <2>1. match \in 0..MaxLog
    BY <1>2, <1>3, <1>4, <1>5
  <2> QED BY <1>2, <1>3, <1>6, <2>1
<1>8. match + 1 \in 1..(MaxLog + 1) /\ match + 1 <= Len(log[n]) + 1
  BY <1>2, <1>3, <1>4, <1>5
<1>9. /\ DOMAIN nextIndex' = Node /\ nextIndex'[n] = [nextIndex[n] EXCEPT ![p] = match + 1]
      /\ \A q \in Node \ {n} : nextIndex'[q] = nextIndex[q]
  BY <1>1, <1>2, <1>3, <1>7
<1>10. /\ nextIndex'[n] \in [Peers(n) -> 1..(MaxLog + 1)]
       /\ \A q \in Peers(n) : nextIndex'[n][q] \in {match + 1, nextIndex[n][q]}
  BY <1>2, <1>3, <1>8, <1>9
<1>11. \A q \in Peers(n) : matchIndex'[n][q] \in Nat /\ matchIndex'[n][q] <= ack[q][t]
  <2> SUFFICES ASSUME NEW q \in Peers(n) PROVE matchIndex'[n][q] \in Nat /\ matchIndex'[n][q] <= ack[q][t]
    OBVIOUS
  <2>1. CASE q = p
    BY <1>5, <1>7, <2>1
  <2>2. CASE q # p
    BY <1>2, <1>3, <1>7, <2>2 DEF LeaderOK
  <2> QED BY <2>1, <2>2
<1>12. /\ DOMAIN commitIndex' = Node /\ commitIndex'[n] = Committed(n, matchIndex'[n])
       /\ \A q \in Node \ {n} : commitIndex'[q] = commitIndex[q]
  BY <1>1, <1>2, <1>3
<1>13. /\ commitIndex'[n] \in Nat /\ commitIndex'[n] <= Len(log[n])
       /\ commitIndex[n] <= commitIndex'[n]
       /\ Decided(lead, ack, log[n], commitIndex'[n], t)
  BY <1>2, <1>11, <1>12, CommittedFacts DEF Before
<1>14. CandidatesOK' /\ CandidatesStay /\ NobodyVotes
  BY <1>1 DEF Before, CandidatesOK, CandidatesStay, NobodyVotes
<1>15. RaftTypes'
  <2>1. \A q \in Node : /\ nextIndex'[q] \in [Peers(q) -> 1..(MaxLog + 1)]
                        /\ matchIndex'[q] \in [Peers(q) -> 0..MaxLog]
    BY <1>6, <1>7, <1>9, <1>10, RaftFacts DEF Before
  <2>2. \A q \in Node : commitIndex'[q] \in 0..Len(log[q])
    <3> SUFFICES ASSUME NEW q \in Node PROVE commitIndex'[q] \in 0..Len(log[q])
      OBVIOUS
    <3>1. CASE q = n
      BY <1>2, <1>13, <3>1
    <3>2. CASE q # n
      BY <1>12, <3>2 DEF Before, RaftTypes, TypeOK
    <3> QED BY <3>1, <3>2
  <2> QED BY <1>1, <1>6, <1>9, <1>12, <2>1, <2>2 DEF Before, RaftTypes, TypeOK, Peers
<1>16. Step(lead, ack, lead, ack)
  BY <1>1, SameStep
<1>17. LeadersOK(lead, ack)'
  <2> SUFFICES ASSUME NEW q \in Node, role'[q] = Leader PROVE LeaderOK(lead, ack, q)'
    BY DEF LeadersOK
  <2>1. CASE q = n
    <3>1. \A r \in Peers(n) : nextIndex'[n][r] <= Len(log[n]) + 1
      BY <1>2, <1>8, <1>10 DEF LeaderOK
    <3> QED BY <1>1, <1>2, <1>11, <2>1, <3>1 DEF LeaderOK, Peers
  <2>2. CASE q # n
    <3>1. LeaderOK(lead, ack, q) /\ nextIndex'[q] = nextIndex[q] /\ matchIndex'[q] = matchIndex[q]
      BY <1>1, <1>6, <1>9, <2>2 DEF Before, History, LeadersOK
    <3> QED BY <1>1, <3>1 DEF LeaderOK, Peers
  <2> QED BY <2>1, <2>2
<1>18. \A q \in Node : CommitOK(lead, ack, q)'
  <2> SUFFICES ASSUME NEW q \in Node PROVE CommitOK(lead, ack, q)'
    OBVIOUS
  <2>1. CASE q = n
    BY <1>1, <1>13, <2>1 DEF CommitOK, Decided, Chosen
  <2>2. CASE q # n
    <3>1. CommitOK(lead, ack, q) /\ commitIndex'[q] = commitIndex[q]
      BY <1>12, <2>2 DEF Before, History
    <3> QED BY <1>1, <3>1 DEF CommitOK, Decided, Chosen
  <2> QED BY <2>1, <2>2
<1>19. History(lead, ack)'
  BY <1>1, <1>14, <1>16, <1>17, <1>18, OldVotes, SameLogs
<1>20. ASSUME NEW q \in Node PROVE commitIndex[q] <= commitIndex'[q]
  <2>1. CASE q = n
    BY <1>13, <2>1
  <2>2. CASE q # n
    <3>1. commitIndex[q] \in Nat /\ commitIndex'[q] = commitIndex[q]
      BY <1>12, <2>2, RaftFacts DEF Before
    <3> QED BY <3>1
  <2> QED BY <2>1, <2>2
<1> QED BY <1>14, <1>15, <1>19, <1>20 DEF After

------------------------------------------------------------------------------
(* What a follower makes of a leader's entries *)

LEMMA QuorumsMeet ==
    ASSUME NEW P \in Quorums, NEW Q \in Quorums
    PROVE  \E p \in Node : p \in P /\ p \in Q
<1> DEFINE k == Cardinality(Node)
<1>1. IsFiniteSet(Node) /\ k \in Nat
  BY NodeAssumption, FS_CardinalityType
<1>2. /\ P \in SUBSET Node /\ Cardinality(P) >= Majority
      /\ Q \in SUBSET Node /\ Cardinality(Q) >= Majority
  BY DEF Quorums
<1>3. Cardinality(P) \in Nat /\ Cardinality(Q) \in Nat
  BY <1>1, <1>2, FS_Subset, FS_CardinalityType
<1>4. 2 * Majority > k /\ Majority \in Nat
  BY <1>1 DEF Majority
<1>5. Cardinality(P) + Cardinality(Q) > Cardinality(Node)
  BY <1>1, <1>2, <1>3, <1>4
<1>6. P \cap Q # {}
  BY <1>1, <1>2, <1>5, FS_MajoritiesIntersect
<1> QED BY <1>2, <1>6

\* Whoever leads has what was decided by its term.
LEMMA LeaderHasDecided ==
    ASSUME NEW lead \in Books, NEW ack \in Acks, History(lead, ack),
           NEW u \in Terms, Elected(u), NEW v \in Int, v <= u,
           NEW L, NEW c \in Nat, Decided(lead, ack, L, c, v), c # 0
    PROVE  c <= Len(lead[u]) /\ Has(L, lead[u], c)
<1>1. PICK t \in Terms, i \in Nat :
         t <= v /\ c <= i /\ Chosen(lead, ack, t, i) /\ Has(L, lead[t], c)
  BY DEF Decided
<1>2. /\ t \in Nat /\ u \in Nat /\ Len(lead[t]) \in Nat /\ Len(lead[u]) \in Nat
      /\ i \in 1..Len(lead[t]) /\ lead[t][i].term = t
  BY <1>1, BookFacts DEF Chosen
<1>3. CASE t = u
  BY <1>1, <1>2, <1>3
<1>4. CASE t # u
  <2>1. t < u
    BY <1>1, <1>2, <1>4
  <2>2. PICK P \in Quorums : \A p \in P : ack[p][t] >= i
    BY <1>1 DEF Chosen
  <2>3. ASSUME NEW Q \in Quorums, \A p \in Q : term[p] > t /\ ack[p][t] < i PROVE FALSE
    <3>1. PICK p \in Node : p \in P /\ p \in Q
      BY QuorumsMeet
    <3>2. ack[p][t] \in Nat /\ ack[p][t] >= i /\ ack[p][t] < i
      BY <2>2, <2>3, <3>1, AckFacts
    <3> QED BY <1>1, <3>2
  <2>4. Has(lead[u], lead[t], i)
    BY <1>2, <2>1, <2>3 DEF History, SafeOK
  <2> QED BY <1>1, <1>2, <2>4 DEF Has
<1> QED BY <1>3, <1>4

\* The start of a log made by leaders is made by leaders.
LEMMA StartMatches ==
    ASSUME NEW lead \in Books, NEW M \in Seq(Entry), Matches(lead, M),
           NEW L \in Seq(Entry), Has(L, M, Len(L)), Len(L) <= Len(M)
    PROVE  Matches(lead, L)
<1> SUFFICES ASSUME NEW i \in 1..Len(L) PROVE Has(lead[L[i].term], L, i)
  BY DEF Matches
<1>1. Len(L) \in Nat /\ Len(M) \in Nat
  BY LogTypes
<1>2. i \in 1..Len(M) /\ \A j \in 1..i : L[j] = M[j]
  BY <1>1 DEF Has
<1>3. Has(lead[M[i].term], M, i) /\ L[i] = M[i]
  BY <1>1, <1>2 DEF Matches
<1> QED BY <1>2, <1>3 DEF Has

\* The log that a follower gets from the leader of term t.
LEMMA AcceptedLog ==
    ASSUME NEW lead \in Books, NEW ack \in Acks, History(lead, ack),
           NEW m \in Flying, Inv, m.type = "AppendEntries", Consistent(m),
           NEW last, last = m.content.prevIndex + Len(m.content.entries),
           NEW new, new = Merged(log[m.dst], m.content.prevIndex, m.content.entries),
           NEW t, t = m.term
    PROVE  /\ t \in Terms /\ Elected(t) /\ last \in Nat /\ last <= Len(lead[t])
           /\ new \in Seq(Entry) /\ Has(new, lead[t], last) /\ last <= Len(new)
           /\ \A i \in Nat : i <= Len(lead[t]) /\ Has(log[m.dst], lead[t], i) => Has(new, lead[t], i)
           /\ Matches(lead, new)
           /\ \A i \in 1..Len(new) : new[i].term <= t \/ new = log[m.dst]
<1> DEFINE mine == log[m.dst]
           whole == lead[t]
           prev == m.content.prevIndex
           sent == m.content.entries
<1>1. /\ t \in Terms /\ m.dst \in Node /\ AppendEntriesOK(lead, ack, m) /\ LedOK(lead)
      /\ mine \in Seq(Entry) /\ Matches(lead, mine)
  BY ReceiverFacts DEF History, FlyingOK, TellsTruth, LogsOK
<1>2. /\ Elected(t) /\ prev \in Nat /\ sent \in Seq(Entry)
      /\ last <= Len(whole) /\ m.content.prevTerm = TermAt(whole, prev)
      /\ \A k \in 1..Len(sent) : sent[k] = whole[prev + k]
  BY <1>1 DEF AppendEntriesOK
<1>3. whole \in Seq(Entry) /\ Matches(lead, whole) /\ \A i \in 1..Len(whole) : whole[i].term <= t
  BY <1>1, BookFacts DEF LedOK
<1>4. Len(whole) \in Nat /\ Len(mine) \in Nat /\ Len(sent) \in Nat
  BY <1>1, <1>2, <1>3, LogTypes
<1>5. prev <= Len(mine) /\ (prev > 0 => mine[prev].term = TermAt(whole, prev))
  BY <1>2 DEF Consistent, LastLogIndex
<1> HIDE DEF mine, whole, prev, sent
<1>6. \A i \in 1..Len(mine) : i <= Len(whole) /\ mine[i].term = whole[i].term
                                => Has(mine, whole, i)
  BY <1>1, <1>3, LogMatching
<1>7. Has(mine, whole, prev)
  <2>1. CASE prev = 0
    BY <1>4, <2>1 DEF Has
  <2>2. CASE prev > 0
    <3>1. prev \in 1..Len(mine) /\ prev <= Len(whole)
      BY <1>2, <1>4, <1>5, <2>2 DEF prev, sent
    <3>2. mine[prev].term = whole[prev].term
      BY <1>5, <2>2 DEF TermAt
    <3> QED BY <1>6, <3>1, <3>2
  <2> QED BY <1>2, <2>1, <2>2
<1>8. last = prev + Len(sent) /\ new = Merged(mine, prev, sent)
  BY DEF mine, prev, sent
<1>9. /\ new \in Seq(Entry) /\ Has(new, whole, last) /\ (new = mine \/ Len(new) = last)
      /\ \A i \in Nat : i <= Len(whole) /\ Has(mine, whole, i) => Has(new, whole, i)
  <2>1. mine \in Seq(Entry) /\ whole \in Seq(Entry) /\ sent \in Seq(Entry) /\ prev \in Nat
    BY <1>1, <1>2, <1>3
  <2>2. Continues(mine, whole, prev, sent)
    BY <1>2, <1>6, <1>7, <1>8 DEF Continues
  <2> QED BY <1>8, <2>1, <2>2, MergedFacts
<1>10. last \in Nat /\ last <= Len(new)
  BY <1>2, <1>4, <1>8, <1>9 DEF Has
<1>11. Matches(lead, new)
  <2>1. CASE new = mine
    BY <1>1, <2>1
  <2>2. CASE Len(new) = last
    BY <1>2, <1>3, <1>9, <2>2, StartMatches
  <2> QED BY <1>9, <2>1, <2>2
<1>12. ASSUME NEW i \in 1..Len(new) PROVE new[i].term <= t \/ new = mine
  <2>1. CASE Len(new) = last
    <3>1. i \in 1..last /\ i \in 1..Len(whole)
      BY <1>2, <1>4, <1>10, <2>1
    <3>2. new[i] = whole[i]
      BY <1>9, <3>1 DEF Has
    <3> QED BY <1>3, <3>1, <3>2
  <2> QED BY <1>9, <2>1
<1> QED BY <1>1, <1>2, <1>9, <1>10, <1>11, <1>12 DEF mine, whole

\* A refusal of an older term, and a fragment that does not follow the receiver's log.
LEMMA RefuseStep ==
    ASSUME NEW lead, NEW ack, Before(lead, ack), NEW m \in Flying,
           m.type = "AppendEntries", m.term < term[m.dst],
           Exchange({m}, {AppendReply(m.dst, m.src, term[m.dst], FALSE, 0)}),
           UNCHANGED <<term, votedFor, log, role, leaderId, commitIndex, alive, votes,
                       nextIndex, matchIndex, leadersByTerm, crashes>>
    PROVE  After(lead, ack)
<1> DEFINE reply == AppendReply(m.dst, m.src, term[m.dst], FALSE, 0)
<1>1. Flying' \subseteq Flying \cup {reply}
  BY ExchangeFacts
<1>2. m.dst \in Node /\ m.src # m.dst /\ m.term \in Terms /\ m.term \in Nat
  BY ReceiverFacts DEF Before, History, FlyingOK, TellsTruth
<1>3. term[m.dst] \in Terms
  BY <1>2, RaftFacts DEF Before
<1>4. ASSUME NEW x, x = reply PROVE TellsTruth(lead, ack, x)'
  BY <1>2, <1>3, <1>4 DEF AppendReply, Message, TellsTruth, AppendReplyOK
<1>5. Step(lead, ack, lead, ack)
  BY SameStep
<1>6. CandidatesOK' /\ RaftTypes'
  BY DEF Before, CandidatesOK, RaftTypes, TypeOK
<1>7. CandidatesStay /\ NobodyVotes
  BY DEF CandidatesStay, NobodyVotes
<1>8. History(lead, ack)'
  BY <1>1, <1>4, <1>5, <1>7, OldVotes, SameLeaders
<1> QED BY <1>6, <1>8 DEF After

LEMMA InconsistentStep ==
    ASSUME NEW lead, NEW ack, Before(lead, ack), NEW m \in Flying,
           m.type = "AppendEntries", m.term >= term[m.dst],
           Adopt(m, VoteNow(m), Follower, m.src),
           Exchange({m}, {AppendReply(m.dst, m.src, m.term, FALSE, 0)}),
           UNCHANGED <<log, commitIndex, alive, votes, nextIndex, matchIndex, leadersByTerm,
                       crashes>>
    PROVE  After(lead, ack)
<1> DEFINE reply == AppendReply(m.dst, m.src, m.term, FALSE, 0)
<1>1. Flying' \subseteq Flying \cup {reply}
  BY ExchangeFacts
<1>2. m.src \in Node /\ m.src # m.dst /\ m.term \in Terms
  BY ReceiverFacts DEF Before, History, FlyingOK, TellsTruth
<1>3. ASSUME NEW x, x = reply PROVE TellsTruth(lead, ack, x)'
  BY <1>2, <1>3 DEF AppendReply, Message, TellsTruth, AppendReplyOK
<1>4. votes' \in [Node -> SUBSET Node]
  BY DEF Before, Inv, ElectionTypeOK
<1> QED BY <1>1, <1>2, <1>3, <1>4, QuietAdopt

\* n's new log has the leader's up to index last, and more if it had.
Stores(lead, n, t, new, last) ==
    /\ last \in Nat /\ last <= Len(lead[t]) /\ Has(new, lead[t], last) /\ last <= Len(new)
    /\ \A i \in Nat : i <= Len(lead[t]) /\ Has(log[n], lead[t], i) => Has(new, lead[t], i)

\* What the receiver commits was decided by its leader's term, and it has it.
LEMMA AcceptedCommit ==
    ASSUME NEW lead, NEW ack, NEW ack2, Step(lead, ack, lead, ack2),
           NEW n \in Node, NEW t \in Terms, Elected(t), term[n] <= t,
           NEW new, NEW last, Stores(lead, n, t, new, last),
           NEW commit \in Nat, commit <= Len(lead[t]), Decided(lead, ack, lead[t], commit, t)
    PROVE  \A c : c = Max({commitIndex[n], Min({commit, last})}) =>
           /\ c \in Nat /\ c <= Len(new) /\ commitIndex[n] <= c /\ Decided(lead, ack2, new, c, t)
           /\ Has(new, log[n], commitIndex[n])
<1> SUFFICES ASSUME NEW c, c = Max({commitIndex[n], Min({commit, last})})
             PROVE  /\ c \in Nat /\ c <= Len(new) /\ commitIndex[n] <= c
                    /\ Decided(lead, ack2, new, c, t) /\ Has(new, log[n], commitIndex[n])
  OBVIOUS
<1> DEFINE c0 == commitIndex[n]
           c1 == Min({commit, last})
<1>1. /\ c0 \in Nat /\ c0 <= Len(log[n]) /\ Len(log[n]) \in Nat
      /\ Decided(lead, ack, log[n], c0, term[n])
  <2>1. log[n] \in Seq(Entry) /\ CommitOK(lead, ack, n)
    BY DEF Step, History, LogsOK
  <2>2. c0 \in 0..Len(log[n])
    BY DEF Step, TypeOK
  <2> QED BY <2>1, <2>2, LogTypes DEF CommitOK
<1>0. /\ last \in Nat /\ last <= Len(lead[t]) /\ Has(new, lead[t], last) /\ last <= Len(new)
      /\ \A i \in Nat : i <= Len(lead[t]) /\ Has(log[n], lead[t], i) => Has(new, lead[t], i)
  BY DEF Stores
<1>2. c1 \in {commit, last} /\ c1 <= commit /\ c1 <= last
  <2>1. commit \in Int /\ last \in Int
    BY <1>0
  <2> QED BY <2>1, MinOfTwo
<1> HIDE DEF c1
<1>3. c1 \in Nat
  BY <1>0, <1>2
<1>4. c \in {c0, c1} /\ c0 <= c /\ c1 <= c
  <2>1. c = Max({c0, c1}) /\ c0 \in Int /\ c1 \in Int
    BY <1>1, <1>3 DEF c1
  <2> HIDE DEF c0
  <2> QED BY <2>1, MaxOfTwo
<1>5. lead \in Books /\ ack \in Acks /\ History(lead, ack) /\ term[n] \in Int /\ t \in Int
  BY BookFacts DEF Step, Inv, ElectionTypeOK
<1>6. c0 # 0 => c0 <= Len(lead[t]) /\ Has(log[n], lead[t], c0)
  BY <1>1, <1>5, LeaderHasDecided
<1>7. Has(new, log[n], c0) /\ c0 <= Len(new)
  <2>1. CASE c0 = 0
    BY <1>1, <2>1 DEF Has
  <2>2. CASE c0 # 0
    <3>1. Has(new, lead[t], c0) /\ Has(log[n], lead[t], c0)
      BY <1>0, <1>1, <1>6, <2>2
    <3> QED BY <3>1 DEF Has
  <2> QED BY <2>1, <2>2
<1>8. Decided(lead, ack2, new, c0, t)
  BY <1>1, <1>5, <1>7, DecidedStays
<1>9. Decided(lead, ack2, new, c1, t)
  <2>1. Decided(lead, ack, lead[t], c1, t)
    <3>1. CASE c1 = 0
      BY <3>1 DEF Decided
    <3>2. CASE c1 # 0
      <4>1. commit # 0
        BY <1>2, <1>3, <3>2
      <4>2. PICK s \in Terms, i \in Nat : s <= t /\ commit <= i /\ Chosen(lead, ack, s, i)
                                          /\ Has(lead[t], lead[s], commit)
        BY <4>1 DEF Decided
      <4>3. c1 <= i /\ Has(lead[t], lead[s], c1)
        <5>1. Len(lead[t]) \in Nat
          BY <1>5, BookFacts
        <5> QED BY <1>2, <1>3, <4>2, <5>1 DEF Has
      <4> QED BY <4>2, <4>3 DEF Decided
    <3> QED BY <3>1, <3>2
  <2>2. Has(new, lead[t], c1)
    BY <1>0, <1>2, <1>3 DEF Has
  <2> QED BY <1>3, <1>5, <2>1, <2>2, DecidedStays
<1>10. c1 <= Len(new)
  BY <1>0, <1>2, <1>3
<1> QED BY <1>1, <1>3, <1>4, <1>7, <1>8, <1>9, <1>10

\* The receiver stores the entries, up to index last, and commits up to c.
Accepts(m, last, new, c) ==
    /\ m.type = "AppendEntries" /\ m.term >= term[m.dst] /\ Consistent(m)
    /\ last = m.content.prevIndex + Len(m.content.entries)
    /\ new = Merged(log[m.dst], m.content.prevIndex, m.content.entries)
    /\ c = Max({commitIndex[m.dst], Min({m.content.commit, last})})
    /\ Adopt(m, VoteNow(m), Follower, m.src)
    /\ log' = [log EXCEPT ![m.dst] = new]
    /\ commitIndex' = [commitIndex EXCEPT ![m.dst] = c]
    /\ Exchange({m}, {AppendReply(m.dst, m.src, m.term, TRUE, last)})
    /\ UNCHANGED <<alive, votes, nextIndex, matchIndex, leadersByTerm, crashes>>

LEMMA AcceptStep ==
    ASSUME NEW lead, NEW ack, Before(lead, ack), NEW m \in Flying,
           NEW last, NEW new, NEW c, Accepts(m, last, new, c)
    PROVE  /\ \E ack2 : Step(lead, ack, lead, ack2) /\ After(lead, ack2)
           /\ commitIndex[m.dst] <= c /\ Has(new, log[m.dst], commitIndex[m.dst])
<1>0. SUFFICES ASSUME NEW n, n = m.dst, NEW t, t = m.term,
                      NEW most, most = Max({ack[n][t], last}),
                      NEW ack2, ack2 = [ack EXCEPT ![n][t] = most]
               PROVE  /\ Step(lead, ack, lead, ack2) /\ After(lead, ack2)
                      /\ commitIndex[n] <= c /\ Has(new, log[n], commitIndex[n])
  OBVIOUS
<1>a. /\ m.type = "AppendEntries" /\ m.term >= term[m.dst] /\ Consistent(m)
      /\ last = m.content.prevIndex + Len(m.content.entries)
      /\ new = Merged(log[m.dst], m.content.prevIndex, m.content.entries)
      /\ Adopt(m, VoteNow(m), Follower, m.src)
  BY DEF Accepts
<1>b. UNCHANGED <<alive, votes, nextIndex, matchIndex, leadersByTerm, crashes>>
  BY DEF Accepts
<1>1. /\ lead \in Books /\ ack \in Acks /\ Inv /\ CandidatesOK /\ RaftTypes /\ History(lead, ack)
      /\ Inv' /\ VotesGrow
  BY DEF Before
<1>2. /\ t \in Terms /\ t \in Nat /\ Elected(t) /\ last \in Nat /\ last <= Len(lead[t])
      /\ new \in Seq(Entry) /\ Has(new, lead[t], last) /\ last <= Len(new)
      /\ \A i \in Nat : i <= Len(lead[t]) /\ Has(log[n], lead[t], i) => Has(new, lead[t], i)
      /\ Matches(lead, new)
      /\ \A i \in 1..Len(new) : new[i].term <= t \/ new = log[n]
  BY <1>0, <1>a, <1>1, AcceptedLog, BookFacts
<1>3. /\ n \in Node /\ m.src \in Node /\ m.src # n /\ AppendEntriesOK(lead, ack, m)
      /\ term[n] \in Nat /\ term[n] <= t /\ TermNow(m) = t
  <2>1. n \in Node /\ m.src \in Node /\ term[n] \in Nat /\ TermNow(m) = t
    BY <1>0, <1>a, <1>1, <1>2, ReceiverFacts DEF Inv, ElectionTypeOK, TermNow, Newer
  <2> QED BY <1>0, <1>a, <1>1, <1>2, <2>1 DEF History, FlyingOK, TellsTruth
<1>4. /\ term' \in [Node -> 0..MaxTerm] /\ votedFor' \in [Node -> Node \cup {None}]
      /\ role' \in [Node -> {Follower, Candidate, Leader}]
      /\ leaderId' \in [Node -> Node \cup {None}]
      /\ term'[n] = t
      /\ \A p \in Node \ {n} : term'[p] = term[p]
      /\ \A p \in Node : role'[p] \in {Candidate, Leader} => role[p] = role'[p] /\ term'[p] = term[p]
  <2>1. VoteNow(m) \in Node \cup {None}
    BY <1>1, NowFacts
  <2>2. Follower \in {RoleNow(m), Follower} /\ m.src \in Node \cup {None}
    BY <1>3
  <2> QED BY <1>0, <1>a, <1>3, <2>1, <2>2, AdoptFacts
<1>5. role'[n] = Follower
  BY <1>0, <1>a, <1>1, <1>3 DEF Adopt, Inv, ElectionTypeOK
<1>6. log \in [Node -> Seq(Entry)] /\ log[n] \in Seq(Entry) /\ DOMAIN commitIndex = Node
  BY <1>1, <1>3 DEF History, LogsOK, RaftTypes
<1>7. /\ log' \in [Node -> Seq(Entry)] /\ log'[n] = new
      /\ DOMAIN commitIndex' = Node /\ commitIndex'[n] = c
      /\ \A p \in Node \ {n} : log'[p] = log[p] /\ commitIndex'[p] = commitIndex[p]
  <2>1. log' = [log EXCEPT ![n] = new] /\ commitIndex' = [commitIndex EXCEPT ![n] = c]
    BY <1>0 DEF Accepts
  <2> QED BY <1>2, <1>3, <1>6, <2>1
<1>8. ack[n][t] \in Nat /\ most \in {ack[n][t], last} /\ ack[n][t] <= most /\ last <= most
  <2>1. ack[n][t] \in Nat
    BY <1>1, <1>2, <1>3, AckFacts
  <2>2. most = Max({ack[n][t], last}) /\ ack[n][t] \in Int /\ last \in Int
    BY <1>0, <1>2, <2>1
  <2> QED BY <2>1, <2>2, MaxOfTwo
<1>9. /\ ack2 \in Acks /\ ack2[n][t] = most
      /\ \A p \in Node, s \in Terms : p # n \/ s # t => ack2[p][s] = ack[p][s]
  <2>1. ack \in [Node -> [Terms -> Nat]] /\ most \in Nat
    BY <1>1, <1>2, <1>8 DEF Acks
  <2>2. ack2 = [ack EXCEPT ![n][t] = most]
    BY <1>0
  <2> QED BY <1>2, <1>3, <2>1, <2>2 DEF Acks
<1>10. Step(lead, ack, lead, ack2)
  <2>1. \A p \in Node : term[p] <= term'[p]
    BY <1>1, TermsGrow
  <2>2. \A s \in Terms : Has(lead[s], lead[s], Len(lead[s])) /\ Len(lead[s]) \in Nat
    BY <1>1, BookFacts DEF Has
  <2>3. ASSUME NEW p \in Node, NEW s \in Terms
        PROVE  ack[p][s] <= ack2[p][s] /\ (s # term'[p] => ack2[p][s] = ack[p][s])
    <3>1. ack[p][s] \in Nat
      BY <1>1, AckFacts
    <3>2. CASE p = n /\ s = t
      BY <1>4, <1>8, <1>9, <3>2
    <3>3. CASE ~(p = n /\ s = t)
      BY <1>9, <3>1, <3>3
    <3> QED BY <3>2, <3>3
  <2>4. Grows(lead, ack, lead, ack2)
    BY <1>b, <2>1, <2>2, <2>3 DEF Grows, Elected
  <2> QED BY <1>1, <1>9, <2>4 DEF Step, RaftTypes
<1>11. CandidatesStay
  BY <1>4, <1>5, <1>7, NodeAssumption DEF CandidatesStay
<1>12. NobodyVotes
  <2>1. Follower \in {RoleNow(m), Follower} /\ m.src \in Node \cup {None}
    BY <1>3
  <2> QED BY <1>a, <2>1, AdoptVotes
<1>13. /\ c \in Nat /\ c <= Len(new) /\ commitIndex[n] <= c /\ Decided(lead, ack2, new, c, t)
       /\ Has(new, log[n], commitIndex[n])
  <2> DEFINE commit == m.content.commit
  <2>1. commit \in Nat /\ commit <= Len(lead[t]) /\ Decided(lead, ack, lead[t], commit, t)
    BY <1>0, <1>3 DEF AppendEntriesOK
  <2>2. c = Max({commitIndex[n], Min({commit, last})})
    BY <1>0 DEF Accepts
  <2> HIDE DEF commit
  <2>3. Stores(lead, n, t, new, last)
    BY <1>2 DEF Stores
  <2>4. \A d : d = Max({commitIndex[n], Min({commit, last})}) =>
           /\ d \in Nat /\ d <= Len(new) /\ commitIndex[n] <= d /\ Decided(lead, ack2, new, d, t)
           /\ Has(new, log[n], commitIndex[n])
    BY <1>2, <1>3, <1>10, <2>1, <2>3, AcceptedCommit
  <2> QED BY <2>2, <2>4
<1>14. CandidatesOK'
  <2>1. \A p \in Node : role'[p] = Candidate => role[p] = Candidate /\ term'[p] = term[p]
    BY <1>4
  <2> QED BY <1>b, <1>1, <2>1, CandidatesRemain
<1>15. RaftTypes'
  <2>1. ASSUME NEW p \in Node, NEW i \in 1..Len(log'[p])
        PROVE  log'[p][i] \in [term : 1..MaxTerm, command : Command]
    <3>1. log'[p] \in Seq(Entry)
      BY <1>7
    <3> QED BY <3>1, LogTypes DEF Entry, Terms
  <2>2. ASSUME NEW p \in Node PROVE commitIndex'[p] \in 0..Len(log'[p])
    <3>1. Len(log'[p]) \in Nat
      BY <1>7, LogTypes
    <3>2. CASE p = n
      BY <1>7, <1>13, <3>1, <3>2
    <3>3. CASE p # n
      BY <1>1, <1>7, <3>3 DEF RaftTypes, TypeOK
    <3> QED BY <3>2, <3>3
  <2> QED BY <1>b, <1>1, <1>4, <1>7, <2>1, <2>2 DEF RaftTypes, TypeOK, Peers
<1>16. LedOK(lead)'
  BY <1>b, <1>1 DEF LedOK, Elected, History
<1>17. LogsOK(lead)'
  <2> SUFFICES ASSUME NEW p \in Node
               PROVE  Matches(lead, log'[p]) /\ \A i \in 1..Len(log'[p]) : log'[p][i].term <= term'[p]
    BY <1>7 DEF LogsOK
  <2>1. CASE p # n
    BY <1>1, <1>4, <1>7, <2>1 DEF History, LogsOK
  <2>2. CASE p = n
    <3>1. ASSUME NEW i \in 1..Len(new), new = log[n] PROVE new[i].term <= t
      <4>1. new[i].term <= term[n] /\ new[i].term \in Nat
        BY <1>1, <1>2, <1>3, <3>1, LogTypes DEF History, LogsOK
      <4> QED BY <1>2, <1>3, <4>1
    <3> QED BY <1>2, <1>4, <1>7, <2>2, <3>1
  <2> QED BY <2>1, <2>2
<1>18. LeadersOK(lead, ack2)'
  <2> SUFFICES ASSUME NEW p \in Node, role'[p] = Leader PROVE LeaderOK(lead, ack2, p)'
    BY DEF LeadersOK
  <2>1. p # n /\ role[p] = Leader /\ term'[p] = term[p] /\ log'[p] = log[p]
    BY <1>4, <1>5, <1>7, NodeAssumption
  <2>2. term[p] \in Terms /\ p \in leadersByTerm[term[p]]
    BY <1>1, <2>1 DEF History, LeadersOK, LeaderOK
  <2> QED BY <1>b, <1>9, <1>10, <2>1, <2>2, LeaderStays
<1>19. FlyingOK(lead, ack2)'
  <2> SUFFICES ASSUME NEW x \in Flying' PROVE TellsTruth(lead, ack2, x)'
    BY DEF FlyingOK
  <2>1. CASE x \in Flying
    BY <1>10, <1>11, <2>1, TellsStays
  <2>2. CASE x = AppendReply(n, m.src, t, TRUE, last)
    BY <1>2, <1>3, <1>8, <1>9, <2>2 DEF AppendReply, Message, TellsTruth, AppendReplyOK
  <2>3. Flying' \subseteq Flying \cup {AppendReply(n, m.src, t, TRUE, last)}
    BY <1>0, ExchangeFacts DEF Accepts
  <2> QED BY <2>1, <2>2, <2>3
<1>20. KeptOK(lead, ack2, n)'
  <2> SUFFICES ASSUME NEW s \in Terms
               PROVE  /\ ack2[n][s] <= Len(lead[s]) /\ (s > t => ack2[n][s] = 0)
                      /\ \A i \in 1..ack2[n][s] : Has(new, lead[s], i) \/ Overruled(lead, s, i, t)
    BY <1>b, <1>3, <1>4, <1>7 DEF KeptOK, Overruled, Elected
  <2>1. /\ s \in Nat /\ Len(lead[s]) \in Nat /\ ack[n][s] \in Nat
        /\ ack[n][s] <= Len(lead[s]) /\ (s > term[n] => ack[n][s] = 0)
        /\ \A i \in 1..ack[n][s] : Has(log[n], lead[s], i) \/ Overruled(lead, s, i, term[n])
    BY <1>1, <1>3, BookFacts, AckFacts DEF History, KeptOK
  <2>2. ack2[n][s] \in {ack[n][s], most} /\ (s # t => ack2[n][s] = ack[n][s])
    BY <1>3, <1>9
  <2>3. ack2[n][s] <= Len(lead[s]) /\ (s > t => ack2[n][s] = 0)
    BY <1>2, <1>3, <1>8, <1>9, <2>1, <2>2
  <2>4. ASSUME NEW i \in 1..ack[n][s], Overruled(lead, s, i, term[n])
        PROVE  Overruled(lead, s, i, t) /\ s # t
    <3>1. PICK w \in Terms : s < w /\ w <= term[n] /\ Elected(w) /\ ~Has(lead[w], lead[s], i)
      BY <2>4 DEF Overruled
    <3>2. w \in Nat
      BY BoundAssumption DEF Terms
    <3>3. w <= t /\ s < t
      BY <1>2, <1>3, <2>1, <3>1, <3>2
    <3>4. Overruled(lead, s, i, t)
      BY <3>1, <3>3 DEF Overruled
    <3> QED BY <1>2, <2>1, <3>3, <3>4
  <2>5. ASSUME NEW i \in 1..ack2[n][s] PROVE Has(new, lead[s], i) \/ Overruled(lead, s, i, t)
    <3>1. i \in Nat /\ i <= Len(lead[s])
      BY <1>2, <1>8, <2>1, <2>2, <2>3
    <3>2. CASE s = t
      <4>1. CASE i <= last
        BY <1>2, <3>1, <3>2, <4>1 DEF Has
      <4>2. CASE ~(i <= last)
        <5>1. i \in 1..ack[n][s]
          BY <1>2, <1>8, <1>9, <2>1, <3>1, <3>2, <4>2
        <5>2. Has(log[n], lead[t], i)
          BY <2>1, <2>4, <3>2, <5>1
        <5> QED BY <1>2, <3>1, <3>2, <5>2
      <4> QED BY <4>1, <4>2
    <3>3. CASE s # t
      <4>1. i \in 1..ack[n][s]
        BY <2>2, <3>3
      <4>2. CASE Overruled(lead, s, i, term[n])
        BY <2>4, <4>1, <4>2
      <4>3. CASE Has(log[n], lead[s], i)
        <5>1. s < t
          BY <1>2, <1>3, <2>1, <3>3, <4>1
        <5>2. CASE ~Has(lead[t], lead[s], i)
          BY <1>2, <5>1, <5>2 DEF Overruled
        <5>3. CASE Has(lead[t], lead[s], i)
          <6>1. i <= Len(lead[t]) /\ Has(log[n], lead[t], i)
            BY <4>3, <5>3 DEF Has
          <6>2. Has(new, lead[t], i)
            BY <1>2, <3>1, <6>1
          <6>3. Has(new, lead[s], i)
            BY <5>3, <6>2 DEF Has
          <6> QED BY <6>3
        <5> QED BY <5>2, <5>3
      <4> QED BY <2>1, <4>1, <4>2, <4>3
    <3> QED BY <3>2, <3>3
  <2> QED BY <2>3, <2>5
<1>21. \A p \in Node : KeptOK(lead, ack2, p)'
  <2> SUFFICES ASSUME NEW p \in Node, p # n PROVE KeptOK(lead, ack2, p)'
    BY <1>20
  <2>1. log'[p] = log[p] /\ ack2[p] = ack[p]
    BY <1>7, <1>9, <1>1 DEF Acks
  <2> QED BY <1>10, <2>1, KeptStays
<1>22. \A p \in Node : CommitOK(lead, ack2, p)'
  <2> SUFFICES ASSUME NEW p \in Node PROVE CommitOK(lead, ack2, p)'
    OBVIOUS
  <2>1. CASE p = n
    BY <1>4, <1>7, <1>13, <2>1 DEF CommitOK, Decided, Chosen
  <2>2. CASE p # n
    <3>1. log'[p] = log[p] /\ log[p] \in Seq(Entry) /\ Len(log[p]) \in Nat
          /\ commitIndex'[p] = commitIndex[p]
      BY <1>6, <1>7, <2>2, LogTypes
    <3> QED BY <1>10, <3>1, CommitStays
  <2> QED BY <2>1, <2>2
<1>23. VotesOK(lead, ack2)'
  BY <1>10, <1>11, <1>12, OldVotes
<1>24. \A u \in Terms : Elected(u)' => SafeOK(lead, ack2, u)'
  BY <1>b, <1>10, <1>16, SafeStays DEF Elected
<1>25. History(lead, ack2)'
  BY <1>16, <1>17, <1>18, <1>19, <1>21, <1>22, <1>23, <1>24 DEF History
<1> QED BY <1>10, <1>13, <1>14, <1>15, <1>25 DEF After

------------------------------------------------------------------------------
(* How a leader begins and goes on *)

\* A leader has acknowledged its own log, and keeps what it had acknowledged before.
LEMMA KeptExtends ==
    ASSUME NEW lead, NEW ack, NEW lead2, NEW ack2, Step(lead, ack, lead2, ack2),
           NEW n \in Node, term[n] \in Terms, term'[n] = term[n],
           log'[n] \in Seq(Entry), Has(log'[n], log[n], Len(log[n])),
           lead2[term[n]] = log'[n], ack2[n][term[n]] = Len(log'[n]),
           \A s \in Terms : s # term[n] => ack2[n][s] = ack[n][s]
    PROVE  KeptOK(lead2, ack2, n)'
<1> DEFINE u == term[n]
<1> SUFFICES ASSUME NEW s \in Terms
             PROVE  /\ ack2[n][s] <= Len(lead2[s]) /\ (s > u => ack2[n][s] = 0)
                    /\ \A i \in 1..ack2[n][s] : \/ Has(log'[n], lead2[s], i)
                                                \/ Overruled(lead2, s, i, u)'
  BY DEF KeptOK
<1>1. /\ Len(lead[s]) \in Nat /\ Len(lead2[s]) \in Nat /\ ack[n][s] \in Nat /\ s \in Nat /\ u \in Nat
      /\ Len(log'[n]) \in Nat /\ Len(log[n]) \in Nat
  <2>1. log[n] \in Seq(Entry)
    BY DEF Step, History, LogsOK
  <2> QED BY <2>1, BookFacts, AckFacts, LogTypes DEF Step
<1>2. CASE s = u
  BY <1>1, <1>2 DEF Has
<1>3. CASE s # u
  <2>1. ack2[n][s] = ack[n][s] /\ ack[n][s] <= Len(lead[s]) /\ (s > u => ack[n][s] = 0)
    BY <1>3 DEF Step, History, KeptOK
  <2>2. Len(lead[s]) <= Len(lead2[s])
    BY <1>1 DEF Step, Grows, Has
  <2>3. ASSUME NEW i \in 1..ack[n][s]
        PROVE  Has(log'[n], lead2[s], i) \/ Overruled(lead2, s, i, u)'
    <3>1. i \in 1..Len(lead[s]) /\ i \in Nat
      BY <1>1, <2>1
    <3>2. CASE Has(log[n], lead[s], i)
      <4>1. Has(log'[n], lead[s], i)
        BY <1>1, <3>1, <3>2 DEF Has
      <4> QED BY <2>1, <3>1, <4>1, HasStays
    <3>3. CASE Overruled(lead, s, i, u)
      BY <1>1, <3>1, <3>3, OverruledStays
    <3> QED BY <3>2, <3>3 DEF Step, History, KeptOK
  <2> QED BY <1>1, <2>1, <2>2, <2>3
<1> QED BY <1>2, <1>3

\* A leader's own log with one more entry of its term.
LEMMA AppendFacts ==
    ASSUME NEW L \in Seq(Entry), NEW e \in Entry, NEW new, new = Append(L, e)
    PROVE  /\ new \in Seq(Entry) /\ Len(new) = Len(L) + 1 /\ Len(L) \in Nat
           /\ \A i \in 1..Len(L) : new[i] = L[i]
           /\ new[Len(L) + 1] = e
  BY AppendProperties, LogTypes

LEMMA SubmitStep ==
    ASSUME NEW lead, NEW ack, Before(lead, ack), NEW n \in Node, NEW c \in Command, Submit(n, c)
    PROVE  \E lead2, ack2 : Step(lead, ack, lead2, ack2) /\ After(lead2, ack2)
<1>0. SUFFICES ASSUME NEW t, t = term[n], NEW L, L = log[n],
                      NEW new, new = Append(L, [term |-> t, command |-> c]),
                      NEW lead2, lead2 = [lead EXCEPT ![t] = new],
                      NEW ack2, ack2 = [ack EXCEPT ![n][t] = Len(new)]
               PROVE  Step(lead, ack, lead2, ack2) /\ After(lead2, ack2)
  OBVIOUS
<1>t. t = term[n] /\ L = log[n]
  BY <1>0
<1> DEFINE S == {AppendEntries(n, p, t, new, nextIndex[n][p], commitIndex[n]) : p \in Peers(n)}
<1>1. /\ lead \in Books /\ ack \in Acks /\ Inv /\ CandidatesOK /\ RaftTypes /\ History(lead, ack)
      /\ Inv' /\ VotesGrow
  BY DEF Before
<1>2. /\ role[n] = Leader /\ Len(L) < MaxLog /\ log' = [log EXCEPT ![n] = new]
      /\ UNCHANGED <<term, votedFor, role, leaderId, commitIndex, alive, votes, nextIndex,
                     matchIndex, leadersByTerm, crashes>>
  BY <1>0 DEF Submit, leaderVars
<1>3. /\ LeaderOK(lead, ack, n) /\ CommitOK(lead, ack, n) /\ log \in [Node -> Seq(Entry)]
      /\ LedOK(lead) /\ LogsOK(lead)
  BY <1>1, <1>2 DEF History, LeadersOK, LogsOK
<1>4. /\ t \in Terms /\ t \in Nat /\ n \in leadersByTerm[t] /\ L = lead[t] /\ L \in Seq(Entry)
      /\ ack[n][t] = Len(L) /\ Len(L) \in Nat
  <2>1. t \in Terms /\ n \in leadersByTerm[t] /\ L = lead[t] /\ ack[n][t] = Len(L) /\ L \in Seq(Entry)
    BY <1>0, <1>3 DEF LeaderOK
  <2> QED BY <1>1, <2>1, BookFacts
<1>5. /\ new \in Seq(Entry) /\ Len(new) = Len(L) + 1 /\ Len(new) <= MaxLog
      /\ \A i \in 1..Len(L) : new[i] = L[i]
      /\ new[Len(L) + 1].term = t /\ Has(new, L, Len(L))
  <2>1. [term |-> t, command |-> c] \in Entry
    BY <1>4 DEF Entry
  <2>2. /\ new \in Seq(Entry) /\ Len(new) = Len(L) + 1
        /\ \A i \in 1..Len(L) : new[i] = L[i]
        /\ new[Len(L) + 1] = [term |-> t, command |-> c]
    BY <1>0, <1>4, <2>1, AppendFacts
  <2> QED BY <1>2, <1>4, <2>2, BoundAssumption DEF Has
<1>6. /\ log' \in [Node -> Seq(Entry)] /\ log'[n] = new
      /\ \A p \in Node \ {n} : log'[p] = log[p]
  BY <1>2, <1>3, <1>5
<1>u. ASSUME NEW p \in Node
      PROVE  /\ Len(log[p]) \in Nat /\ Len(log'[p]) \in Nat /\ Len(log[p]) <= Len(log'[p])
             /\ \A j \in 1..Len(log[p]) : log'[p][j] = log[p][j]
             /\ log'[p] \in Seq(Entry)
  <2>1. CASE p = n
    <3>1. log[p] = L /\ log'[p] = new
      BY <1>t, <1>6, <2>1
    <3>2. Len(new) \in Nat /\ Len(L) <= Len(new)
      BY <1>4, <1>5
    <3> QED BY <1>4, <1>5, <3>1, <3>2
  <2>2. CASE p # n
    <3>1. log[p] \in Seq(Entry) /\ log'[p] = log[p]
      BY <1>3, <1>6, <2>2
    <3> QED BY <3>1, LogTypes
  <2> QED BY <2>1, <2>2
<1>7. lead2 \in Books /\ lead2[t] = new /\ \A s \in Terms : s # t => lead2[s] = lead[s]
  <2>1. lead \in [Terms -> Seq(Entry)] /\ lead2 = [lead EXCEPT ![t] = new]
    BY <1>0, <1>1 DEF Books
  <2> QED BY <1>4, <1>5, <2>1 DEF Books
<1>8. /\ ack2 \in Acks /\ ack2[n][t] = Len(new)
      /\ \A p \in Node, s \in Terms : p # n \/ s # t => ack2[p][s] = ack[p][s]
  <2>1. ack \in [Node -> [Terms -> Nat]] /\ ack2 = [ack EXCEPT ![n][t] = Len(new)] /\ Len(new) \in Nat
    BY <1>0, <1>1, <1>4, <1>5 DEF Acks
  <2> QED BY <1>4, <2>1 DEF Acks
<1>9. Step(lead, ack, lead2, ack2)
  <2>1. ASSUME NEW s \in Terms
        PROVE  /\ Has(lead2[s], lead[s], Len(lead[s]))
               /\ \A i \in 1..Len(lead2[s]) : i > Len(lead[s]) => lead2[s][i].term = s
    <3>1. lead[s] \in Seq(Entry) /\ Len(lead[s]) \in Nat
      BY <1>1, BookFacts
    <3>2. CASE s = t
      <4>1. ASSUME NEW i \in 1..Len(new), i > Len(L) PROVE new[i].term = t
        <5>1. i = Len(L) + 1
          BY <1>4, <1>5, <4>1
        <5> QED BY <1>5, <5>1
      <4> QED BY <1>4, <1>5, <1>7, <3>2, <4>1
    <3>3. CASE s # t
      BY <1>7, <3>1, <3>3 DEF Has
    <3> QED BY <3>2, <3>3
  <2>2. ASSUME NEW p \in Node, NEW s \in Terms
        PROVE  ack[p][s] <= ack2[p][s] /\ (s # term'[p] => ack2[p][s] = ack[p][s])
    <3>1. ack[p][s] \in Nat
      BY <1>1, AckFacts
    <3>2. CASE p = n /\ s = t
      BY <1>t, <1>2, <1>4, <1>5, <1>8, <3>2
    <3>3. CASE ~(p = n /\ s = t)
      BY <1>8, <3>1, <3>3
    <3> QED BY <3>2, <3>3
  <2>3. \A p \in Node : term[p] <= term'[p]
    BY <1>1, TermsGrow
  <2>4. Grows(lead, ack, lead2, ack2)
    BY <1>2, <2>1, <2>2, <2>3 DEF Grows, Elected
  <2> QED BY <1>1, <1>7, <1>8, <2>4 DEF Step, RaftTypes
<1>10. CandidatesOK' /\ CandidatesStay /\ NobodyVotes
  <2>1. \A p \in Node : role[p] = Candidate => p # n
    BY <1>2, NodeAssumption
  <2> QED BY <1>1, <1>2, <1>6, <2>1 DEF CandidatesOK, CandidatesStay, NobodyVotes
<1>11. RaftTypes'
  <2>1. ASSUME NEW p \in Node, NEW i \in 1..Len(log'[p])
        PROVE  log'[p][i] \in [term : 1..MaxTerm, command : Command]
    <3>1. log'[p] \in Seq(Entry)
      BY <1>6
    <3> QED BY <3>1, LogTypes DEF Entry, Terms
  <2>2. ASSUME NEW p \in Node PROVE commitIndex[p] \in 0..Len(log'[p])
    <3>1. commitIndex[p] \in 0..Len(log[p])
      BY <1>1 DEF RaftTypes, TypeOK
    <3> QED BY <1>u, <3>1
  <2> QED BY <1>1, <1>2, <2>1, <2>2 DEF RaftTypes, TypeOK, Peers
<1>12. Matches(lead2, new)
  <2>1. Matches(lead2, L)
    BY <1>3, <1>4, <1>9, MatchesStays DEF LedOK
  <2> SUFFICES ASSUME NEW i \in 1..Len(new) PROVE Has(lead2[new[i].term], new, i)
    BY DEF Matches
  <2>2. CASE i = Len(L) + 1
    BY <1>4, <1>5, <1>7, <2>2 DEF Has
  <2>3. CASE i \in 1..Len(L)
    <3>1. Has(lead2[L[i].term], L, i) /\ new[i] = L[i]
      BY <1>5, <2>1, <2>3 DEF Matches
    <3> QED BY <1>4, <1>5, <2>3, <3>1 DEF Has
  <2> QED BY <1>4, <1>5, <2>2, <2>3
<1>13. /\ \A i \in 1..Len(new) : new[i].term <= t
       /\ \A i, j \in 1..Len(new) : i <= j => new[i].term <= new[j].term
  <2>1. /\ \A i \in 1..Len(L) : L[i].term <= t
        /\ \A i, j \in 1..Len(L) : i <= j => L[i].term <= L[j].term
    BY <1>3, <1>4 DEF LedOK
  <2>2. ASSUME NEW i \in 1..Len(new) PROVE new[i].term <= t
    <3>1. CASE i \in 1..Len(L)
      BY <1>5, <2>1, <3>1
    <3>2. CASE i = Len(L) + 1
      BY <1>4, <1>5, <3>2
    <3> QED BY <1>4, <1>5, <3>1, <3>2
  <2>3. ASSUME NEW i \in 1..Len(new), NEW j \in 1..Len(new), i <= j
        PROVE  new[i].term <= new[j].term
    <3>1. CASE j \in 1..Len(L)
      <4>1. i \in 1..Len(L)
        BY <1>4, <2>3, <3>1
      <4> QED BY <1>5, <2>1, <2>3, <3>1, <4>1
    <3>2. CASE j = Len(L) + 1
      BY <1>5, <2>2, <3>2
    <3> QED BY <1>4, <1>5, <3>1, <3>2
  <2> QED BY <2>2, <2>3
<1>14. LedOK(lead2)'
  <2> SUFFICES ASSUME NEW s \in Terms
               PROVE  /\ Len(lead2[s]) <= MaxLog
                      /\ lead2[s] # <<>> => Elected(s)
                      /\ Matches(lead2, lead2[s])
                      /\ \A i \in 1..Len(lead2[s]) : lead2[s][i].term <= s
                      /\ \A i, j \in 1..Len(lead2[s]) : i <= j => lead2[s][i].term <= lead2[s][j].term
    BY <1>2 DEF LedOK, Elected
  <2>1. CASE s = t
    BY <1>4, <1>5, <1>7, <1>12, <1>13, <2>1 DEF Elected
  <2>2. CASE s # t
    <3>1. lead[s] \in Seq(Entry) /\ Matches(lead, lead[s]) /\ lead2[s] = lead[s]
      BY <1>1, <1>3, <1>7, <2>2, BookFacts DEF LedOK
    <3>2. Matches(lead2, lead[s])
      BY <1>9, <3>1, MatchesStays
    <3> QED BY <1>3, <3>1, <3>2 DEF LedOK
  <2> QED BY <2>1, <2>2
<1>15. LogsOK(lead2)'
  <2> SUFFICES ASSUME NEW p \in Node
               PROVE  Matches(lead2, log'[p]) /\ \A i \in 1..Len(log'[p]) : log'[p][i].term <= term[p]
    BY <1>2, <1>6 DEF LogsOK
  <2>1. CASE p = n
    BY <1>t, <1>6, <1>12, <1>13, <2>1
  <2>2. CASE p # n
    <3>1. log[p] \in Seq(Entry) /\ Matches(lead, log[p]) /\ log'[p] = log[p]
      BY <1>3, <1>6, <2>2 DEF LogsOK
    <3>2. Matches(lead2, log[p])
      BY <1>9, <3>1, MatchesStays
    <3> QED BY <1>3, <3>1, <3>2 DEF LogsOK
  <2> QED BY <2>1, <2>2
<1>16. LeadersOK(lead2, ack2)'
  <2>1. leadersByTerm[t] \subseteq {n}
    <3>1. leadersByTerm[t] \subseteq Node /\ t \in DOMAIN leadersByTerm
      BY <1>1, <1>4 DEF Inv, ElectionTypeOK, Terms
    <3> QED BY <1>1, <1>4, <3>1 DEF Inv, ElectionSafety
  <2> SUFFICES ASSUME NEW p \in Node, role'[p] = Leader PROVE LeaderOK(lead2, ack2, p)'
    BY DEF LeadersOK
  <2>2. CASE p = n
    <3>1. ASSUME NEW q \in Peers(n)
          PROVE  nextIndex[n][q] <= Len(new) + 1 /\ matchIndex[n][q] <= ack2[q][t]
      <4>1. q \in Node /\ q # n
        BY DEF Peers
      <4>2. nextIndex[n][q] \in Nat
        BY <1>1, RaftFacts
      <4>3. nextIndex[n][q] <= Len(L) + 1 /\ matchIndex[n][q] <= ack[q][t]
        BY <1>t, <1>3 DEF LeaderOK
      <4> QED BY <1>4, <1>5, <1>8, <4>1, <4>2, <4>3
    <3> QED BY <1>t, <1>2, <1>4, <1>6, <1>7, <1>8, <2>2, <3>1 DEF LeaderOK, Peers
  <2>3. CASE p # n
    <3>1. role[p] = Leader /\ log'[p] = log[p] /\ \A s \in Terms : ack2[p][s] = ack[p][s]
      BY <1>2, <1>6, <1>8, <2>3
    <3>2. term[p] \in Terms /\ p \in leadersByTerm[term[p]]
      BY <1>1, <3>1 DEF History, LeadersOK, LeaderOK
    <3>3. lead2[term[p]] = lead[term[p]] /\ ack2[p][term[p]] = ack[p][term[p]]
      BY <1>7, <2>1, <2>3, <3>1, <3>2
    <3> QED BY <1>2, <1>9, <3>1, <3>2, <3>3, LeaderStays
  <2> QED BY <2>2, <2>3
<1>17. \A p \in Node : CommitOK(lead2, ack2, p)'
  <2> SUFFICES ASSUME NEW p \in Node PROVE CommitOK(lead2, ack2, p)'
    OBVIOUS
  <2> QED BY <1>u, <1>2, <1>9, CommitStays
<1>18. ASSUME NEW p \in Peers(n), NEW x,
              x = AppendEntries(n, p, t, new, nextIndex[n][p], commitIndex[n])
       PROVE  TellsTruth(lead2, ack2, x)'
  <2>1. CommitOK(lead2, ack2, n)'
    BY <1>17
  <2>2. /\ commitIndex[n] \in Nat /\ commitIndex[n] <= Len(new)
        /\ Decided(lead2, ack2, new, commitIndex[n], t)
    BY <1>t, <1>1, <1>2, <1>6, <2>1, RaftFacts DEF CommitOK, Decided, Chosen
  <2>3. nextIndex[n][p] \in Nat /\ nextIndex[n][p] \in 1..(Len(new) + 1)
    <3>1. nextIndex[n][p] \in 1..(MaxLog + 1) /\ nextIndex[n][p] <= Len(L) + 1 /\ MaxLog \in Nat
      BY <1>t, <1>1, <1>3, RaftFacts DEF LeaderOK
    <3> QED BY <1>4, <1>5, <3>1
  <2>4. Elected(t)
    BY <1>4 DEF Elected
  <2>5. TellsTruth(lead2, ack2, x)
    BY <1>4, <1>7, <1>18, <2>2, <2>3, <2>4, SentIsTrue
  <2>6. x.type = "AppendEntries"
    BY <1>18 DEF AppendEntries, Message
  <2> QED BY <1>2, <2>5, <2>6 DEF TellsTruth, AppendEntriesOK, Elected, Decided, Chosen
<1>19. FlyingOK(lead2, ack2)'
  <2>1. Flying' \subseteq Flying \cup S
    <3>1. Flying' \subseteq Flying \cup {AppendEntries(n, p, term[n], log'[n], nextIndex[n][p],
                                                       commitIndex[n]) : p \in Peers(n)}
      BY ExchangeFacts DEF Submit, Send
    <3> QED BY <1>t, <1>6, <3>1
  <2> SUFFICES ASSUME NEW x \in Flying' PROVE TellsTruth(lead2, ack2, x)'
    BY DEF FlyingOK
  <2>2. CASE x \in Flying
    BY <1>9, <1>10, <2>2, TellsStays
  <2>3. CASE x \in S
    BY <1>18, <2>3
  <2> QED BY <2>1, <2>2, <2>3
<1>20. \A p \in Node : KeptOK(lead2, ack2, p)'
  <2> SUFFICES ASSUME NEW p \in Node PROVE KeptOK(lead2, ack2, p)'
    OBVIOUS
  <2>1. CASE p = n
    <3>1. term[n] \in Terms /\ term'[n] = term[n] /\ Has(log'[n], log[n], Len(log[n]))
      BY <1>t, <1>2, <1>4, <1>5, <1>6
    <3>2. \A s \in Terms : s # term[n] => ack2[n][s] = ack[n][s]
      BY <1>t, <1>8
    <3>3. log'[n] \in Seq(Entry) /\ lead2[term[n]] = log'[n] /\ ack2[n][term[n]] = Len(log'[n])
      BY <1>t, <1>5, <1>6, <1>7, <1>8
    <3>4. KeptOK(lead2, ack2, n)'
      BY <1>9, <3>1, <3>2, <3>3, KeptExtends
    <3> QED BY <2>1, <3>4
  <2>2. CASE p # n
    <3>1. log'[p] = log[p] /\ ack2[p] = ack[p]
      BY <1>1, <1>6, <1>8, <2>2 DEF Acks
    <3> QED BY <1>9, <3>1, KeptStays
  <2> QED BY <2>1, <2>2
<1>21. VotesOK(lead2, ack2)'
  BY <1>9, <1>10, OldVotes
<1>22. \A u \in Terms : Elected(u)' => SafeOK(lead2, ack2, u)'
  BY <1>2, <1>9, <1>14, SafeStays DEF Elected
<1>23. History(lead2, ack2)'
  BY <1>14, <1>15, <1>16, <1>17, <1>19, <1>20, <1>21, <1>22 DEF History
<1> QED BY <1>9, <1>10, <1>11, <1>23 DEF After

\* Who wins an election is alone to lead its term.
Wins(n, u, now) ==
    /\ n \in Node /\ u \in Terms /\ role[n] = Candidate
    /\ now \in Quorums /\ \A p \in now : Voted(p, u, n)
    /\ leadersByTerm[u] = {}

LEMMA WinnerFacts ==
    ASSUME NEW lead, NEW ack, Before(lead, ack), NEW m \in Flying, WinElection(m),
           NEW n, n = m.dst, NEW u, u = term[n], NEW now, now = votes[n] \cup {m.src}
    PROVE  Wins(n, u, now)
<1>1. Inv /\ CandidatesOK /\ Inv'
  BY DEF Before
<1>2. m.type = "VoteReply" /\ CountsVote(m) /\ Cardinality(now) >= Majority
  BY DEF WinElection, Receivable
<1>3. /\ n \in Node /\ m.src \in Node /\ now \in SUBSET Node
      /\ role[n] = Candidate /\ m.term = u /\ m.content
  BY <1>1, <1>2, ReceiverFacts, NodeAssumption DEF CountsVote, Inv, ElectionTypeOK
<1>4. u \in Terms /\ n \notin leadersByTerm[u]
  BY <1>1, <1>3 DEF CandidatesOK
<1>5. \A p \in now : Voted(p, u, n)
  BY <1>2, <1>3 DEF Voted, CarriesVote
<1>6. now \in Quorums
  BY <1>2, <1>3 DEF Quorums
<1>7. ASSUME NEW a \in leadersByTerm[u] PROVE FALSE
  <2>1. PICK Q \in SUBSET Node : Elects(Q, u, a)
    BY <1>1, <1>4 DEF Inv, LeadersAreElected, Terms
  <2>2. Q \in Quorums
    BY <2>1 DEF Elects, Quorums
  <2>3. PICK p \in Node : p \in now /\ p \in Q
    BY <1>6, <2>2, QuorumsMeet
  <2>4. n = a
    BY <1>3, <1>5, <2>1, <2>3 DEF Elects
  <2> QED BY <1>4, <1>7, <2>4
<1> QED BY <1>3, <1>4, <1>5, <1>6, <1>7 DEF Wins

\* Whoever a quorum elects has what was, or may yet be, chosen in an earlier term.
LEMMA WinnerIsSafe ==
    ASSUME NEW lead \in Books, NEW ack \in Acks, Inv, CandidatesOK, RaftTypes, History(lead, ack),
           NEW n \in Node, NEW u \in Terms, u = term[n], role[n] = Candidate, ~Elected(u),
           NEW Q \in Quorums, \A p \in Q : Voted(p, u, n),
           NEW t \in Terms, t < u, NEW i \in 1..Len(lead[t]), lead[t][i].term = t
    PROVE  \/ Has(log[n], lead[t], i)
           \/ \E P \in Quorums : \A p \in P : term[p] > t /\ ack[p][t] < i
<1>1. /\ t \in Nat /\ u \in Nat /\ Len(lead[t]) \in Nat /\ i \in Nat
      /\ \A p \in Node : ack[p][t] \in Nat /\ term[p] \in Nat
  BY BookFacts, AckFacts, RaftFacts
<1>2. ASSUME NEW p \in Q PROVE p \in Node /\ term[p] > t /\ Counts(p, u, n)
  <2>1. p \in Node
    BY DEF Quorums
  <2>2. Keeps(p, u, n)
    BY <1>1, <2>1 DEF Inv, VotesAreKept
  <2> QED BY <1>1, <2>1, <2>2 DEF Keeps, Counts
<1>3. CASE \A p \in Q : ack[p][t] < i
  BY <1>2, <1>3
<1>4. CASE ~\A p \in Q : ack[p][t] < i
  <2>1. PICK p \in Q : ~(ack[p][t] < i)
    BY <1>4
  <2>2. p \in Node /\ i \in 1..ack[p][t]
    BY <1>1, <1>2, <2>1
  <2>3. VoteOK(lead, ack, p, u, n)
    BY <1>2, <2>2 DEF History, VotesOK
  <2>4. Has(log[n], lead[t], i) \/ Overruled(lead, t, i, u - 1)
    BY <2>2, <2>3 DEF VoteOK
  <2>5. ASSUME Overruled(lead, t, i, u - 1)
        PROVE  \E P \in Quorums : \A q \in P : term[q] > t /\ ack[q][t] < i
    <3>1. PICK w \in Terms : t < w /\ Elected(w) /\ ~Has(lead[w], lead[t], i)
      BY <2>5 DEF Overruled
    <3> QED BY <3>1 DEF History, SafeOK
  <2> QED BY <2>4, <2>5
<1> QED BY <1>3, <1>4

LEMMA WinElectionStep ==
    ASSUME NEW lead, NEW ack, Before(lead, ack), NEW m \in Flying, WinElection(m)
    PROVE  \E lead2, ack2 : Step(lead, ack, lead2, ack2) /\ After(lead2, ack2)
<1>0. SUFFICES ASSUME NEW n, n = m.dst, NEW u, u = term[n], NEW L, L = log[n],
                      NEW now, now = votes[n] \cup {m.src},
                      NEW next, next = Len(L) + 1,
                      NEW lead2, lead2 = [lead EXCEPT ![u] = L],
                      NEW ack2, ack2 = [ack EXCEPT ![n][u] = Len(L)]
               PROVE  Step(lead, ack, lead2, ack2) /\ After(lead2, ack2)
  OBVIOUS
<1>t. u = term[n] /\ L = log[n]
  BY <1>0
<1>1. /\ lead \in Books /\ ack \in Acks /\ Inv /\ CandidatesOK /\ RaftTypes /\ History(lead, ack)
      /\ Inv' /\ VotesGrow
  BY DEF Before
<1>2. /\ n \in Node /\ u \in Terms /\ role[n] = Candidate
      /\ now \in Quorums /\ \A p \in now : Voted(p, u, n)
      /\ leadersByTerm[u] = {} /\ ~Elected(u)
  <2>1. Wins(n, u, now)
    BY <1>0, WinnerFacts
  <2> QED BY <2>1 DEF Wins, Elected
<1>3. /\ votes' = [votes EXCEPT ![n] = now] /\ role' = [role EXCEPT ![n] = Leader]
      /\ leaderId' = [leaderId EXCEPT ![n] = n]
      /\ nextIndex' = [nextIndex EXCEPT ![n] = [p \in Peers(n) |-> next]]
      /\ matchIndex' = [matchIndex EXCEPT ![n] = [p \in Peers(n) |-> 0]]
      /\ leadersByTerm' = [leadersByTerm EXCEPT ![u] = leadersByTerm[u] \cup {n}]
      /\ UNCHANGED <<term, votedFor, log, commitIndex, alive, crashes>>
  BY <1>0 DEF WinElection, persistent
<1>4. /\ log \in [Node -> Seq(Entry)] /\ LedOK(lead) /\ LogsOK(lead) /\ L \in Seq(Entry)
      /\ Len(L) \in Nat /\ u \in Nat /\ Matches(lead, L) /\ \A i \in 1..Len(L) : L[i].term <= u
  BY <1>t, <1>1, <1>2, LogTypes, BookFacts DEF History, LogsOK
<1>5. /\ Len(L) <= MaxLog
      /\ \A i, j \in 1..Len(L) : i <= j => L[i].term <= L[j].term
  <2>1. CASE L = <<>>
    BY <1>4, <2>1, EmptySeq, BoundAssumption
  <2>2. CASE L # <<>>
    <3>1. PICK s \in Terms : Len(L) <= Len(lead[s]) /\ \A j \in 1..Len(L) : lead[s][j] = L[j]
      BY <1>1, <1>4, <2>2, LastFacts
    <3>2. Len(lead[s]) \in Nat /\ MaxLog \in Nat
      BY <1>1, BookFacts, BoundAssumption
    <3>3. /\ Len(lead[s]) <= MaxLog
          /\ \A i, j \in 1..Len(lead[s]) : i <= j => lead[s][i].term <= lead[s][j].term
      BY <1>4 DEF LedOK
    <3>4. Len(L) <= MaxLog
      BY <1>4, <3>1, <3>2, <3>3
    <3>5. ASSUME NEW i \in 1..Len(L), NEW j \in 1..Len(L), i <= j PROVE L[i].term <= L[j].term
      <4>1. /\ i \in 1..Len(lead[s]) /\ j \in 1..Len(lead[s])
            /\ lead[s][i] = L[i] /\ lead[s][j] = L[j]
        BY <1>4, <3>1, <3>2
      <4>2. lead[s][i].term <= lead[s][j].term
        BY <3>3, <3>5, <4>1
      <4> QED BY <4>1, <4>2
    <3> QED BY <3>4, <3>5
  <2> QED BY <2>1, <2>2
<1>6. lead[u] = <<>> /\ Len(lead[u]) = 0 /\ \A p \in Node : ack[p][u] = 0
  <2>1. lead[u] = <<>>
    BY <1>2, <1>4 DEF LedOK
  <2>2. Len(lead[u]) = 0
    BY <2>1, EmptySeq
  <2>3. ASSUME NEW p \in Node PROVE ack[p][u] = 0
    <3>1. ack[p][u] \in Nat /\ ack[p][u] <= Len(lead[u])
      BY <1>1, <1>2, AckFacts DEF History, KeptOK
    <3> QED BY <2>2, <3>1
  <2> QED BY <2>1, <2>2, <2>3
<1>7. lead2 \in Books /\ lead2[u] = L /\ \A s \in Terms : s # u => lead2[s] = lead[s]
  <2>1. lead \in [Terms -> Seq(Entry)] /\ lead2 = [lead EXCEPT ![u] = L]
    BY <1>0, <1>1 DEF Books
  <2> QED BY <1>2, <1>4, <2>1 DEF Books
<1>8. /\ ack2 \in Acks /\ ack2[n][u] = Len(L)
      /\ \A p \in Node, s \in Terms : p # n \/ s # u => ack2[p][s] = ack[p][s]
  <2>1. ack \in [Node -> [Terms -> Nat]] /\ ack2 = [ack EXCEPT ![n][u] = Len(L)] /\ Len(L) \in Nat
    BY <1>0, <1>1, <1>4 DEF Acks
  <2> QED BY <1>2, <2>1 DEF Acks
<1>9. /\ role' \in [Node -> {Follower, Candidate, Leader}] /\ role'[n] = Leader
      /\ leadersByTerm'[u] = {n} /\ \A s \in Terms : s # u => leadersByTerm'[s] = leadersByTerm[s]
      /\ \A p \in Node \ {n} : role'[p] = role[p] /\ nextIndex'[p] = nextIndex[p]
                               /\ matchIndex'[p] = matchIndex[p]
      /\ DOMAIN nextIndex' = Node /\ DOMAIN matchIndex' = Node
      /\ nextIndex'[n] = [p \in Peers(n) |-> next] /\ matchIndex'[n] = [p \in Peers(n) |-> 0]
  <2>1. /\ role \in [Node -> {Follower, Candidate, Leader}]
        /\ leadersByTerm \in [Terms -> SUBSET Node]
        /\ DOMAIN nextIndex = Node /\ DOMAIN matchIndex = Node
    BY <1>1 DEF Inv, ElectionTypeOK, RaftTypes, Terms
  <2> QED BY <1>2, <1>3, <2>1
<1>10. Step(lead, ack, lead2, ack2)
  <2>1. ASSUME NEW s \in Terms
        PROVE  /\ Has(lead2[s], lead[s], Len(lead[s]))
               /\ Elected(s) => /\ leadersByTerm'[s] # {}
                                /\ \A i \in 1..Len(lead2[s]) : i > Len(lead[s]) => lead2[s][i].term = s
    <3>1. Len(lead[s]) \in Nat
      BY <1>1, BookFacts
    <3>2. CASE s = u
      BY <1>2, <1>4, <1>6, <1>7, <3>2 DEF Has
    <3>3. CASE s # u
      BY <1>7, <1>9, <3>1, <3>3 DEF Has, Elected
    <3> QED BY <3>2, <3>3
  <2>2. ASSUME NEW p \in Node, NEW s \in Terms
        PROVE  ack[p][s] <= ack2[p][s] /\ (s # term'[p] => ack2[p][s] = ack[p][s])
    <3>1. ack[p][s] \in Nat
      BY <1>1, AckFacts
    <3>2. CASE p = n /\ s = u
      BY <1>t, <1>3, <1>4, <1>6, <1>8, <3>2
    <3>3. CASE ~(p = n /\ s = u)
      BY <1>8, <3>1, <3>3
    <3> QED BY <3>2, <3>3
  <2>3. \A p \in Node : term[p] <= term'[p]
    BY <1>1, TermsGrow
  <2>4. Grows(lead, ack, lead2, ack2)
    BY <2>1, <2>2, <2>3 DEF Grows
  <2> QED BY <1>1, <1>7, <1>8, <2>4 DEF Step, RaftTypes
<1>11. \A p \in Node : role'[p] = Candidate => p # n /\ role[p] = Candidate
  BY <1>9, NodeAssumption
<1>12. CandidatesOK' /\ CandidatesStay /\ NobodyVotes
  <2>1. ASSUME NEW s \in Terms, NEW a \in leadersByTerm'[s] PROVE s <= term[a]
    <3>1. CASE s = u
      <4>1. a = n
        BY <1>9, <2>1, <3>1
      <4> QED BY <1>t, <1>4, <3>1, <4>1
    <3>2. CASE s # u
      <4>1. a \in leadersByTerm[s]
        BY <1>9, <2>1, <3>2
      <4> QED BY <1>1, <4>1 DEF CandidatesOK
    <3> QED BY <3>1, <3>2
  <2>2. ASSUME NEW p \in Node, role'[p] = Candidate
        PROVE  term[p] \in Terms /\ p \notin leadersByTerm'[term[p]]
    <3>1. p # n /\ term[p] \in Terms /\ p \notin leadersByTerm[term[p]]
      BY <1>1, <1>11, <2>2 DEF CandidatesOK
    <3> QED BY <1>9, <3>1
  <2> QED BY <1>3, <1>11, <2>1, <2>2 DEF CandidatesOK, CandidatesStay, NobodyVotes
<1>13. RaftTypes'
  <2>1. next \in 1..(MaxLog + 1) /\ 0 \in 0..MaxLog
    BY <1>0, <1>4, <1>5, BoundAssumption
  <2>2. \A p \in Node : /\ nextIndex'[p] \in [Peers(p) -> 1..(MaxLog + 1)]
                        /\ matchIndex'[p] \in [Peers(p) -> 0..MaxLog]
    <3> SUFFICES ASSUME NEW p \in Node
                 PROVE  /\ nextIndex'[p] \in [Peers(p) -> 1..(MaxLog + 1)]
                        /\ matchIndex'[p] \in [Peers(p) -> 0..MaxLog]
      OBVIOUS
    <3>1. CASE p = n
      BY <1>9, <2>1, <3>1
    <3>2. CASE p # n
      BY <1>1, <1>9, <3>2, RaftFacts
    <3> QED BY <3>1, <3>2
  <2>3. votes' \in [Node -> SUBSET Node] /\ leaderId' \in [Node -> Node \cup {None}]
    <3>1. /\ votes \in [Node -> SUBSET Node] /\ leaderId \in [Node -> Node \cup {None}]
          /\ now \in SUBSET Node
      BY <1>1, <1>2, RaftFacts DEF Quorums
    <3> QED BY <1>2, <1>3, <3>1
  <2>4. \A s \in DOMAIN leadersByTerm' : leadersByTerm'[s] \subseteq Node
    BY <1>1 DEF Inv, ElectionTypeOK
  <2> QED BY <1>1, <1>3, <1>9, <2>2, <2>3, <2>4 DEF RaftTypes, TypeOK, Peers
<1>14. LedOK(lead2)'
  <2> SUFFICES ASSUME NEW s \in Terms
               PROVE  /\ Len(lead2[s]) <= MaxLog
                      /\ lead2[s] # <<>> => leadersByTerm'[s] # {}
                      /\ Matches(lead2, lead2[s])
                      /\ \A i \in 1..Len(lead2[s]) : lead2[s][i].term <= s
                      /\ \A i, j \in 1..Len(lead2[s]) : i <= j => lead2[s][i].term <= lead2[s][j].term
    BY DEF LedOK, Elected
  <2>1. CASE s = u
    <3>1. Matches(lead2, L)
      BY <1>4, <1>10, MatchesStays
    <3> QED BY <1>4, <1>5, <1>7, <1>9, <2>1, <3>1
  <2>2. CASE s # u
    <3>1. lead[s] \in Seq(Entry) /\ Matches(lead, lead[s]) /\ lead2[s] = lead[s]
      BY <1>1, <1>4, <1>7, <2>2, BookFacts DEF LedOK
    <3>2. Matches(lead2, lead[s])
      BY <1>10, <3>1, MatchesStays
    <3>3. lead[s] # <<>> => leadersByTerm'[s] # {}
      BY <1>4, <1>9, <2>2 DEF LedOK, Elected
    <3> QED BY <1>4, <3>1, <3>2, <3>3 DEF LedOK
  <2> QED BY <2>1, <2>2
<1>15. LogsOK(lead2)'
  <2> SUFFICES ASSUME NEW p \in Node
               PROVE  Matches(lead2, log[p]) /\ \A i \in 1..Len(log[p]) : log[p][i].term <= term[p]
    BY <1>3, <1>4 DEF LogsOK
  <2>1. log[p] \in Seq(Entry) /\ Matches(lead, log[p])
    BY <1>4 DEF LogsOK
  <2>2. Matches(lead2, log[p])
    BY <1>10, <2>1, MatchesStays
  <2> QED BY <1>4, <2>2 DEF LogsOK
<1>16. LeadersOK(lead2, ack2)'
  <2> SUFFICES ASSUME NEW p \in Node, role'[p] = Leader PROVE LeaderOK(lead2, ack2, p)'
    BY DEF LeadersOK
  <2>1. CASE p = n
    <3>1. ASSUME NEW q \in Peers(n)
          PROVE  nextIndex'[n][q] <= Len(L) + 1 /\ matchIndex'[n][q] <= ack2[q][u]
      <4>1. q \in Node
        BY DEF Peers
      <4>2. nextIndex'[n][q] = next /\ matchIndex'[n][q] = 0
        BY <1>9
      <4>3. ack2[q][u] \in Nat /\ next <= Len(L) + 1
        <5>1. ack2[q][u] \in Nat
          BY <1>2, <1>8, <4>1, AckFacts
        <5> QED BY <1>0, <1>4, <5>1
      <4> QED BY <4>2, <4>3
    <3> QED BY <1>t, <1>2, <1>3, <1>7, <1>8, <1>9, <2>1, <3>1 DEF LeaderOK, Peers
  <2>2. CASE p # n
    <3>1. role[p] = Leader /\ log'[p] = log[p] /\ \A s \in Terms : ack2[p][s] = ack[p][s]
      BY <1>3, <1>8, <1>9, <2>2
    <3>2. term[p] \in Terms /\ p \in leadersByTerm[term[p]]
      BY <1>1, <3>1 DEF History, LeadersOK, LeaderOK
    <3>3. /\ lead2[term[p]] = lead[term[p]] /\ ack2[p][term[p]] = ack[p][term[p]]
          /\ p \in leadersByTerm'[term[p]]
      BY <1>2, <1>7, <1>9, <2>2, <3>1, <3>2
    <3> QED BY <1>3, <1>9, <1>10, <2>2, <3>1, <3>2, <3>3, LeaderStays
  <2> QED BY <2>1, <2>2
<1>17. \A p \in Node : CommitOK(lead2, ack2, p)'
  <2> SUFFICES ASSUME NEW p \in Node PROVE CommitOK(lead2, ack2, p)'
    OBVIOUS
  <2>1. log[p] \in Seq(Entry) /\ Len(log[p]) \in Nat
    BY <1>4, LogTypes
  <2> QED BY <1>3, <1>10, <2>1, CommitStays
<1>18. ASSUME NEW p \in Peers(n), NEW x, x = AppendEntries(n, p, u, L, next, commitIndex[n])
       PROVE  TellsTruth(lead2, ack2, x)'
  <2>1. CommitOK(lead2, ack2, n)'
    BY <1>2, <1>17
  <2>2. /\ commitIndex[n] \in Nat /\ commitIndex[n] <= Len(L)
        /\ Decided(lead2, ack2, L, commitIndex[n], u)
    BY <1>t, <1>1, <1>2, <1>3, <2>1, RaftFacts DEF CommitOK, Decided, Chosen
  <2>3. next \in Nat /\ next \in 1..(Len(L) + 1)
    BY <1>0, <1>4
  <2>4. Fragment(lead2, ack2, x, n, p, u)
    BY <1>2, <1>7, <1>18, <2>2, <2>3, SentFragment
  <2>5. leadersByTerm'[x.term] # {}
    BY <1>9, <2>4 DEF Fragment
  <2>6. AppendEntriesOK(lead2, ack2, x)'
    BY <2>4, <2>5 DEF AppendEntriesOK, Fragment, Elected, Decided, Chosen
  <2> QED BY <1>2, <2>4, <2>6 DEF Fragment, TellsTruth, Peers
<1>19. FlyingOK(lead2, ack2)'
  <2>1. Flying' \subseteq Flying \cup {AppendEntries(n, p, u, L, next, commitIndex[n]) : p \in Peers(n)}
    BY <1>0, ExchangeFacts DEF WinElection
  <2> SUFFICES ASSUME NEW x \in Flying' PROVE TellsTruth(lead2, ack2, x)'
    BY DEF FlyingOK
  <2>2. CASE x \in Flying
    BY <1>10, <1>12, <2>2, TellsStays
  <2>3. CASE x \notin Flying
    BY <1>18, <2>1, <2>3
  <2> QED BY <2>2, <2>3
<1>20. \A p \in Node : KeptOK(lead2, ack2, p)'
  <2> SUFFICES ASSUME NEW p \in Node PROVE KeptOK(lead2, ack2, p)'
    OBVIOUS
  <2>1. CASE p = n
    <3>1. term[n] \in Terms /\ term'[n] = term[n] /\ Has(log'[n], log[n], Len(log[n]))
      BY <1>t, <1>2, <1>3, <1>4 DEF Has
    <3>2. \A s \in Terms : s # term[n] => ack2[n][s] = ack[n][s]
      BY <1>t, <1>2, <1>8
    <3>3. log'[n] \in Seq(Entry) /\ lead2[term[n]] = log'[n] /\ ack2[n][term[n]] = Len(log'[n])
      BY <1>t, <1>3, <1>4, <1>7, <1>8
    <3>4. KeptOK(lead2, ack2, n)'
      BY <1>2, <1>10, <3>1, <3>2, <3>3, KeptExtends
    <3> QED BY <2>1, <3>4
  <2>2. CASE p # n
    <3>1. log'[p] = log[p] /\ ack2[p] = ack[p]
      BY <1>1, <1>3, <1>8, <2>2 DEF Acks
    <3> QED BY <1>10, <3>1, KeptStays
  <2> QED BY <2>1, <2>2
<1>21. VotesOK(lead2, ack2)'
  BY <1>10, <1>12, OldVotes
<1>22. ASSUME NEW v \in Terms, Elected(v)' PROVE SafeOK(lead2, ack2, v)'
  <2>1. CASE v = u
    <3> SUFFICES ASSUME NEW s \in Terms, s < u, NEW i \in 1..Len(lead2[s]), lead2[s][i].term = s
                 PROVE  \/ Has(lead2[u], lead2[s], i)
                        \/ \E Q \in Quorums : \A p \in Q : term'[p] > s /\ ack2[p][s] < i
      BY <2>1 DEF SafeOK
    <3>1. lead2[s] = lead[s] /\ \A p \in Node : ack2[p][s] = ack[p][s]
      BY <1>4, <1>7, <1>8
    <3>2. \/ Has(log[n], lead[s], i)
          \/ \E Q \in Quorums : \A p \in Q : term[p] > s /\ ack[p][s] < i
      BY <1>t, <1>1, <1>2, <3>1, WinnerIsSafe
    <3> QED BY <1>t, <1>3, <1>7, <3>1, <3>2 DEF Quorums
  <2>2. CASE v # u
    <3>1. Elected(v)
      BY <1>9, <1>22, <2>2 DEF Elected
    <3> QED BY <1>10, <1>14, <3>1, SafeStays
  <2> QED BY <2>1, <2>2
<1>23. History(lead2, ack2)'
  BY <1>14, <1>15, <1>16, <1>17, <1>19, <1>20, <1>21, <1>22 DEF History
<1> QED BY <1>10, <1>12, <1>13, <1>23 DEF After

------------------------------------------------------------------------------
(* Every step *)

\* What is committed stays in the log, and a node forgets it only in a restart.
CommitsKept ==
    \A n \in Node : /\ Has(log'[n], log[n], commitIndex[n])
                    /\ alive'[n] = alive[n] => commitIndex'[n] >= commitIndex[n]

LEMMA SameCommits ==
    ASSUME NEW lead, NEW ack, Before(lead, ack), log' = log,
           \A n \in Node : \/ commitIndex'[n] = commitIndex[n]
                           \/ commitIndex[n] <= commitIndex'[n]
                           \/ alive'[n] # alive[n]
    PROVE  CommitsKept
<1> SUFFICES ASSUME NEW n \in Node
             PROVE  /\ Has(log[n], log[n], commitIndex[n])
                    /\ alive'[n] = alive[n] => commitIndex'[n] >= commitIndex[n]
  BY DEF CommitsKept
<1>1. commitIndex[n] \in 0..Len(log[n])
  BY DEF Before, RaftTypes, TypeOK
<1>2. log[n] \in Seq(Entry) /\ Len(log[n]) \in Nat
  BY LogTypes DEF Before, History, LogsOK
<1>3. Has(log[n], log[n], commitIndex[n])
  BY <1>1, <1>2 DEF Has
<1> QED BY <1>1, <1>3

LEMMA HandleAppendEntriesStep ==
    ASSUME NEW lead, NEW ack, Before(lead, ack), NEW m \in Flying, HandleAppendEntries(m)
    PROVE  CommitsKept /\ \E ack2 \in Acks : After(lead, ack2)
<1>1. /\ m.type = "AppendEntries"
      /\ UNCHANGED <<alive, votes, nextIndex, matchIndex, leadersByTerm, crashes>>
  BY DEF HandleAppendEntries, Receivable, leaderVars
<1>2. ack \in Acks
  BY DEF Before
<1>3. CASE /\ m.term < term[m.dst]
           /\ Exchange({m}, {AppendReply(m.dst, m.src, term[m.dst], FALSE, 0)})
           /\ UNCHANGED <<persistent, role, leaderId, commitIndex>>
  <2>1. UNCHANGED <<term, votedFor, log, role, leaderId, commitIndex>>
    BY <1>3 DEF persistent
  <2>2. After(lead, ack)
    BY <1>1, <1>3, <2>1, RefuseStep
  <2>3. CommitsKept
    BY <2>1, SameCommits
  <2> QED BY <1>2, <2>2, <2>3
<1>4. CASE /\ m.term >= term[m.dst] /\ ~Consistent(m)
           /\ Adopt(m, VoteNow(m), Follower, m.src)
           /\ Exchange({m}, {AppendReply(m.dst, m.src, m.term, FALSE, 0)})
           /\ UNCHANGED <<log, commitIndex>>
  <2>1. After(lead, ack)
    BY <1>1, <1>4, InconsistentStep
  <2>2. CommitsKept
    BY <1>4, SameCommits
  <2> QED BY <1>2, <2>1, <2>2
<1>5. ASSUME NEW last, NEW new, NEW c, Accepts(m, last, new, c)
      PROVE  CommitsKept /\ \E ack2 \in Acks : After(lead, ack2)
  <2>1. PICK ack2 : Step(lead, ack, lead, ack2) /\ After(lead, ack2)
    BY <1>5, AcceptStep
  <2>2. commitIndex[m.dst] <= c /\ Has(new, log[m.dst], commitIndex[m.dst])
    BY <1>5, AcceptStep
  <2>3. /\ log' = [log EXCEPT ![m.dst] = new] /\ commitIndex' = [commitIndex EXCEPT ![m.dst] = c]
        /\ log \in [Node -> Seq(Entry)] /\ DOMAIN commitIndex = Node
    BY <1>5 DEF Accepts, Before, RaftTypes, History, LogsOK
  <2>4. ASSUME NEW p \in Node
        PROVE  Has(log'[p], log[p], commitIndex[p]) /\ commitIndex[p] <= commitIndex'[p]
    <3>1. CASE p = m.dst
      BY <2>2, <2>3, <3>1
    <3>2. CASE p # m.dst
      <4>1. log'[p] = log[p] /\ commitIndex'[p] = commitIndex[p]
        BY <2>3, <3>2
      <4>2. commitIndex[p] \in 0..Len(log[p])
        BY DEF Before, RaftTypes, TypeOK
      <4>3. log[p] \in Seq(Entry) /\ Len(log[p]) \in Nat
        BY <2>3, LogTypes
      <4> QED BY <4>1, <4>2, <4>3 DEF Has
    <3> QED BY <3>1, <3>2
  <2>5. \A p \in Node : commitIndex[p] \in Int /\ commitIndex'[p] \in Int
    <3>1. \A p \in Node : commitIndex[p] \in 0..Len(log[p]) /\ commitIndex'[p] \in 0..Len(log'[p])
      BY <2>1 DEF Before, After, RaftTypes, TypeOK
    <3> QED BY <3>1
  <2>6. CommitsKept
    BY <2>4, <2>5 DEF CommitsKept
  <2> QED BY <2>1, <2>6 DEF Step
<1>6. CASE /\ m.term >= term[m.dst] /\ Consistent(m)
           /\ Adopt(m, VoteNow(m), Follower, m.src)
           /\ log' = [log EXCEPT ![m.dst] = Merged(@, m.content.prevIndex, m.content.entries)]
           /\ commitIndex' = [commitIndex EXCEPT ![m.dst] =
                 Max({@, Min({m.content.commit, m.content.prevIndex + Len(m.content.entries)})})]
           /\ Exchange({m}, {AppendReply(m.dst, m.src, m.term, TRUE,
                                         m.content.prevIndex + Len(m.content.entries))})
  <2> DEFINE last == m.content.prevIndex + Len(m.content.entries)
             new == Merged(log[m.dst], m.content.prevIndex, m.content.entries)
             c == Max({commitIndex[m.dst], Min({m.content.commit, last})})
  <2>1. Accepts(m, last, new, c)
    BY <1>1, <1>6 DEF Accepts
  <2> QED BY <1>5, <2>1
<1> QED BY <1>3, <1>4, <1>6 DEF HandleAppendEntries

LEMMA NodeStep ==
    ASSUME NEW lead, NEW ack, Before(lead, ack), NEW n \in Node,
           StartElection(n) \/ Heartbeat(n) \/ Crash(n) \/ Restart(n)
    PROVE  CommitsKept /\ After(lead, ack)
<1>1. CASE Restart(n)
  <2>1. /\ log' = log /\ \A p \in Node : commitIndex'[p] = commitIndex[p] \/ alive'[p] # alive[p]
    <3>1. /\ log' = log /\ ~alive[n] /\ alive' = [alive EXCEPT ![n] = TRUE]
          /\ commitIndex' = [commitIndex EXCEPT ![n] = 0]
      BY <1>1 DEF Restart, persistent
    <3>2. DOMAIN commitIndex = Node /\ alive \in [Node -> BOOLEAN]
      BY DEF Before, RaftTypes, TypeOK
    <3> QED BY <3>1, <3>2
  <2> QED BY <1>1, <2>1, SameCommits, RestartStep
<1>2. CASE StartElection(n) \/ Heartbeat(n) \/ Crash(n)
  <2>1. log' = log /\ commitIndex' = commitIndex
    BY <1>2 DEF StartElection, Heartbeat, Crash, persistent
  <2> QED BY <1>2, <2>1, SameCommits, StartElectionStep, HeartbeatStep, CrashStep
<1> QED BY <1>1, <1>2

LEMMA SubmitKeeps ==
    ASSUME NEW lead, NEW ack, Before(lead, ack), NEW n \in Node, NEW c \in Command, Submit(n, c)
    PROVE  CommitsKept
<1> SUFFICES ASSUME NEW p \in Node
             PROVE  Has(log'[p], log[p], commitIndex[p]) /\ commitIndex'[p] >= commitIndex[p]
  BY DEF CommitsKept
<1>1. /\ log' = [log EXCEPT ![n] = Append(log[n], [term |-> term[n], command |-> c])]
      /\ commitIndex' = commitIndex /\ role[n] = Leader
  BY DEF Submit
<1>2. commitIndex[p] \in 0..Len(log[p])
  BY DEF Before, RaftTypes, TypeOK
<1>3. log \in [Node -> Seq(Entry)] /\ Len(log[p]) \in Nat
  BY LogTypes DEF Before, History, LogsOK
<1>4. CASE p = n
  <2>1. term[n] \in Terms
    BY <1>1 DEF Before, History, LeadersOK, LeaderOK
  <2>2. [term |-> term[n], command |-> c] \in Entry /\ log[n] \in Seq(Entry)
    BY <1>3, <2>1 DEF Entry
  <2>3. Len(log'[n]) = Len(log[n]) + 1 /\ \A i \in 1..Len(log[n]) : log'[n][i] = log[n][i]
    <3>1. log'[n] = Append(log[n], [term |-> term[n], command |-> c])
      BY <1>1, <1>3
    <3> QED BY <2>2, <3>1, AppendFacts
  <2> QED BY <1>1, <1>2, <1>3, <1>4, <2>3 DEF Has
<1>5. CASE p # n
  BY <1>1, <1>2, <1>3, <1>5 DEF Has
<1> QED BY <1>4, <1>5

LEMMA DeliverStep ==
    ASSUME NEW lead, NEW ack, Before(lead, ack), NEW m \in Flying, Deliver(m)
    PROVE  CommitsKept /\ \E lead2 \in Books, ack2 \in Acks : After(lead2, ack2)
<1>1. lead \in Books /\ ack \in Acks
  BY DEF Before
<1>2. CASE HandleAppendEntries(m)
  BY <1>1, <1>2, HandleAppendEntriesStep
<1>3. CASE FollowerMatches(m)
  <2>1. log' = log
    BY <1>3 DEF FollowerMatches, persistent
  <2>2. After(lead, ack) /\ \A q \in Node : commitIndex[q] <= commitIndex'[q]
    BY <1>3, FollowerMatchesStep
  <2>3. CommitsKept
    BY <2>1, <2>2, SameCommits
  <2> QED BY <1>1, <2>2, <2>3
<1>4. CASE WinElection(m)
  <2>1. log' = log /\ commitIndex' = commitIndex
    BY <1>4 DEF WinElection, persistent
  <2>2. PICK lead2, ack2 : Step(lead, ack, lead2, ack2) /\ After(lead2, ack2)
    BY <1>4, WinElectionStep
  <2>3. lead2 \in Books /\ ack2 \in Acks
    BY <2>2 DEF Step
  <2> QED BY <2>1, <2>2, <2>3, SameCommits
<1>5. CASE HandleRequestVote(m) \/ HandleVoteReply(m) \/ IgnoreAppendReply(m) \/ FollowerDiffers(m)
  <2>1. log' = log /\ commitIndex' = commitIndex
    BY <1>5 DEF HandleRequestVote, HandleVoteReply, IgnoreAppendReply, FollowerDiffers, persistent
  <2>2. After(lead, ack)
    BY <1>5, HandleRequestVoteStep, HandleVoteReplyStep, IgnoreAppendReplyStep, FollowerDiffersStep
  <2> QED BY <1>1, <2>1, <2>2, SameCommits
<1> QED BY <1>2, <1>3, <1>4, <1>5 DEF Deliver

LEMMA StutterStep ==
    ASSUME NEW lead, NEW ack, Before(lead, ack), UNCHANGED vars
    PROVE  CommitsKept /\ After(lead, ack)
<1>1. /\ UNCHANGED <<term, votedFor, log, role, leaderId, commitIndex, alive, votes,
                     nextIndex, matchIndex, leadersByTerm, crashes>>
      /\ Flying' = Flying
  BY DEF vars, persistent, leaderVars, Flying
<1>2. Step(lead, ack, lead, ack)
  BY <1>1, SameStep
<1>3. CandidatesOK' /\ RaftTypes'
  BY <1>1 DEF Before, CandidatesOK, RaftTypes, TypeOK
<1>4. CandidatesStay /\ NobodyVotes
  BY <1>1 DEF CandidatesStay, NobodyVotes
<1>5. History(lead, ack)'
  BY <1>1, <1>2, <1>4, OldVotes, SameLeaders
<1>6. CommitsKept
  BY <1>1, SameCommits
<1> QED BY <1>3, <1>5, <1>6 DEF After

LEMMA InitRaft == Init => RaftInv
<1> SUFFICES ASSUME Init PROVE RaftInv
  OBVIOUS
<1> DEFINE lead == [t \in Terms |-> <<>>]
           ack == [p \in Node |-> [t \in Terms |-> 0]]
<1>1. Inv /\ Flying = {}
  BY InitInv DEF Init, Flying, BagToSet, EmptyBag, SetToBag
<1>2. /\ term = [n \in Node |-> 0] /\ votedFor = [n \in Node |-> None]
      /\ log = [n \in Node |-> <<>>] /\ role = [n \in Node |-> Follower]
      /\ leaderId = [n \in Node |-> None] /\ commitIndex = [n \in Node |-> 0]
      /\ alive = [n \in Node |-> TRUE] /\ votes = [n \in Node |-> {}]
      /\ nextIndex = [n \in Node |-> [p \in Peers(n) |-> 1]]
      /\ matchIndex = [n \in Node |-> [p \in Peers(n) |-> 0]]
      /\ leadersByTerm = [t \in 1..MaxTerm |-> {}] /\ crashes = 0
  BY DEF Init
<1>3. <<>> \in Seq(Entry) /\ Len(<<>>) = 0
  BY EmptySeq
<1>4. lead \in Books /\ ack \in Acks
  BY <1>3 DEF Books, Acks
<1>5. \A t \in Terms : t \in Nat /\ t > 0 /\ lead[t] = <<>> /\ ~Elected(t)
  BY <1>2, BoundAssumption DEF Terms, Elected
<1>6. \A p, c \in Node : \A u \in Terms : ~Voted(p, u, c)
  BY <1>1, <1>2, NodeAssumption DEF Voted
<1>7. CandidatesOK
  BY <1>2, NodeAssumption DEF CandidatesOK, Terms
<1>8. TypeOK /\ DOMAIN commitIndex = Node /\ DOMAIN nextIndex = Node /\ DOMAIN matchIndex = Node
  <2>1. /\ 0 \in 0..MaxTerm /\ 1 \in 1..(MaxLog + 1) /\ 0 \in 0..MaxLog /\ 0 \in 0..MaxCrashes
        /\ 0 \in 0..0
    BY BoundAssumption
  <2>2. \A n \in Node : Len(log[n]) = 0 /\ commitIndex[n] = 0
    BY <1>2, <1>3
  <2> QED BY <1>2, <2>1, <2>2 DEF TypeOK
<1>9. LedOK(lead) /\ LogsOK(lead)
  <2>1. Matches(lead, <<>>)
    BY <1>3 DEF Matches
  <2> QED BY <1>2, <1>3, <1>5, <2>1, BoundAssumption DEF LedOK, LogsOK
<1>10. LeadersOK(lead, ack) /\ FlyingOK(lead, ack) /\ VotesOK(lead, ack)
  BY <1>1, <1>2, <1>6, NodeAssumption DEF LeadersOK, FlyingOK, VotesOK, Counts
<1>11. \A p \in Node : KeptOK(lead, ack, p) /\ CommitOK(lead, ack, p)
  BY <1>2, <1>3, <1>5 DEF KeptOK, CommitOK, Decided
<1> HIDE DEF lead, ack
<1>12. History(lead, ack)
  BY <1>5, <1>9, <1>10, <1>11 DEF History
<1> QED BY <1>1, <1>4, <1>7, <1>8, <1>12 DEF RaftInv

LEMMA NextRaft == RaftInv /\ [Next]_vars => RaftInv' /\ CommitsKept
<1> SUFFICES ASSUME RaftInv, [Next]_vars PROVE RaftInv' /\ CommitsKept
  OBVIOUS
<1>1. PICK lead \in Books, ack \in Acks : History(lead, ack)
  BY DEF RaftInv
<1>2. Before(lead, ack)
  BY <1>1, NextInv DEF RaftInv, Before, RaftTypes
<1>3. lead \in Books /\ ack \in Acks
  OBVIOUS
<1>4. CommitsKept /\ \E lead2 \in Books, ack2 \in Acks : After(lead2, ack2)
  <2>1. ASSUME NEW n \in Node, StartElection(n) \/ Heartbeat(n) \/ Crash(n) \/ Restart(n)
        PROVE  CommitsKept /\ \E lead2 \in Books, ack2 \in Acks : After(lead2, ack2)
    BY <1>2, <2>1, NodeStep
  <2>2. ASSUME NEW n \in Node, NEW c \in Command, Submit(n, c)
        PROVE  CommitsKept /\ \E lead2 \in Books, ack2 \in Acks : After(lead2, ack2)
    <3>1. PICK lead2, ack2 : Step(lead, ack, lead2, ack2) /\ After(lead2, ack2)
      BY <1>2, <2>2, SubmitStep
    <3>2. lead2 \in Books /\ ack2 \in Acks
      BY <3>1 DEF Step
    <3>3. CommitsKept
      BY <1>2, <2>2, SubmitKeeps
    <3> QED BY <3>1, <3>2, <3>3
  <2>3. ASSUME NEW m \in Flying, Deliver(m)
        PROVE  CommitsKept /\ \E lead2 \in Books, ack2 \in Acks : After(lead2, ack2)
    BY <1>2, <2>3, DeliverStep
  <2>4. CASE UNCHANGED vars
    BY <1>2, <2>4, StutterStep
  <2> QED BY <2>1, <2>2, <2>3, <2>4 DEF Next, Flying
<1>5. PICK lead2 \in Books, ack2 \in Acks : After(lead2, ack2)
  BY <1>4
<1>6. History(lead2, ack2)' /\ CandidatesOK' /\ RaftTypes' /\ Inv'
  BY <1>5, NextInv DEF After, RaftInv
<1>7. (\E l \in Books, a \in Acks : History(l, a))'
  BY <1>6
<1> QED BY <1>4, <1>6, <1>7 DEF RaftInv, RaftTypes

------------------------------------------------------------------------------
(* What the invariant says *)

LEMMA MatchedIsThere == RaftInv => LeaderKnows
<1> SUFFICES ASSUME RaftInv, NEW n \in Node, role[n] = Leader, NEW p \in Peers(n), term[p] = term[n]
             PROVE  IsPrefix(SubSeq(log[n], 1, matchIndex[n][p]), log[p])
  BY DEF RaftInv, LeaderKnows, MatchIsTrue
<1>1. PICK lead \in Books, ack \in Acks : History(lead, ack)
  BY DEF RaftInv
<1> DEFINE t == term[n]
           i == matchIndex[n][p]
<1>2. /\ LeaderOK(lead, ack, n) /\ KeptOK(lead, ack, p) /\ p \in Node
      /\ log[n] \in Seq(Entry) /\ log[p] \in Seq(Entry)
  BY <1>1 DEF History, LeadersOK, LogsOK, Peers
<1>3. t \in Terms /\ t \in Nat /\ log[n] = lead[t] /\ i <= ack[p][t] /\ ack[p][t] <= Len(log[n])
  BY <1>1, <1>2, BookFacts DEF LeaderOK, KeptOK
<1>4. i \in Nat /\ ack[p][t] \in Nat /\ Len(log[n]) \in Nat /\ Len(log[p]) \in Nat
  <2>1. matchIndex[n] \in [Peers(n) -> 0..MaxLog] /\ MaxLog \in Nat
    BY RaftFacts DEF RaftInv, RaftTypes
  <2> QED BY <1>2, <1>3, <2>1, AckFacts, LogTypes
<1>5. Has(log[p], log[n], i)
  <2>1. CASE i = 0
    BY <1>4, <2>1 DEF Has
  <2>2. CASE i # 0
    <3>1. i \in 1..ack[p][t]
      BY <1>3, <1>4, <2>2
    <3>2. ~Overruled(lead, t, i, term[p])
      BY <1>3, BookFacts DEF Overruled, Terms
    <3> QED BY <1>2, <1>3, <3>1, <3>2 DEF KeptOK
  <2> QED BY <2>1, <2>2
<1> HIDE DEF i
<1>6. i <= Len(log[n])
  BY <1>3, <1>4
<1>7. IsPrefix(SubSeq(log[n], 1, i), log[p])
  BY <1>2, <1>4, <1>5, <1>6, HasPrefix
<1> QED BY <1>7 DEF i

\* What is committed was decided by the leader of some term.
LEMMA DecidedBy ==
    ASSUME NEW lead \in Books, NEW ack, LedOK(lead), NEW L, NEW c \in Nat, c # 0, NEW u,
           Decided(lead, ack, L, c, u)
    PROVE  \E s \in Terms : /\ Elected(s) /\ Decided(lead, ack, L, c, s)
                            /\ c <= Len(lead[s]) /\ Has(L, lead[s], c)
<1>1. PICK s \in Terms, i \in Nat :
         s <= u /\ c <= i /\ Chosen(lead, ack, s, i) /\ Has(L, lead[s], c)
  BY DEF Decided
<1>2. s \in Nat /\ Len(lead[s]) \in Nat /\ i \in 1..Len(lead[s]) /\ lead[s] \in Seq(Entry)
  BY <1>1, BookFacts DEF Chosen
<1>3. lead[s] # <<>>
  BY <1>2, EmptySeq
<1>4. Elected(s)
  BY <1>3 DEF LedOK
<1>5. Decided(lead, ack, L, c, s)
  BY <1>1, <1>2 DEF Decided
<1> QED BY <1>1, <1>2, <1>4, <1>5

LEMMA DecidedAgree ==
    ASSUME NEW lead \in Books, NEW ack \in Acks, History(lead, ack),
           NEW L, NEW c \in Nat, NEW s \in Terms, Decided(lead, ack, L, c, s),
           NEW M, NEW d \in Nat, NEW t \in Terms, Elected(t), Has(M, lead[t], d),
           s <= t, NEW i \in Nat, i # 0, i <= c, i <= d
    PROVE  L[i] = M[i]
<1>1. s \in Int /\ c # 0
  BY BookFacts
<1>2. Has(L, lead[t], c)
  BY <1>1, LeaderHasDecided
<1> QED BY <1>2 DEF Has

LEMMA CommittedAgree == RaftInv => CommittedIsAgreed
<1> SUFFICES ASSUME RaftInv PROVE CommittedIsAgreed
  OBVIOUS
<1>1. PICK lead \in Books, ack \in Acks : History(lead, ack)
  BY DEF RaftInv
<1>2. LedOK(lead) /\ RaftTypes
  BY <1>1 DEF History, RaftInv, RaftTypes
<1>3. ASSUME NEW n \in Node
      PROVE  /\ log[n] \in Seq(Entry) /\ Len(log[n]) \in Nat
             /\ commitIndex[n] \in Nat /\ commitIndex[n] <= Len(log[n]) /\ term[n] \in Int
             /\ Decided(lead, ack, log[n], commitIndex[n], term[n])
  <2>1. log[n] \in Seq(Entry) /\ CommitOK(lead, ack, n)
    BY <1>1 DEF History, LogsOK
  <2> QED BY <1>2, <2>1, LogTypes, RaftFacts DEF CommitOK
<1>4. StateMachineSafety
  <2> SUFFICES ASSUME NEW n \in Node, NEW p \in Node, NEW i \in 1..Min({commitIndex[n], commitIndex[p]})
               PROVE  log[n][i] = log[p][i]
    BY DEF StateMachineSafety
  <2> DEFINE c == commitIndex[n]
             d == commitIndex[p]
  <2>1. i \in Nat /\ i # 0 /\ i <= c /\ i <= d /\ c \in Nat /\ d \in Nat /\ c # 0 /\ d # 0
    <3>1. c \in Nat /\ d \in Nat
      BY <1>3
    <3> HIDE DEF c, d
    <3>2. Min({c, d}) \in {c, d} /\ Min({c, d}) <= c /\ Min({c, d}) <= d
      <4>1. c \in Int /\ d \in Int
        BY <3>1
      <4> QED BY <4>1, MinOfTwo
    <3>3. i \in 1..Min({c, d})
      BY DEF c, d
    <3> QED BY <3>1, <3>2, <3>3
  <2>2. PICK s \in Terms : Elected(s) /\ Decided(lead, ack, log[n], c, s) /\ Has(log[n], lead[s], c)
    BY <1>2, <1>3, <2>1, DecidedBy
  <2>3. PICK t \in Terms : Elected(t) /\ Decided(lead, ack, log[p], d, t) /\ Has(log[p], lead[t], d)
    BY <1>2, <1>3, <2>1, DecidedBy
  <2>4. s \in Nat /\ t \in Nat
    BY BookFacts
  <2> HIDE DEF c, d
  <2>5. CASE s <= t
    BY <1>1, <2>1, <2>2, <2>3, <2>5, DecidedAgree
  <2>6. CASE t <= s
    <3>1. log[p][i] = log[n][i]
      BY <1>1, <2>1, <2>2, <2>3, <2>6, DecidedAgree
    <3> QED BY <3>1
  <2> QED BY <2>4, <2>5, <2>6
<1>5. LeaderCompleteness
  <2> SUFFICES ASSUME NEW n \in Node, NEW p \in Node, role[n] = Leader, term[p] <= term[n]
               PROVE  IsPrefix(SubSeq(log[p], 1, commitIndex[p]), log[n])
    BY DEF LeaderCompleteness
  <2> DEFINE c == commitIndex[p]
  <2>1. term[n] \in Terms /\ Elected(term[n]) /\ log[n] = lead[term[n]]
    BY <1>1 DEF History, LeadersOK, LeaderOK, Elected
  <2>2. Has(log[n], log[p], c)
    <3>1. CASE c = 0
      BY <1>3, <3>1 DEF Has
    <3>2. CASE c # 0
      <4>1. c <= Len(log[n]) /\ Has(log[p], log[n], c)
        BY <1>1, <1>3, <2>1, <3>2, LeaderHasDecided
      <4> QED BY <4>1 DEF Has
    <3> QED BY <3>1, <3>2
  <2> QED BY <1>3, <2>2, HasPrefix
<1> QED BY <1>4, <1>5 DEF CommittedIsAgreed

LEMMA CommitsStay ==
    ASSUME RaftInv, RaftInv', CommitsKept
    PROVE  \A n \in Node : /\ IsPrefix(SubSeq(log[n], 1, commitIndex[n]), log'[n])
                           /\ alive'[n] = alive[n] => commitIndex'[n] >= commitIndex[n]
<1> SUFFICES ASSUME NEW n \in Node PROVE IsPrefix(SubSeq(log[n], 1, commitIndex[n]), log'[n])
  BY DEF CommitsKept
<1>1. log[n] \in Seq(Entry) /\ log'[n] \in Seq(Entry)
  BY DEF RaftInv, History, LogsOK
<1>2. commitIndex[n] \in Nat /\ commitIndex[n] <= Len(log[n])
  BY RaftFacts DEF RaftInv, RaftTypes
<1>3. Has(log'[n], log[n], commitIndex[n])
  BY DEF CommitsKept
<1> QED BY <1>1, <1>2, <1>3, HasPrefix

\* A leader's bookkeeping has its types, and what a leader believes a follower of
\* its term to have stored is in that follower's log.
THEOREM LeadersKnow == Spec => []LeaderKnows
  BY InitRaft, NextRaft, MatchedIsThere, PTL DEF Spec

\* No two nodes commit different commands at one index, and a leader has all that
\* was committed in its term or before, whatever is lost, delayed or reordered and
\* however nodes crash and restart.
THEOREM CommittedAgrees == Spec => []CommittedIsAgreed
  BY InitRaft, NextRaft, CommittedAgree, PTL DEF Spec

\* A node never rewrites what it has committed, and forgets how much that is only
\* in a restart.
THEOREM CommittedKept == Spec => CommittedIsKept
<1>1. RaftInv /\ [Next]_vars =>
         [\A n \in Node : /\ IsPrefix(SubSeq(log[n], 1, commitIndex[n]), log'[n])
                          /\ alive'[n] = alive[n] => commitIndex'[n] >= commitIndex[n]]_vars
  BY NextRaft, CommitsStay
<1> QED BY InitRaft, NextRaft, <1>1, PTL DEF Spec, CommittedIsKept

=============================================================================
