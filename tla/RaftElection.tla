----------------------------- MODULE RaftElection -----------------------------
(***************************************************************************)
(* code/hld/raft_election.py: RaftNode (election, replication) and the     *)
(* faults of RaftCluster.                                                  *)
(*                                                                         *)
(* The simulation handles one message or one timer at a time, so each is   *)
(* one action.  Latencies and election timeouts are random there; here any *)
(* message in flight may arrive next and any timer may fire next, which    *)
(* covers every seed and every configuration.  A partition and the crash   *)
(* of a receiver drop messages at delivery; a message that will be dropped *)
(* is simply never put in flight here (Send).                              *)
(***************************************************************************)
EXTENDS Integers, Sequences, FiniteSets, FiniteSetsExt, BagsExt, SequencesExt

CONSTANTS
    Node,         \* the node ids
    Command,      \* what clients submit
    Follower, Candidate, Leader,  \* Role
    None,         \* voted_for, leader_id: nobody
    MaxTerm,      \* bound: the highest term an election starts
    MaxLog,       \* bound: the longest log a submit extends to
    MaxInFlight,  \* bound: messages in flight; any beyond it are lost
    MaxCrashes    \* bound: crashes in one behaviour

ASSUME NodeAssumption ==
    /\ IsFiniteSet(Node) /\ Cardinality(Node) >= 2   \* a lone node sends nothing
    /\ None \notin Node
    /\ Follower # Candidate /\ Candidate # Leader /\ Follower # Leader

ASSUME BoundAssumption ==
    MaxTerm \in Nat /\ MaxLog \in Nat /\ MaxInFlight \in Nat /\ MaxCrashes \in Nat

VARIABLES
    term, votedFor, log,   \* persistent; log[n] is a sequence of [term, command]
    role, leaderId, commitIndex, alive,
    votes,                 \* votes[n]: who granted n its vote in its last election
    nextIndex, matchIndex, \* of the last term n led
    inFlight,              \* the bag of messages on their way
    leadersByTerm,         \* leaders_by_term
    crashes                \* crashes so far (bound)

persistent == <<term, votedFor, log>>
leaderVars == <<nextIndex, matchIndex>>
vars == <<persistent, role, leaderId, commitIndex, alive, votes, leaderVars,
          inFlight, leadersByTerm, crashes>>

Majority == Cardinality(Node) \div 2 + 1
Peers(n) == Node \ {n}
LastLogIndex(n) == Len(log[n])
TermAt(entries, i) == IF i > 0 THEN entries[i].term ELSE 0
LastLogTerm(n) == TermAt(log[n], LastLogIndex(n))

Init ==
    /\ term = [n \in Node |-> 0]
    /\ votedFor = [n \in Node |-> None]
    /\ log = [n \in Node |-> <<>>]
    /\ role = [n \in Node |-> Follower]
    /\ leaderId = [n \in Node |-> None]
    /\ commitIndex = [n \in Node |-> 0]
    /\ alive = [n \in Node |-> TRUE]
    /\ votes = [n \in Node |-> {}]
    /\ nextIndex = [n \in Node |-> [p \in Peers(n) |-> 1]]
    /\ matchIndex = [n \in Node |-> [p \in Peers(n) |-> 0]]
    /\ inFlight = EmptyBag
    /\ leadersByTerm = [t \in 1..MaxTerm |-> {}]
    /\ crashes = 0

-----------------------------------------------------------------------------
(* Messages                                                                *)

Message(type, src, dst, t, content) ==
    [type |-> type, src |-> src, dst |-> dst, term |-> t, content |-> content]

RequestVote(n, p, t) ==
    Message("RequestVote", n, p, t, [lastIndex |-> LastLogIndex(n), lastTerm |-> LastLogTerm(n)])

VoteReply(n, p, t, granted) == Message("VoteReply", n, p, t, granted)

\* The entries of log that p lacks as far as next tells, after the one before them.
AppendEntries(n, p, t, entries, next, commit) ==
    Message("AppendEntries", n, p, t,
            [prevIndex |-> next - 1, prevTerm |-> TermAt(entries, next - 1),
             entries |-> SubSeq(entries, next, Len(entries)), commit |-> commit])

AppendReply(n, p, t, success, match) ==
    Message("AppendReply", n, p, t, [success |-> success, match |-> match])

\* Some of the messages of S leave in place of those in "used"; the others are lost.
Exchange(used, S) ==
    \E sent \in SUBSET S :
        /\ inFlight' = (inFlight (-) SetToBag(used)) (+) SetToBag(sent)
        /\ BagCardinality(inFlight') <= MaxInFlight

Send(S) == Exchange({}, S)

-----------------------------------------------------------------------------
(* Timers and clients                                                      *)

\* start_election: the election timer of n fires.
StartElection(n) ==
    /\ alive[n] /\ role[n] # Leader /\ term[n] < MaxTerm
    /\ term' = [term EXCEPT ![n] = @ + 1]
    /\ role' = [role EXCEPT ![n] = Candidate]
    /\ votedFor' = [votedFor EXCEPT ![n] = n]
    /\ leaderId' = [leaderId EXCEPT ![n] = None]
    /\ votes' = [votes EXCEPT ![n] = {n}]
    /\ Send({RequestVote(n, p, term'[n]) : p \in Peers(n)})
    /\ UNCHANGED <<log, commitIndex, alive, leaderVars, leadersByTerm, crashes>>

\* broadcast_append, from a timer.
Heartbeat(n) ==
    /\ alive[n] /\ role[n] = Leader
    /\ Send({AppendEntries(n, p, term[n], log[n], nextIndex[n][p], commitIndex[n]) :
               p \in Peers(n)})
    /\ UNCHANGED <<persistent, role, leaderId, commitIndex, alive, votes, leaderVars,
                   leadersByTerm, crashes>>

\* submit: it asks for the role only, so a crashed leader accepts a command too.
Submit(n, c) ==
    /\ role[n] = Leader
    /\ Len(log[n]) < MaxLog
    /\ log' = [log EXCEPT ![n] = Append(@, [term |-> term[n], command |-> c])]
    /\ Send({AppendEntries(n, p, term[n], log'[n], nextIndex[n][p], commitIndex[n]) :
               p \in Peers(n)})
    /\ UNCHANGED <<term, votedFor, role, leaderId, commitIndex, alive, votes, leaderVars,
                   leadersByTerm, crashes>>

-----------------------------------------------------------------------------
(* on_message: a newer term first turns the receiver into a follower.      *)

Newer(m) == m.term > term[m.dst]
TermNow(m) == IF Newer(m) THEN m.term ELSE term[m.dst]
VoteNow(m) == IF Newer(m) THEN None ELSE votedFor[m.dst]
RoleNow(m) == IF Newer(m) THEN Follower ELSE role[m.dst]
LeaderNow(m) == IF Newer(m) THEN None ELSE leaderId[m.dst]

Receivable(m, type) == m \in BagToSet(inFlight) /\ m.type = type /\ alive[m.dst]

Adopt(m, vote, newRole, newLeader) ==
    /\ term' = [term EXCEPT ![m.dst] = TermNow(m)]
    /\ votedFor' = [votedFor EXCEPT ![m.dst] = vote]
    /\ role' = [role EXCEPT ![m.dst] = newRole]
    /\ leaderId' = [leaderId EXCEPT ![m.dst] = newLeader]

\* Seeded fault: the log comparison is left out.
GrantsStaleLogs(m) == m.term = TermNow(m) /\ VoteNow(m) \in {None, m.src}

\* One vote per term, for a candidate whose log is at least as up to date.
Grants(m) ==
    LET n == m.dst IN
    /\ m.term = TermNow(m)
    /\ VoteNow(m) \in {None, m.src}
    /\ \/ m.content.lastTerm > LastLogTerm(n)
       \/ m.content.lastTerm = LastLogTerm(n) /\ m.content.lastIndex >= LastLogIndex(n)

HandleRequestVote(m) ==
    /\ Receivable(m, "RequestVote")
    /\ Adopt(m, IF Grants(m) THEN m.src ELSE VoteNow(m), RoleNow(m), LeaderNow(m))
    /\ Exchange({m}, {VoteReply(m.dst, m.src, TermNow(m), Grants(m))})
    /\ UNCHANGED <<log, commitIndex, alive, votes, leaderVars, leadersByTerm, crashes>>

CountsVote(m) == RoleNow(m) = Candidate /\ m.term = TermNow(m) /\ m.content

\* A vote that does not count (refused, stale, or the election is over), and a
\* vote that does not yet make a majority.
HandleVoteReply(m) ==
    LET n == m.dst
        now == IF CountsVote(m) THEN votes[n] \cup {m.src} ELSE votes[n]
    IN  /\ Receivable(m, "VoteReply")
        /\ CountsVote(m) => Cardinality(now) < Majority
        /\ Adopt(m, VoteNow(m), RoleNow(m), LeaderNow(m))
        /\ votes' = [votes EXCEPT ![n] = now]
        /\ Exchange({m}, {})
        /\ UNCHANGED <<log, commitIndex, alive, leaderVars, leadersByTerm, crashes>>

\* _maybe_become_leader with a majority: the first heartbeat goes out at once.
WinElection(m) ==
    LET n == m.dst
        now == votes[n] \cup {m.src}
        next == Len(log[n]) + 1
    IN  /\ Receivable(m, "VoteReply")
        /\ CountsVote(m)
        /\ Cardinality(now) >= Majority
        /\ votes' = [votes EXCEPT ![n] = now]
        /\ role' = [role EXCEPT ![n] = Leader]
        /\ leaderId' = [leaderId EXCEPT ![n] = n]
        /\ nextIndex' = [nextIndex EXCEPT ![n] = [p \in Peers(n) |-> next]]
        /\ matchIndex' = [matchIndex EXCEPT ![n] = [p \in Peers(n) |-> 0]]
        /\ leadersByTerm' = [leadersByTerm EXCEPT ![term[n]] = @ \cup {n}]
        /\ Exchange({m}, {AppendEntries(n, p, term[n], log[n], next, commitIndex[n]) :
                            p \in Peers(n)})
        /\ UNCHANGED <<persistent, commitIndex, alive, crashes>>

\* Seeded fault: entries overwrite the tail.
MergedShort(mine, prev, entries) == SubSeq(mine, 1, prev) \o entries

\* The follower's log after the entries that follow prev: what agrees stays, the
\* first conflict cuts the tail.
Merged(mine, prev, entries) ==
    LET agreed == Max({k \in 0..Len(entries) :
                         /\ prev + k <= Len(mine)
                         /\ \A i \in 1..k : mine[prev + i].term = entries[i].term})
    IN  IF agreed = Len(entries) THEN mine
        ELSE SubSeq(mine, 1, prev + agreed) \o SubSeq(entries, agreed + 1, Len(entries))

Consistent(m) ==
    LET prev == m.content.prevIndex IN
    /\ prev <= LastLogIndex(m.dst)
    /\ prev > 0 => log[m.dst][prev].term = m.content.prevTerm

\* An older term is refused; any other makes the receiver a follower of the
\* sender, which may still have to back up.
HandleAppendEntries(m) ==
    LET n == m.dst
        lastNew == m.content.prevIndex + Len(m.content.entries)
    IN  /\ Receivable(m, "AppendEntries")
        /\ \/ /\ m.term < term[n]
              /\ Exchange({m}, {AppendReply(n, m.src, term[n], FALSE, 0)})
              /\ UNCHANGED <<persistent, role, leaderId, commitIndex>>
           \/ /\ m.term >= term[n] /\ ~Consistent(m)
              /\ Adopt(m, VoteNow(m), Follower, m.src)
              /\ Exchange({m}, {AppendReply(n, m.src, m.term, FALSE, 0)})
              /\ UNCHANGED <<log, commitIndex>>
           \/ /\ m.term >= term[n] /\ Consistent(m)
              /\ Adopt(m, VoteNow(m), Follower, m.src)
              /\ log' = [log EXCEPT ![n] = Merged(@, m.content.prevIndex, m.content.entries)]
              /\ commitIndex' = [commitIndex EXCEPT ![n] =
                                    Max({@, Min({m.content.commit, lastNew})})]
              /\ Exchange({m}, {AppendReply(n, m.src, m.term, TRUE, lastNew)})
        /\ UNCHANGED <<alive, votes, leaderVars, leadersByTerm, crashes>>

\* Seeded fault: entries of earlier terms are committed by counting replicas.
CommittedOfAnyTerm(n, match) ==
    LET agreed == {i \in (commitIndex[n] + 1)..Len(log[n]) :
                     1 + Cardinality({p \in Peers(n) : match[p] >= i}) >= Majority}
    IN  Max(agreed \cup {commitIndex[n]})

\* _advance_commit_index: the highest index a majority holds, of this term only.
Committed(n, match) ==
    LET agreed == {i \in (commitIndex[n] + 1)..Len(log[n]) :
                     /\ \A j \in i..Len(log[n]) : log[n][j].term = term[n]
                     /\ 1 + Cardinality({p \in Peers(n) : match[p] >= i}) >= Majority}
    IN  Max(agreed \cup {commitIndex[n]})

LeadsAt(m) == RoleNow(m) = Leader /\ m.term = TermNow(m)

\* A reply of another term, or to a node that leads no more.
IgnoreAppendReply(m) ==
    /\ Receivable(m, "AppendReply")
    /\ ~LeadsAt(m)
    /\ Adopt(m, VoteNow(m), RoleNow(m), LeaderNow(m))
    /\ Exchange({m}, {})
    /\ UNCHANGED <<log, commitIndex, alive, votes, leaderVars, leadersByTerm, crashes>>

FollowerMatches(m) ==
    LET n == m.dst IN
    /\ Receivable(m, "AppendReply")
    /\ LeadsAt(m) /\ m.content.success
    /\ matchIndex' = [matchIndex EXCEPT ![n][m.src] = Max({@, m.content.match})]
    /\ nextIndex' = [nextIndex EXCEPT ![n][m.src] = matchIndex'[n][m.src] + 1]
    /\ commitIndex' = [commitIndex EXCEPT ![n] = Committed(n, matchIndex'[n])]
    /\ Exchange({m}, {})
    /\ UNCHANGED <<persistent, role, leaderId, alive, votes, leadersByTerm, crashes>>

\* The follower's log does not match there: try one entry earlier.
FollowerDiffers(m) ==
    LET n == m.dst
        next == Max({1, nextIndex[n][m.src] - 1})
    IN  /\ Receivable(m, "AppendReply")
        /\ LeadsAt(m) /\ ~m.content.success
        /\ nextIndex' = [nextIndex EXCEPT ![n][m.src] = next]
        /\ Exchange({m}, {AppendEntries(n, m.src, term[n], log[n], next, commitIndex[n])})
        /\ UNCHANGED <<persistent, role, leaderId, commitIndex, alive, votes, matchIndex,
                       leadersByTerm, crashes>>

-----------------------------------------------------------------------------
(* crash and restart                                                       *)

Crash(n) ==
    /\ alive[n] /\ crashes < MaxCrashes
    /\ alive' = [alive EXCEPT ![n] = FALSE]
    /\ crashes' = crashes + 1
    /\ UNCHANGED <<persistent, role, leaderId, commitIndex, votes, leaderVars, inFlight,
                   leadersByTerm>>

\* Seeded fault: the vote does not survive the crash.
RestartForgetsVote(n) ==
    /\ ~alive[n]
    /\ alive' = [alive EXCEPT ![n] = TRUE]
    /\ role' = [role EXCEPT ![n] = Follower]
    /\ leaderId' = [leaderId EXCEPT ![n] = None]
    /\ votedFor' = [votedFor EXCEPT ![n] = None]
    /\ commitIndex' = [commitIndex EXCEPT ![n] = 0]
    /\ UNCHANGED <<term, log, votes, leaderVars, inFlight, leadersByTerm, crashes>>

\* Back with term, vote and log; the commit index is learned again.  Callers
\* restart only nodes that they have crashed.
Restart(n) ==
    /\ ~alive[n]
    /\ alive' = [alive EXCEPT ![n] = TRUE]
    /\ role' = [role EXCEPT ![n] = Follower]
    /\ leaderId' = [leaderId EXCEPT ![n] = None]
    /\ commitIndex' = [commitIndex EXCEPT ![n] = 0]
    /\ UNCHANGED <<persistent, votes, leaderVars, inFlight, leadersByTerm, crashes>>

-----------------------------------------------------------------------------
Deliver(m) ==
    \/ HandleRequestVote(m) \/ HandleVoteReply(m) \/ WinElection(m)
    \/ HandleAppendEntries(m)
    \/ IgnoreAppendReply(m) \/ FollowerMatches(m) \/ FollowerDiffers(m)

Next ==
    \/ \E n \in Node : StartElection(n) \/ Heartbeat(n) \/ Crash(n) \/ Restart(n)
    \/ \E n \in Node, c \in Command : Submit(n, c)
    \/ \E m \in BagToSet(inFlight) : Deliver(m)

Spec == Init /\ [][Next]_vars

-----------------------------------------------------------------------------
(* Properties                                                              *)

\* Every variable keeps its type.
TypeOK ==
    /\ term \in [Node -> 0..MaxTerm]
    /\ votedFor \in [Node -> Node \cup {None}]
    /\ \A n \in Node : \A i \in 1..Len(log[n]) :
          log[n][i] \in [term : 1..MaxTerm, command : Command]
    /\ role \in [Node -> {Follower, Candidate, Leader}]
    /\ leaderId \in [Node -> Node \cup {None}]
    /\ \A n \in Node : commitIndex[n] \in 0..Len(log[n])
    /\ alive \in [Node -> BOOLEAN]
    /\ votes \in [Node -> SUBSET Node]
    /\ \A n \in Node : /\ nextIndex[n] \in [Peers(n) -> 1..(MaxLog + 1)]
                       /\ matchIndex[n] \in [Peers(n) -> 0..MaxLog]
    /\ \A t \in DOMAIN leadersByTerm : leadersByTerm[t] \subseteq Node
    /\ crashes \in 0..MaxCrashes

\* election_safety_holds(): at most one leader is ever elected in a term.
ElectionSafety ==
    \A t \in DOMAIN leadersByTerm : \A a, b \in leadersByTerm[t] : a = b

\* Nodes never apply different commands at the same index.
StateMachineSafety ==
    \A n, p \in Node : \A i \in 1..Min({commitIndex[n], commitIndex[p]}) :
        log[n][i] = log[p][i]

\* A leader holds all that any node of its term or an earlier one has committed.
LeaderCompleteness ==
    \A n, p \in Node : role[n] = Leader /\ term[p] <= term[n] =>
        IsPrefix(SubSeq(log[p], 1, commitIndex[p]), log[n])

\* A leader knows where its followers agree: what it counts as replicated at a
\* node that has not moved on to a later term is in that node's log.
MatchIsTrue ==
    \A n \in Node : role[n] = Leader => \A p \in Peers(n) :
        term[p] = term[n] =>
            IsPrefix(SubSeq(log[n], 1, matchIndex[n][p]), log[p])

\* A leader's bookkeeping is right, in its types and in what it says of followers.
LeaderKnows == TypeOK /\ MatchIsTrue

\* What is committed is the same everywhere, and every later leader has it.
CommittedIsAgreed == StateMachineSafety /\ LeaderCompleteness

\* What a node has committed it never rewrites, and forgets only in a restart.
CommittedIsKept ==
    [][\A n \in Node : /\ IsPrefix(SubSeq(log[n], 1, commitIndex[n]), log'[n])
                       /\ alive'[n] = alive[n] => commitIndex'[n] >= commitIndex[n]]_vars
=============================================================================
