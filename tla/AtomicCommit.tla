------------------------------ MODULE AtomicCommit ------------------------------
(***************************************************************************)
(* What an atomic commitment promises the participants of one set of       *)
(* transactions, whoever decides and however the answer reaches them:      *)
(* a participant enters a transaction, and leaves it with the outcome all  *)
(* the others leave it with.                                               *)
(***************************************************************************)
CONSTANTS Tx, Members, Participant
\* Members[t]: the participants whose consent a commit of t needs.

VARIABLE outcome    \* outcome[t][p]

Outcomes == {"working", "prepared", "committed", "aborted"}

Init == outcome = [t \in Tx |-> [p \in Participant |-> "working"]]

Become(t, p, o) == outcome' = [outcome EXCEPT ![t][p] = o]

\* p consents, and can no longer leave on its own.
Consent(t, p) ==
    /\ outcome[t][p] = "working"
    /\ Become(t, p, "prepared")

\* A commit needs the consent of every member.
Commit(t, p) ==
    /\ outcome[t][p] = "prepared"
    /\ \A q \in Members[t] : outcome[t][q] \in {"prepared", "committed"}
    /\ Become(t, p, "committed")

\* An abort needs that nobody has committed.
Abort(t, p) ==
    /\ outcome[t][p] \in {"working", "prepared"}
    /\ \A q \in Participant : outcome[t][q] # "committed"
    /\ Become(t, p, "aborted")

Next == \E t \in Tx, p \in Participant : Consent(t, p) \/ Commit(t, p) \/ Abort(t, p)

Spec == Init /\ [][Next]_outcome
=============================================================================
