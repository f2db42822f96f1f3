--------------------------------- MODULE Turns ---------------------------------
(***************************************************************************)
(* What fenced access to a set of resources promises.  Clients take turns  *)
(* at a resource: at most one turn is open, every turn is later than all   *)
(* earlier ones, and a resource always shows the work of its latest turn   *)
(* that did any.  A client whose turn is over may go on working; what it   *)
(* does then shows only as long as no later turn has done anything.        *)
(***************************************************************************)
EXTENDS Naturals

CONSTANTS Client, Resource, None,
          Number      \* the numbers of turns, naturals

VARIABLES
    open,      \* open[r]: the turn that is open at r, or None
    taken,     \* taken[r]: the turns ever taken at r, <<number, client>>
    shown      \* shown[r]: the turn whose work r shows, or None

vars == <<open, taken, shown>>

Init ==
    /\ open = [r \in Resource |-> None]
    /\ taken = [r \in Resource |-> {}]
    /\ shown = [r \in Resource |-> None]

\* A turn opens when none is open, with a number above all earlier ones.
Open(r, c) ==
    /\ open[r] = None
    /\ \E n \in Number :
          /\ \A q \in Resource : \A t \in taken[q] : t[1] < n
          /\ open' = [open EXCEPT ![r] = <<n, c>>]
          /\ taken' = [taken EXCEPT ![r] = @ \cup {<<n, c>>}]
    /\ UNCHANGED shown

\* Any number of turns end, by themselves or with time.
End(R) ==
    /\ open' = [r \in Resource |-> IF r \in R THEN None ELSE open[r]]
    /\ UNCHANGED <<taken, shown>>

\* Work of an open turn always shows; work of an earlier one may.
Work(r, t) ==
    /\ t \in taken[r]
    /\ shown[r] = None \/ shown[r][1] <= t[1]
    /\ shown' = [shown EXCEPT ![r] = t]
    /\ UNCHANGED <<open, taken>>

Next ==
    \/ \E r \in Resource, c \in Client : Open(r, c)
    \/ \E R \in SUBSET Resource : End(R)
    \/ \E r \in Resource : \E t \in taken[r] : Work(r, t)

Spec == Init /\ [][Next]_vars
=============================================================================
