------------------------------- MODULE SeatHold -------------------------------
(***************************************************************************)
(* code/hld/seat_hold.py: the WaitingRoom in front of an on-sale and the   *)
(* SeatInventory behind it.                                                *)
(*                                                                         *)
(* Each "with self._lock" block is one action.  What the code does outside *)
(* its locks is split off: hold checks the admission token and reads the   *)
(* clock, then takes the lock; the sweeper reads its deadline before the   *)
(* lock; admit reads the expiry of its tokens before the lock.  Everybody  *)
(* else, and the clock, may run in between.                                *)
(***************************************************************************)
EXTENDS Integers, Sequences, FiniteSets, SequencesExt

CONSTANTS
    User, Seat,
    HoldTTL, Grace, TokenTTL,
    None,
    MaxTime,      \* bound: the last value of the clock
    MaxHolds,     \* bound: holds taken
    MaxTickets    \* bound: tickets of the waiting room

ASSUME SeatAssumption ==
    /\ HoldTTL \in Nat \ {0} /\ TokenTTL \in Nat \ {0} /\ Grace \in Nat
    /\ MaxTime \in Nat /\ MaxHolds \in Nat /\ MaxTickets \in Nat
    /\ None \notin Int

VARIABLES
    now,
    \* WaitingRoom
    queue,        \* users in FIFO order
    ticketOf,     \* ticketOf[u] while u is queued, or None
    nextTicket, served,
    admitted,     \* admitted[u]: expiry of u's latest token, or None
    admitAt,      \* a call of admit: the expiry it computed, or None
    \* SeatInventory
    seats,        \* seats[s]: status, version, and the hold the row names
    holds,        \* the holds, numbered in the order they were taken
    calls,        \* calls[u]: u's call of hold, its token checked, or None
    deadline      \* a pass of expire_holds: the deadline it computed, or None

roomVars == <<queue, ticketOf, nextTicket, served, admitted, admitAt>>
saleVars == <<seats, holds>>
vars == <<now, roomVars, saleVars, calls, deadline>>

HoldId == 1..MaxHolds
Wanted == (SUBSET Seat) \ {{}}

TypeOK ==
    /\ now \in 0..MaxTime
    /\ queue \in Seq(User)
    /\ ticketOf \in [User -> 1..MaxTickets \cup {None}]
    /\ nextTicket \in 1..(MaxTickets + 1) /\ served \in 0..MaxTickets
    /\ admitted \in [User -> 0..(MaxTime + TokenTTL) \cup {None}]
    /\ admitAt \in 0..(MaxTime + TokenTTL) \cup {None}
    /\ \A s \in Seat :
          /\ DOMAIN seats[s] = {"status", "version", "hold"}
          /\ seats[s].status \in {"available", "held", "booked"}
          /\ seats[s].version \in Nat
          /\ seats[s].hold \in HoldId \cup {None}
    /\ DOMAIN holds \subseteq HoldId
    /\ \A h \in DOMAIN holds :
          /\ holds[h].user \in User /\ holds[h].seats \in Wanted
          /\ holds[h].expiresAt \in 0..(MaxTime + HoldTTL)
          /\ holds[h].versions \in [holds[h].seats -> Nat]
          /\ holds[h].status \in {"active", "confirmed", "released", "expired"}
    /\ \A u \in User : calls[u] # None =>
          /\ calls[u].seats \in Wanted
          /\ calls[u].at \in 0..MaxTime
    /\ deadline \in (0 - Grace)..MaxTime \cup {None}

Init ==
    /\ now = 0
    /\ queue = <<>>
    /\ ticketOf = [u \in User |-> None]
    /\ nextTicket = 1 /\ served = 0
    /\ admitted = [u \in User |-> None]
    /\ admitAt = None
    /\ seats = [s \in Seat |-> [status |-> "available", version |-> 0, hold |-> None]]
    /\ holds = <<>>
    /\ calls = [u \in User |-> None]
    /\ deadline = None

------------------------------------------------------------------------------
(* WaitingRoom *)

\* join: joining again while queued changes nothing.
Join(u) ==
    /\ ticketOf[u] = None
    /\ nextTicket <= MaxTickets
    /\ ticketOf' = [ticketOf EXCEPT ![u] = nextTicket]
    /\ nextTicket' = nextTicket + 1
    /\ queue' = Append(queue, u)
    /\ UNCHANGED <<now, served, admitted, admitAt, saleVars, calls, deadline>>

AdmitStart ==
    /\ admitAt = None /\ queue # <<>>
    /\ admitAt' = now + TokenTTL
    /\ UNCHANGED <<now, queue, ticketOf, nextTicket, served, admitted, saleVars, calls, deadline>>

\* Seeded fault: the ticket counter advances by the count asked for.
AdmitCountsAsked(count) ==
    /\ admitAt # None
    /\ LET n == IF count <= Len(queue) THEN count ELSE Len(queue)
           leaving == {queue[i] : i \in 1..n}
       IN  /\ queue' = SubSeq(queue, n + 1, Len(queue))
           /\ ticketOf' = [u \in User |-> IF u \in leaving THEN None ELSE ticketOf[u]]
           /\ served' = served + count
           /\ admitted' = [u \in User |-> IF u \in leaving THEN admitAt ELSE admitted[u]]
    /\ admitAt' = None
    /\ UNCHANGED <<now, nextTicket, saleVars, calls, deadline>>

\* admit(count): the first count users of the queue get a token.
Admit(count) ==
    /\ admitAt # None
    /\ LET n == IF count <= Len(queue) THEN count ELSE Len(queue)
           leaving == {queue[i] : i \in 1..n}
       IN  /\ queue' = SubSeq(queue, n + 1, Len(queue))
           /\ ticketOf' = [u \in User |-> IF u \in leaving THEN None ELSE ticketOf[u]]
           /\ served' = served + n
           /\ admitted' = [u \in User |-> IF u \in leaving THEN admitAt ELSE admitted[u]]
    /\ admitAt' = None
    /\ UNCHANGED <<now, nextTicket, saleVars, calls, deadline>>

------------------------------------------------------------------------------
(* SeatInventory.hold *)

\* require, and the clock reading before the lock.  The code looks at the clock
\* twice; only the token's expiry could fall between, which nothing later asks
\* about.  The bound on the time lets a hold that gets in run out before the clock
\* stops.
HoldStart(u, wanted) ==
    /\ calls[u] = None
    /\ admitted[u] # None /\ admitted[u] > now
    /\ Len(holds) < MaxHolds
    /\ now + HoldTTL + Grace <= MaxTime
    /\ calls' = [calls EXCEPT ![u] = [seats |-> wanted, at |-> now]]
    /\ UNCHANGED <<now, roomVars, saleVars, deadline>>

\* Seeded fault: a seat can be taken at its TTL less one.
TakeableEarly(s, at) ==
    \/ seats[s].status = "available"
    \/ /\ seats[s].status = "held"
       /\ holds[seats[s].hold].expiresAt <= at + 1

Takeable(s, at) ==
    \/ seats[s].status = "available"
    \/ /\ seats[s].status = "held"
       /\ holds[seats[s].hold].expiresAt <= at

\* The locked part of hold, with the clock as it was read before the lock.
Hold(u) ==
    /\ calls[u] # None
    /\ LET at == calls[u].at
           wanted == calls[u].seats
           id == Len(holds) + 1
       IN  IF \E s \in wanted : ~Takeable(s, at)
           THEN UNCHANGED saleVars
           ELSE /\ Len(holds) < MaxHolds
                /\ seats' = [s \in Seat |->
                       IF s \in wanted
                       THEN [status |-> "held", version |-> seats[s].version + 1, hold |-> id]
                       ELSE seats[s]]
                /\ holds' = Append(holds,
                       [user |-> u, seats |-> wanted, expiresAt |-> at + HoldTTL,
                        versions |-> [s \in wanted |-> seats[s].version + 1],
                        status |-> "active"])
    /\ calls' = [calls EXCEPT ![u] = None]
    /\ UNCHANGED <<now, roomVars, deadline>>

------------------------------------------------------------------------------
(* Confirming, releasing, sweeping *)

\* _release_seats for the holds H: only seats a hold still holds are freed.
ReleaseSeats(H, status) ==
    /\ seats' = [s \in Seat |->
           IF seats[s].status = "held" /\ seats[s].hold \in H
           THEN [status |-> "available", version |-> seats[s].version + 1, hold |-> None]
           ELSE seats[s]]
    /\ holds' = [h \in DOMAIN holds |->
           IF h \in H THEN [holds[h] EXCEPT !.status = status] ELSE holds[h]]

\* Seeded fault: the rows are matched one by one, and those that match are booked.
UntouchedSome(h) ==
    \E s \in holds[h].seats : seats[s].hold = h /\ seats[s].version = holds[h].versions[s]

\* Every seat of h is still h's, as h left it.
Untouched(h) ==
    \A s \in holds[h].seats : seats[s].hold = h /\ seats[s].version = holds[h].versions[s]

TooLate(h) == holds[h].status = "expired" \/ now > holds[h].expiresAt + Grace

\* confirm, when it books.  A repeated confirm gets the same booking and one
\* after a release an error: neither changes anything.
Book(h) ==
    /\ holds[h].status = "active" /\ ~TooLate(h) /\ Untouched(h)
    /\ seats' = [s \in Seat |->
           IF s \in holds[h].seats
           THEN [seats[s] EXCEPT !.status = "booked", !.version = @ + 1] ELSE seats[s]]
    /\ holds' = [holds EXCEPT ![h].status = "confirmed"]
    /\ UNCHANGED <<now, roomVars, calls, deadline>>

\* confirm, when it gives up: past the grace, or a seat was taken over.
ConfirmFails(h) ==
    /\ holds[h].status \in {"active", "expired"}
    /\ TooLate(h) \/ ~Untouched(h)
    /\ ReleaseSeats({h}, "expired")
    /\ UNCHANGED <<now, roomVars, calls, deadline>>

Release(h) ==
    /\ holds[h].status = "active"
    /\ ReleaseSeats({h}, "released")
    /\ UNCHANGED <<now, roomVars, calls, deadline>>

SweepStart ==
    /\ deadline = None
    /\ deadline' = now - Grace
    /\ UNCHANGED <<now, roomVars, saleVars, calls>>

\* Seeded fault: the sweeper leaves a hold alone that has lost a seat.
OverdueWhole == {h \in DOMAIN holds :
    holds[h].status = "active" /\ holds[h].expiresAt <= deadline /\ Untouched(h)}

Overdue == {h \in DOMAIN holds : holds[h].status = "active" /\ holds[h].expiresAt <= deadline}

\* expire_holds
Sweep ==
    /\ deadline # None
    /\ ReleaseSeats(Overdue, "expired")
    /\ deadline' = None
    /\ UNCHANGED <<now, roomVars, calls>>

------------------------------------------------------------------------------
Tick ==
    /\ now < MaxTime
    /\ now' = now + 1
    /\ UNCHANGED <<roomVars, saleVars, calls, deadline>>

Next ==
    \/ \E u \in User : Join(u) \/ Hold(u)
    \/ \E u \in User, wanted \in Wanted : HoldStart(u, wanted)
    \/ AdmitStart \/ \E count \in 1..2 : Admit(count)
    \/ \E h \in DOMAIN holds : Book(h) \/ ConfirmFails(h) \/ Release(h)
    \/ SweepStart \/ Sweep
    \/ Tick

\* The sweeper runs again and again, and time passes.
Fairness == WF_vars(SweepStart) /\ WF_vars(Sweep) /\ WF_vars(Tick)

Spec == Init /\ [][Next]_vars /\ Fairness

------------------------------------------------------------------------------
(* Properties *)

\* A row names a hold that asked for the seat, and agrees with its status.
RowsMatchHolds ==
    \A s \in Seat : LET h == seats[s].hold IN
        /\ h = None <=> seats[s].status = "available"
        /\ seats[s].status = "held" =>
              s \in holds[h].seats /\ holds[h].status = "active"
              /\ seats[s].version = holds[h].versions[s]
        /\ seats[s].status = "booked" =>
              s \in holds[h].seats /\ holds[h].status = "confirmed"

\* join answers the caller's true position: the ticket less the tickets served.
PositionIsTrue ==
    /\ \A i \in 1..Len(queue) : ticketOf[queue[i]] # None /\ ticketOf[queue[i]] - served = i
    /\ Cardinality({u \in User : ticketOf[u] # None}) = Len(queue)

\* The type invariant, the agreement of rows and holds, and the tickets.
SeatInv == TypeOK /\ RowsMatchHolds /\ PositionIsTrue

\* Who pays in time gets the seats.  Until its TTL a hold owns every seat it
\* asked for, untouched, although other calls of hold judge by a clock they read
\* earlier; and inside the grace it has lost only what a later hold took.
PayingInTimeIsEnough ==
    \A h \in DOMAIN holds : holds[h].status = "active" =>
        /\ holds[h].expiresAt > now => Untouched(h)
        /\ \A s \in holds[h].seats :
              \/ seats[s].hold = h /\ seats[s].version = holds[h].versions[s]
              \/ \E g \in (h + 1)..Len(holds) : s \in holds[g].seats

\* Holds, takeovers and late payments implement a sale: no seat is booked twice,
\* a booking is whole, and none is taken back.
Sale == INSTANCE SeatSale WITH
    Id <- HoldId,
    bookings <- {[id |-> h, user |-> holds[h].user, seats |-> holds[h].seats] :
                 h \in {g \in DOMAIN holds : holds[g].status = "confirmed"}}
ImplementsSale == Sale!Spec

\* Whatever the buyer does or omits, a hold ends and its seats are sold or free.
Active(h) == h \in DOMAIN holds /\ holds[h].status = "active"
HoldsEnd ==
    \A h \in HoldId :
        Active(h) ~> /\ ~Active(h)
                     /\ \A s \in Seat : seats[s].hold = h => seats[s].status = "booked"
=============================================================================
