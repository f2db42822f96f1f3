------------------------------- MODULE SeatSale -------------------------------
(***************************************************************************)
(* What a ticket sale promises, whatever happens between choosing a seat   *)
(* and paying for it: a booking is made whole, takes no seat of another,   *)
(* and stands.                                                             *)
(***************************************************************************)
CONSTANTS User, Seat, Id

VARIABLE bookings    \* the bookings made, [id, user, seats]

Init == bookings = {}

Sold == UNION {b.seats : b \in bookings}

Sell(id, user, seats) ==
    /\ seats # {}
    /\ seats \cap Sold = {}
    /\ \A b \in bookings : b.id # id
    /\ bookings' = bookings \cup {[id |-> id, user |-> user, seats |-> seats]}

Next == \E id \in Id, user \in User, seats \in SUBSET Seat : Sell(id, user, seats)

Spec == Init /\ [][Next]_bookings
=============================================================================
