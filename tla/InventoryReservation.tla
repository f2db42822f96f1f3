------------------------ MODULE InventoryReservation ------------------------
(***************************************************************************)
(* InventoryService of code/hld/inventory_reservation.py: holds with a TTL *)
(* over a stock table.  What a method does under the service's lock is one *)
(* action; a method with several outcomes has one action for each.  Only   *)
(* reserve reads the clock before it takes the lock, and sweeps and grants *)
(* by that reading: it is the parameter at of its actions, which the       *)
(* caller's model takes earlier.  The version counters, which only a       *)
(* caller of reserve that passes expected_versions reads, are left out.    *)
(***************************************************************************)
EXTENDS Integers, Sequences, FiniteSetsExt

CONSTANTS
    Skus,
    Orders,
    Lines,          \* Lines[o][k]: the units of k in the cart of order o
    InitialStock,
    HoldTtl,
    MaxTime,        \* bound: the clock
    MaxReceived     \* bound: units of each sku ever stocked

ASSUME InventoryAssumption ==
    /\ Lines \in [Orders -> [Skus -> Nat]]
    /\ InitialStock \in [Skus -> Nat]
    /\ HoldTtl \in Nat \ {0} /\ MaxTime \in Nat
    /\ MaxReceived \in [Skus -> Nat]

VARIABLES
    now,        \* the clock
    onHand,     \* StockItem.on_hand
    reserved,   \* StockItem.reserved
    holds,      \* _reservations, by number: rsv-1, rsv-2, ...
    byOrder,    \* _by_order, 0 without an entry
    received    \* history: units ever stocked

inventoryVars == <<now, onHand, reserved, holds, byOrder, received>>

HoldState == {"held", "committed", "released", "expired"}

Hold == [order: Orders, expiresAt: Nat, state: HoldState]

InventoryTypeOK ==
    /\ now \in Nat
    /\ onHand \in [Skus -> Int] /\ reserved \in [Skus -> Int]
    /\ holds \in Seq(Hold)
    /\ byOrder \in [Orders -> 0..Len(holds)]
    /\ received \in [Skus -> Nat]

InventoryInit ==
    /\ now = 0
    /\ onHand = InitialStock /\ received = InitialStock
    /\ reserved = [k \in Skus |-> 0]
    /\ holds = << >>
    /\ byOrder = [o \in Orders |-> 0]

-----------------------------------------------------------------------------
\* Seeded fault: a sale is not taken for the answer to a retry.
IsHeld(h) == h.state = "held"

IsLive(h) == h.state \in {"held", "committed"}

\* The units of k that the holds numbered ids stand for.
Units(ids, k) == SumFunction([i \in ids |-> Lines[holds[i].order][k]])

\* The holds _reclaim(at) expires.
Lapsed(at) == {i \in DOMAIN holds : holds[i].state = "held" /\ holds[i].expiresAt <= at}

\* _give_back for the holds numbered ids, of which Swept is _reclaim.
WithState(ids, state) ==
    [i \in DOMAIN holds |-> IF i \in ids THEN [holds[i] EXCEPT !.state = state] ELSE holds[i]]

WithoutUnits(ids) == [k \in Skus |-> reserved[k] - Units(ids, k)]

SweptHolds(at) == WithState(Lapsed(at), "expired")
SweptReserved(at) == WithoutUnits(Lapsed(at))

\* Seeded fault: the idempotency check comes before the sweep.
LiveHoldUnswept(o, at) == IF byOrder[o] # 0 /\ IsLive(holds[byOrder[o]]) THEN byOrder[o] ELSE 0

\* The hold a retried reserve of o returns, 0 if it has none.
LiveHold(o, at) ==
    IF byOrder[o] # 0 /\ IsLive(SweptHolds(at)[byOrder[o]]) THEN byOrder[o] ELSE 0

Enough(o, at) == \A k \in Skus : Lines[o][k] <= onHand[k] - SweptReserved(at)[k]

\* reserve of an order that has a live hold: the retried checkout.
ReserveAgain(o, at) ==
    /\ LiveHold(o, at) # 0
    /\ holds' = SweptHolds(at) /\ reserved' = SweptReserved(at)
    /\ UNCHANGED <<now, onHand, byOrder, received>>

\* reserve that takes every line of the order.
ReserveFresh(o, at) ==
    /\ LiveHold(o, at) = 0 /\ Enough(o, at)
    /\ holds' = Append(SweptHolds(at), [order |-> o, expiresAt |-> at + HoldTtl, state |-> "held"])
    /\ reserved' = [k \in Skus |-> SweptReserved(at)[k] + Lines[o][k]]
    /\ byOrder' = [byOrder EXCEPT ![o] = Len(holds) + 1]
    /\ UNCHANGED <<now, onHand, received>>

\* reserve that raises ConflictError, after the sweep.
ReserveShort(o, at) ==
    /\ LiveHold(o, at) = 0 /\ ~Enough(o, at)
    /\ holds' = SweptHolds(at) /\ reserved' = SweptReserved(at)
    /\ UNCHANGED <<now, onHand, byOrder, received>>

\* Both return normally; all other states of the hold make commit raise.
CanCommit(i) == IsLive(holds[i])

Commit(i) ==
    /\ CanCommit(i)
    /\ LET sold == {i} \ {j \in {i} : holds[j].state = "committed"}
       IN  /\ onHand' = [k \in Skus |-> onHand[k] - Units(sold, k)]
           /\ reserved' = WithoutUnits(sold)
           /\ holds' = WithState(sold, "committed")
    /\ UNCHANGED <<now, byOrder, received>>

CanRelease(i) == holds[i].state # "committed"

Release(i) ==
    /\ CanRelease(i)
    /\ LET returned == {j \in {i} : holds[j].state = "held"}
       IN  /\ reserved' = WithoutUnits(returned)
           /\ holds' = WithState(returned, "released")
    /\ UNCHANGED <<now, onHand, byOrder, received>>

\* The sweeper, which reads the clock under the lock.
Expire ==
    /\ Lapsed(now) # {}
    /\ holds' = SweptHolds(now) /\ reserved' = SweptReserved(now)
    /\ UNCHANGED <<now, onHand, byOrder, received>>

StockIn(k) ==
    /\ received[k] < MaxReceived[k]
    /\ onHand' = [onHand EXCEPT ![k] = @ + 1]
    /\ received' = [received EXCEPT ![k] = @ + 1]
    /\ UNCHANGED <<now, reserved, holds, byOrder>>

Tick ==
    /\ now < MaxTime
    /\ now' = now + 1
    /\ UNCHANGED <<onHand, reserved, holds, byOrder, received>>

\* The service under any callers, with a reading of any age.
InventoryNext ==
    \/ \E o \in Orders, at \in 0..now :
          ReserveAgain(o, at) \/ ReserveFresh(o, at) \/ ReserveShort(o, at)
    \/ \E i \in DOMAIN holds : Commit(i) \/ Release(i)
    \/ Expire
    \/ \E k \in Skus : StockIn(k)
    \/ Tick

InventorySpec == InventoryInit /\ [][InventoryNext]_inventoryVars
=============================================================================
