------------------------------ MODULE Checkout ------------------------------
(***************************************************************************)
(* build_checkout_saga of code/hld/inventory_reservation.py: sagas that    *)
(* reserve, charge, commit and ship an order, over the InventoryService    *)
(* and an Outbox.  Another saga, the sweeper, the clock and the death of   *)
(* the orchestrator may come between an action's call to a service, the    *)
(* rest of the action, and its entry in the saga log, and between reading  *)
(* the clock and taking the lock in reserve.                               *)
(***************************************************************************)
EXTENDS InventoryReservation, Saga

CONSTANT NoOrder

VARIABLES
    orderOf,        \* ctx["order_id"]; a retried checkout is a second saga of its order
    reading,        \* the local now of reserve, NoReading outside a call to it
    reservationId,  \* ctx["reservation_id"], 0 before there is one
    charged,        \* the orders the payment service has charged
    outbox          \* Outbox._pending, as topics and orders; relay is left out

checkoutVars == <<orderOf, reading, reservationId, charged, outbox>>
vars == <<inventoryVars, sagaVars, checkoutVars>>

NoReading == -1

reserve_inventory == 1
charge_payment == 2
commit_inventory == 3
create_shipment == 4

Kinds == <<"compensatable", "pivot", "retriable", "retriable">>
WithCompensation == {reserve_inventory, charge_payment}

ASSUME CheckoutAssumption ==
    Kind = Kinds /\ Undoable = WithCompensation /\ NoOrder \notin Orders

\* The topic each step's action appends when it returns.
Topic == <<"inventory-reserved", "payment-captured", "inventory-committed", "shipment-created">>

Event(s, topic) == [topic |-> topic, order |-> orderOf[s]]

TypeOK ==
    /\ InventoryTypeOK /\ SagaTypeOK
    /\ orderOf \in [Sagas -> Orders \cup {NoOrder}]
    /\ reading \in [Sagas -> NoReading..now]
    /\ reservationId \in [Sagas -> 0..Len(holds)]
    /\ charged \subseteq Orders
    /\ \A e \in outbox :
          e.order \in Orders /\ e.topic \in {Topic[i] : i \in Step} \cup {"order-cancelled"}

Init ==
    /\ InventoryInit /\ SagaInit
    /\ orderOf = [s \in Sagas |-> NoOrder]
    /\ reading = [s \in Sagas |-> NoReading]
    /\ reservationId = [s \in Sagas |-> 0]
    /\ charged = {} /\ outbox = {}

-----------------------------------------------------------------------------
\* SagaOrchestrator.start with the context of a checkout of order o.
StartCheckout(s, o) ==
    /\ Start(s)
    /\ orderOf' = [orderOf EXCEPT ![s] = o]
    /\ UNCHANGED <<inventoryVars, reading, reservationId, charged, outbox>>

\* reserve reads the clock, and then waits for the lock.
ReserveStart(s) ==
    /\ Runs(s, reserve_inventory) /\ pc[s] = "try" /\ reading[s] = NoReading
    /\ reading' = [reading EXCEPT ![s] = now]
    /\ UNCHANGED <<inventoryVars, sagaVars, orderOf, reservationId, charged, outbox>>

\* The call of reserve is over.
EndsReserve(s) == reading' = [reading EXCEPT ![s] = NoReading]

\* The saga's context is read only after the step that wrote it is done, so
\* the reservation's id is recorded with the call that returns it.
ReserveInventory(s) ==
    /\ Runs(s, reserve_inventory) /\ Acts(s, reserve_inventory) /\ reading[s] # NoReading
    /\ ReserveAgain(orderOf[s], reading[s]) \/ ReserveFresh(orderOf[s], reading[s])
    /\ EndsReserve(s)
    /\ reservationId' = [reservationId EXCEPT ![s] = byOrder'[orderOf[s]]]
    /\ UNCHANGED <<orderOf, charged, outbox>>

\* ConflictError becomes StepFailed.
ReserveFails(s) ==
    /\ Runs(s, reserve_inventory) /\ Fails(s, reserve_inventory) /\ reading[s] # NoReading
    /\ ReserveShort(orderOf[s], reading[s])
    /\ EndsReserve(s)
    /\ UNCHANGED <<orderOf, reservationId, charged, outbox>>

ReleaseInventory(s) ==
    /\ Undoes(s, reserve_inventory) /\ Acts(s, reserve_inventory)
    /\ Release(reservationId[s])
    /\ UNCHANGED checkoutVars

\* InvalidStateError: the hold that the saga is to give back is a sale.
HoldIsSold(s) == Undoes(s, reserve_inventory) /\ ~CanRelease(reservationId[s])

ReleaseRaises(s) ==
    /\ HoldIsSold(s) /\ Raises(s, reserve_inventory)
    /\ UNCHANGED <<inventoryVars, checkoutVars>>

\* charge is the caller's; it is idempotent per order, as the saga wants of
\* every step.  Its compensation, refund_payment, never runs: PivotIsFinal.
ChargePayment(s) ==
    /\ Runs(s, charge_payment) /\ Acts(s, charge_payment)
    /\ charged' = charged \cup {orderOf[s]}
    /\ UNCHANGED <<inventoryVars, orderOf, reading, reservationId, outbox>>

ChargeDeclined(s) ==
    /\ Runs(s, charge_payment) /\ orderOf[s] \notin charged
    /\ Fails(s, charge_payment)
    /\ UNCHANGED <<inventoryVars, checkoutVars>>

\* A timeout does not tell whether the charge was made.
ChargeTimesOut(s) ==
    /\ Runs(s, charge_payment) /\ TimesOut(s, charge_payment)
    /\ charged' \in {charged, charged \cup {orderOf[s]}}
    /\ UNCHANGED <<inventoryVars, orderOf, reading, reservationId, outbox>>

CommitInventory(s) ==
    /\ Acts(s, commit_inventory)
    /\ Commit(reservationId[s])
    /\ UNCHANGED checkoutVars

\* InvalidStateError: the hold lapsed, or another saga of the order gave it back.
HoldIsLost(s) == Runs(s, commit_inventory) /\ ~CanCommit(reservationId[s])

CommitRaises(s) ==
    /\ HoldIsLost(s) /\ Raises(s, commit_inventory)
    /\ UNCHANGED <<inventoryVars, checkoutVars>>

\* create_shipment calls no service.
CreateShipment(s) ==
    /\ Acts(s, create_shipment)
    /\ UNCHANGED <<inventoryVars, checkoutVars>>

Appended(s, i) == Event(s, IF Undoes(s, i) THEN "order-cancelled" ELSE Topic[i])

\* The rest of an action: it appends its event and returns.
ActionReturns(s, i) ==
    /\ Returns(s, i)
    /\ outbox' = outbox \cup {Appended(s, i)}
    /\ UNCHANGED <<inventoryVars, orderOf, reading, reservationId, charged>>

\* The orchestrator dies, and with it a call it has under way.
Dies(s) ==
    /\ Crash(s)
    /\ EndsReserve(s)
    /\ UNCHANGED <<inventoryVars, orderOf, reservationId, charged, outbox>>

\* The steps of the thread that drives s, and of whoever resumes it.
Calls(s) ==
    \/ ReserveStart(s) \/ ReserveInventory(s) \/ ReserveFails(s)
    \/ ReleaseInventory(s) \/ ReleaseRaises(s)
    \/ ChargePayment(s) \/ ChargeDeclined(s) \/ ChargeTimesOut(s)
    \/ CommitInventory(s) \/ CommitRaises(s) \/ CreateShipment(s)

Drive(s) ==
    \/ Calls(s)
    \/ \E i \in Step : ActionReturns(s, i)
    \/ (Resume(s) \/ (\E i \in Step : Logs(s, i)) \/ Finish(s)) /\ UNCHANGED <<inventoryVars, checkoutVars>>

Inventory == Expire \/ (\E k \in Skus : StockIn(k)) \/ Tick

Next ==
    \/ \E s \in Sagas :
          \/ Drive(s)
          \/ \E o \in Orders : StartCheckout(s, o)
          \/ Dies(s)
    \/ Inventory /\ UNCHANGED <<sagaVars, checkoutVars>>

Spec == Init /\ [][Next]_vars

\* A thread that drives a saga goes on, and a saga whose thread died is
\* resumed in the end.
FairSpec == Spec /\ \A s \in Sagas : WF_vars(Drive(s))

-----------------------------------------------------------------------------
InState(order, states) == {i \in DOMAIN holds : holds[i].state \in states /\ holds[i].order \in order}

\* Every unit is on the shelf, in a hold or sold, through sweeps, refused
\* reserves, repeated commits and repeated releases: reserved is what the
\* holds in force add up to, and what left the warehouse is what was committed.
StockAddsUp ==
    \A k \in Skus :
        /\ reserved[k] = Units(InState(Orders, {"held"}), k)
        /\ onHand[k] = received[k] - Units(InState(Orders, {"committed"}), k)

\* No sku is ever promised or sold beyond what was stocked.
NeverOversold == \A k \in Skus : 0 <= reserved[k] /\ reserved[k] <= onHand[k]

\* However often a checkout is retried, an order has one hold or sale in
\* force, and it is the one its next retry is given.
OneLiveHoldPerOrder ==
    \A o \in Orders : \A i \in InState({o}, {"held", "committed"}) : byOrder[o] = i

\* The books of the inventory balance between any two calls.
StockInv == TypeOK /\ StockAddsUp /\ NeverOversold /\ OneLiveHoldPerOrder

\* reserve hands out a sale, or a hold whose time was not up when reserve read
\* the clock: the sweep comes before the idempotency check.  (That reading may
\* be old once the lock is taken: the hold's time may be up by then.)
HandsOutLive(s) ==
    LET h == holds'[reservationId'[s]]
    IN  h.state = "committed" \/ (h.state = "held" /\ h.expiresAt > reading[s])

\* No sweep, by a new or an old reading of the clock, ends a hold before its time.
SweepsNoneEarly ==
    \A i \in DOMAIN holds :
        holds'[i].state = "expired" /\ holds[i].state # "expired" => holds[i].expiresAt <= now

HandedOutIsLive ==
    [][(\A s \in Sagas : ReserveInventory(s) => HandsOutLive(s)) /\ SweepsNoneEarly]_vars

\* A saga that ended compensated holds no stock, whatever was interrupted
\* and run again on the way.
CompensatedHoldsNothing ==
    \A s \in Sagas : state[s] = "compensated" /\ reservationId[s] # 0
        => holds[reservationId[s]].state # "held"

\* Once the charge is in the log the saga is never reversed, in this run or
\* a later one; so the pivot's compensation, refund_payment, never runs.
PivotIsFinal ==
    \A s \in Sagas : charge_payment \in done[s] => state[s] \notin {"compensating", "compensated"}

\* Only paid orders leave the warehouse, and what a saga's log calls done has
\* been done and announced: at the end, the sale, the charge and all events.
DoneIsDone ==
    /\ \A i \in InState(Orders, {"committed"}) : holds[i].order \in charged
    /\ \A s \in Sagas :
          /\ commit_inventory \in done[s] => holds[reservationId[s]].state = "committed"
          /\ \A i \in done[s] : Event(s, Topic[i]) \in outbox

\* What a saga's log says of its order is so.
SagaInv == CompensatedHoldsNothing /\ PivotIsFinal /\ DoneIsDone

\* Every saga ends, through deaths of the orchestrator, declines and timeouts,
\* unless its hold was lost before the commit or sold before the release.
EverySagaEnds ==
    \A s \in Sagas : state[s] = "running" ~> Ended(s) \/ HoldIsLost(s) \/ HoldIsSold(s)
=============================================================================
