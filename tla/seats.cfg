CONSTANTS
    User = {u1, u2}
    Seat = {s1, s2}
    HoldTTL = 1
    Grace = 1
    TokenTTL = 3
    None = None
    MaxTime = 3
    MaxHolds = 2
    MaxTickets = 2
SPECIFICATION Spec
INVARIANTS SeatInv PayingInTimeIsEnough
PROPERTIES ImplementsSale HoldsEnd
CHECK_DEADLOCK FALSE
