CONSTANTS
    o1 = o1
    o2 = o2
    a = a
    b = b
    Sagas = {s1, s2}
    Orders = {o1, o2}
    Skus = {a, b}
    NoOrder = NoOrder
    Lines <- MCLines
    InitialStock <- MCStock
    Kind <- Kinds
    Undoable <- WithCompensation
    HoldTtl = 1
    MaxTime = 1
    MaxReceived <- MCMaxReceived
    MaxAttempts = 2
    MaxCrashes = 1
SPECIFICATION FairSpec
INVARIANTS StockInv SagaInv
PROPERTIES HandedOutIsLive EverySagaEnds
CHECK_DEADLOCK FALSE
