SPECIFICATION FairSpec
CONSTANTS
    None = None
    Calls = {c1, c2}
    Bodies = {b1, b2}
    ReservationTTL = 3
    ResponseTTL = 3
    MaxWait = 0
    RequestTimeout = 2
    Faults = {"disconnect", "redis", "handler", "unknownCommit", "crash", "slow"}
    MaxArrival = 2
    MaxClock = 4
INVARIANTS
    TypeOK
    RepliesMatchRequests
PROPERTIES
    OnlyOwnReservation
    EveryCallReturns
