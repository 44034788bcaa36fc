SPECIFICATION Spec
CONSTANTS
    None = None
    Calls = {c1, c2}
    Bodies = {b1}
    ReservationTTL = 3
    ResponseTTL = 4
    MaxWait = 1
    RequestTimeout = 2
    Faults = {"disconnect"}
    MaxArrival = 3
    MaxClock = 4
INVARIANT
    NoSecondSession
