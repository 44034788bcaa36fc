SPECIFICATION PathSpec
CONSTANTS
    None = None
    Attempts = {r1, r2}
    Emails = {alice}
    Unregistered = {}
    OAuthOnly = {}
    IPLimit = 3
    IPWindow = 1
    Limit = 1
    Window = 2
    ReservationTTL = 3
    ResponseTTL = 1
    MaxWait = 0
    RequestTimeout = 2
    Faults = {"redis", "database"}
    MaxArrival = 3
    MaxOthers = 0
    MaxClock = 3
SYMMETRY AttemptSymmetry
INVARIANTS
    TypeOK
    OldFailuresForgotten
    NoSessionWithoutPassword
PROPERTIES
    LimitHolds
    StoredAnswerIsFinal
