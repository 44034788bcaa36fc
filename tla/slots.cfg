SPECIFICATION FairSpec
CONSTANTS
    None = None
    Logins = {l1, l2}
    Refreshes = {r1}
    Logouts = {o1}
    Slots = {d1}
    SessionTTL = 2
    RefreshTTL = 1
    DeviceGracePeriod = 0
    Failures = TRUE
    MaxClock = 2
INVARIANTS
    NoConstraintViolation
    SlotEmptiedOnlyByLogout
PROPERTIES
    EveryRequestIsAnswered
    ImplementsLedger
