SPECIFICATION Spec
CONSTANTS
    None = None
    Logins = {l1}
    Refreshes = {r1, r2, r3}
    Logouts = {o1}
    Slots = {d1}
    SessionTTL = 2
    RefreshTTL = 1
    DeviceGracePeriod = 0
    Failures = TRUE
    MaxClock = 0
SYMMETRY RequestSymmetry
INVARIANTS
    TypeOK
    ConsumedExactlyOnce
    OneUnspentTokenPerFamily
    LogoutIsFinal
    ReplayRevokesReplacement
PROPERTIES
    RevocationIsPermanent
    ImplementsLedger
