SPECIFICATION Spec
CONSTANTS
    None = None
    Logins = {l1}
    Refreshes = {r1, r2, r3}
    Logouts = {}
    Slots = {d1}
    SessionTTL = 2
    RefreshTTL = 1
    DeviceGracePeriod = 0
    Failures = FALSE
    MaxClock = 0
INVARIANT
    ReplayKillsFamily
