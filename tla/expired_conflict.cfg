SPECIFICATION Spec
CONSTANTS
    None = None
    Logins = {l1, l2}
    Refreshes = {}
    Logouts = {}
    Slots = {d1}
    SessionTTL = 2
    RefreshTTL = 1
    DeviceGracePeriod = 1
    Failures = FALSE
    MaxClock = 3
PROPERTY
    DeviceConflictMeansActiveSession
