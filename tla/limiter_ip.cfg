SPECIFICATION Spec
CONSTANTS
    None = None
    Attempts = {a1, a2, a3}
    Emails = {alice, carol, dave}
    Unregistered = {carol}
    OAuthOnly = {dave}
    IPLimit = 2
    IPWindow = 2
    Limit = 3
    Window = 2
    Faults = {}
    MaxClock = 1
SYMMETRY AttemptSymmetry
PROPERTY
    IPLimitHolds
