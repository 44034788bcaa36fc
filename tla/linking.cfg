SPECIFICATION Spec
CONSTANTS
    None = None
    Registrations = {g1}
    Verifications = {v1}
    Resends = {}
    Callbacks = {k1, k2}
    States = {x1, x2}
    Mailboxes = {m1}
    Subjects = {p1, p2}
    TokenTTL = 1
    Failures = TRUE
    MaxClock = 0
SYMMETRY RequestSymmetry
INVARIANTS
    OneOwner
    BornComplete
    LinkedOnlyIfVouched
    OneExchangePerState
PROPERTY
    ImplementsDirectory
