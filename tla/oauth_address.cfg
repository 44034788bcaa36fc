SPECIFICATION Spec
CONSTANTS
    None = None
    Registrations = {g1}
    Verifications = {}
    Resends = {}
    Callbacks = {k1}
    States = {x1}
    Mailboxes = {m1}
    Subjects = {p1}
    TokenTTL = 1
    Failures = FALSE
    MaxClock = 0
PROPERTY
    KnownMailboxIsFound
