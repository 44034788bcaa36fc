SPECIFICATION FairSpec
CONSTANTS
    None = None
    Registrations = {g1}
    Verifications = {v1, v2}
    Resends = {s1}
    Callbacks = {}
    States = {}
    Mailboxes = {m1}
    Subjects = {p1}
    TokenTTL = 1
    Failures = TRUE
    MaxClock = 1
INVARIANTS
    TypeOK
    VerifiedForAReason
    MailedTokensWork
PROPERTIES
    ImplementsDirectory
    EveryRequestIsAnswered
