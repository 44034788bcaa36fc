SPECIFICATION FairSpec
CONSTANTS
    Conns = {c1, c2}
    Probers = {c2}
    PoolSize = 1
    HeaderTimeout = 2
    RequestTimeout = 1
    ProbeTimeout = 1
    ReadTimeout = 1
    RollbackTimeout = 1
    Grace = 3
    Faults = {"startup", "listener", "postgres", "redis"}
    MaxCalls = 2
    MaxExchanges = 1
INVARIANTS
    DrainSparesTransactions
    ProbesTellTheTruth
    ConnectionsComeBack
PROPERTIES
    WaitsOnlyForDependencies
    ExitFollowsSignal
