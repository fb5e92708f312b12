\* Two submissions with ids of their own, one collected and cancelled by its drop; panics, shutdown.
SPECIFICATION FairSpec
CONSTANTS
    r1 = r1  r2 = r2  r3 = r3  i1 = i1  i2 = i2  m1 = m1  m2 = m2  m3 = m3
    None = None
    Reqs = {r1, r2}
    Ids = {i1, i2}
    IdOf <- OwnIds
    Collectors = {r1}
    Models = {m1, m2, m3}
    BrokenModels = {m2}
    Configs <- TwoConfigs
    FirstConfig <- OneBackup
    Errors = {"idle"}
    MaxRetries = 1
    FailoverMaxRetries = 2
    RateLimitThreshold = 2
    DoomMaxRetries = 0
    MaxCancels = 0
    MaxPanics = 1
INVARIANTS
    OneVerdict
    CollectorAnswered
    RunningIsTracked
PROPERTIES
    ActorForgets
    ImplementsPromise
CHECK_DEADLOCK FALSE
