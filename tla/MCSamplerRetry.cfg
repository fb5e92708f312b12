\* One request against an endpoint that can fail in every way.
SPECIFICATION FairSpec
CONSTANTS
    r1 = r1  r2 = r2  r3 = r3  i1 = i1  i2 = i2  m1 = m1  m2 = m2  m3 = m3
    None = None
    Reqs = {r1}
    Ids = {i1}
    IdOf <- OneId
    Collectors = {}
    Models = {m1, m2, m3}
    BrokenModels = {}
    Configs <- ChainConfigs
    FirstConfig <- Chain
    Errors <- ErrorKinds
    MaxRetries = 3
    FailoverMaxRetries = 2
    RateLimitThreshold = 2
    DoomMaxRetries = 2
    MaxCancels = 1
    MaxPanics = 0
INVARIANTS
    TypeOK
    ModelsTriedOnce
    CallBudget
    OneCallAfterCancel
PROPERTIES
    DeterministicEndsRequest
    EveryRequestEnds
CHECK_DEADLOCK FALSE
