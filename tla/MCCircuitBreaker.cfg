\* Two callers, each cool-down, lease and sample good for one tick, a window of two.
SPECIFICATION FairSpec
CONSTANTS
    Threads = {t1, t2}
    MinSamples = 2
    RateNum = 1
    RateDen = 2
    WindowDuration = 1
    OpenDuration = 1
    HalfOpenMaxProbes = 1
    MaxWindowEntries = 2
    CounterModulus = 8
    MaxTime = 2
INVARIANTS
    TypeOK
    WindowCountExact
    ProbeCounterBand
PROPERTIES
    NotStranded
    
