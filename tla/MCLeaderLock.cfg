\* One client, two leader processes, one leader started by hand, one other fault. All of them may be dead in the end.
SPECIFICATION FairSpec
CONSTANTS
    a = a  b = b  l1 = l1  l2 = l2
    Clients = {a}
    Leaders = {l1, l2}
    NoOne = NoOne
    Versions <- ThreeVersions
    ClientVersion <- Newest
    FirstRelaunch = 2
    MaxFaults = 1
    MaxStarts = 1
INVARIANTS
    TypeOK
    LeaderHoldsLock
    SplitOnlyAfterCleanup
PROPERTIES
    ClientLetsGo
CHECK_DEADLOCK FALSE
