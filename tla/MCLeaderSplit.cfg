\* Two clients of one version, no fault at all.
SPECIFICATION Spec
CONSTANTS
    a = a  b = b  l1 = l1  l2 = l2
    Clients = {a, b}
    Leaders = {l1, l2}
    NoOne = NoOne
    Versions = {3}
    ClientVersion <- Newest
    FirstRelaunch = 2
    MaxFaults = 0
    MaxStarts = 0
INVARIANT
    OneLeaderServes
CHECK_DEADLOCK FALSE
