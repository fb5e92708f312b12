\* The startup of leader processes, of two versions. All of them may be dead in the end.
SPECIFICATION FairSpec
CONSTANTS
    a = a  b = b  l1 = l1  l2 = l2
    Clients = {a}
    Leaders = {l1, l2}
    NoOne = NoOne
    Versions = {2, 3}
    ClientVersion <- Newest
    FirstRelaunch = 2
    MaxFaults = 1
    MaxStarts = 1
PROPERTIES
    StartupEnds
CHECK_DEADLOCK FALSE
