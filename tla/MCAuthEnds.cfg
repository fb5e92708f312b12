SPECIFICATION FairSpec
CONSTANTS
    ma = ma  mb = mb  ta = ta  tb = tb
    NoOne = NoOne
    Managers = {ma}
    Tasks = {ta, tb}
    ManagerOf <- BothInOne
    MaxMint = 2
    MaxFaults = 0
PROPERTIES
    RequestEnds
CONSTRAINT NotExcused
CHECK_DEADLOCK FALSE
