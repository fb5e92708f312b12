SPECIFICATION Spec
CONSTANTS
    ma = ma  mb = mb  ta = ta  tb = tb
    NoOne = NoOne
    Managers = {ma, mb}
    Tasks = {ma, mb}
    ManagerOf <- OneEach
    MaxMint = 2
    MaxFaults = 0
INVARIANTS
    OneSpender
CHECK_DEADLOCK FALSE
