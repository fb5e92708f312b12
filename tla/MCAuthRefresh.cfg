SPECIFICATION Spec
CONSTANTS
    ma = ma  mb = mb  ta = ta  tb = tb
    NoOne = NoOne
    Managers = {ma, mb}
    Tasks = {ma, mb}
    ManagerOf <- OneEach
    MaxMint = 2
    MaxFaults = 1
INVARIANTS
    TypeOK
    TokenSpentOnce
    NewestIsKept
    StickyVerdictIsTrue
PROPERTIES
    CredentialsAdvance
SYMMETRY Symmetric
CONSTRAINT NoFaultAndExcuse
CHECK_DEADLOCK FALSE
