\* One plain call beside the replay of a session; three faults; a queue of one frame.
SPECIFICATION FairSpec
CONSTANTS
    c1 = c1  s1 = s1
    Calls = {c1}
    Sessions = {s1}
    Nothing = Nothing
    OutboundBuffer = 1
    ServeMaxAttempts = 2
    MaxFaults = 3
INVARIANTS
    TypeOK
    OneStranded
    SettledAreServed
PROPERTIES
    CallEnds
    ReadyAgain
CHECK_DEADLOCK FALSE
