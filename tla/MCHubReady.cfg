\* The window between the check of the replay and the marker it sets.
SPECIFICATION Spec
CONSTANTS
    c1 = c1  s1 = s1
    Calls = {}
    Sessions = {s1}
    Nothing = Nothing
    OutboundBuffer = 1
    ServeMaxAttempts = 1
    MaxFaults = 2
INVARIANTS
    NoStaleReady
CHECK_DEADLOCK FALSE
