\* One session of two prompts with two events outside the turn loop.
SPECIFICATION Spec
CONSTANTS
    c1 = c1  c2 = c2
    CallIds = {c1, c2}
    None = None
    OldHistories <- AllHistories
    HardClearAge = 0
    TracedPrompts = {1, 2}
    MaxPrompts = 2
    MaxEvents = 2
    MaxRounds = 1
    CallSets <- NoneOrBoth
    QueueBound = 0
INVARIANTS
    TypeOK
    CaptureExact
    NoOrphans
    DiskFollowsMemory
PROPERTIES
    RequestPaired
    ImplementsTurnLog
    RepairHeals
    ClearedOnlyWhenOld
CHECK_DEADLOCK FALSE
