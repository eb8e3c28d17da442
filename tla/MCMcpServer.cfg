SPECIFICATION Spec
CONSTANTS
    r1 = r1
    r2 = r2
    Ids <- MCIds
    None = None
    Capacity = 2
    MaxPending = 1
    MaxProgress = 1
    MaxNoise = 2
CHECK_DEADLOCK FALSE
INVARIANTS
    AnswersInOrder
    CancelIsHonoured
PROPERTIES
    EverybodyIsServed
