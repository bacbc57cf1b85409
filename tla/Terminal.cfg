SPECIFICATION Spec
CONSTANTS
    Sizes = {1, 2}
    SpawnSize = 1
    TtyRoom = 2
    MaxSent = 4
    MaxOutput = 3
CHECK_DEADLOCK FALSE
INVARIANTS
    TypeOK
    NotCutShort
    SizeFollows
PROPERTIES
    ExitEndsSession
    LeavingEndsSession
