SPECIFICATION Spec
CONSTANTS
    HistoryLines = 2
    LineLength = 2
    MaxTop = 6
INVARIANTS
    TypeOK
    ShownInOrder
PROPERTIES
    PollCatchesUp
    Delivered
