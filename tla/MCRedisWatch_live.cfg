SPECIFICATION Spec
CONSTANTS
    Values <- TwoValues
    Configured <- AllOrNothing
    MayFail = TRUE
    MaxChanges = 4
INVARIANTS
    TypeOK
    LiveShowsKey
PROPERTIES
    LiveCatchesUp
CHECK_DEADLOCK FALSE
