SPECIFICATION Spec
CONSTANTS
    Service <- TwoServices
    RotateSize = 1
    MaxBytes = 1
    TotalBytes = 3
    Volume = 6
    MayBeKilled = TRUE
    MaxLine = 5
INVARIANTS
    TypeOK
    OnlyLateLinesLost
    CompressedOnce
    ArchivesFit
PROPERTIES
    OversizedRotated

