SPECIFICATION Spec
CONSTANTS
    Items = {a, b}
    Sd = sd
    Nvme = nvme
    None = none
    Marker = marker
    Layout = layout
    Stray = stray
    SdKinds = {"image", "raw"}
    NvmeKinds = {"bare", "raw", "emptyExt4", "emptyOther", "usedOther"}
    ResetFrom = {sd}
    PowerLossAt <- OutsideCopy
    Faults = {"tmpfs"}
INVARIANTS
    TypeOK
    OwnedVisible
    NoResurrection
PROPERTIES
    SdAtRest
    MigrationFinishes
    ImplementsStore
