SPECIFICATION Spec
CONSTANTS
    Items = {a, b}
    Sd = sd
    Nvme = nvme
    None = none
    Marker = marker
    Layout = layout
    Stray = stray
    SdKinds = {"image", "raw"}
    NvmeKinds = {"bare", "raw", "emptyExt4", "usedExt4", "emptyOther", "usedOther", "opaque"}
    ResetFrom = {sd, nvme}
    PowerLossAt <- Anywhere
    Faults = {"mount", "umount", "blkid", "mkfs", "partition", "cp", "tmpfs", "rm"}
INVARIANTS
    NothingDestroyed
    RunningMeansMounted
PROPERTIES
    MarkedAfterCopy
    FormatsOnlyEmpty
