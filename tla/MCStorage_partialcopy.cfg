SPECIFICATION Spec
CONSTANTS
    Items = {a, b}
    Sd = sd
    Nvme = nvme
    None = none
    Marker = marker
    Layout = layout
    Stray = stray
    SdKinds = {"image"}
    NvmeKinds = {"bare", "raw"}
    ResetFrom = {sd}
    PowerLossAt <- InCopy
    Faults = {}
PROPERTIES
    SwitchesOnlyToCopy
