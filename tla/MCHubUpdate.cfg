SPECIFICATION Spec
CONSTANTS
    Targets = {ui, icmp}
    UI = ui
    Capable = {icmp}
    Releases = {1, 2}
    HasAsset <- Assets
    Size <- Sizes
    MaxAsset = 2
    Requests = {r1, r2}
    None = none
    MaxKills = 1
SYMMETRY Symmetric
INVARIANTS
    TypeOK
    ReportedIsInstalled
    RunsCapable
    TempsOwned
PROPERTIES
    ImplementsBinaries
