SPECIFICATION ClockSpec
CONSTANTS
    Earliest = 1
    Latest = 3
    MaxTime = 4
    TTL = 2
    Browsers = {"b"}
    NoFile = NoFile
    Truncated = Truncated
    NoCookie = NoCookie
    MaxSets = 2
    MaxEnds = 2
INVARIANTS
    ClockTypeOK
    SavedIsPast
    LoginLasts
