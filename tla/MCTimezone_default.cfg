SPECIFICATION Spec
CONSTANTS
    Zones = {"Europe/Warsaw", "Europe/Isle_of_Man"}
    Default = "Europe/Warsaw"
    Length <- Lengths
    Handlers = {"ui1"}
    Commands = {}
    Missing = "missing"
    Empty = "empty"
    Torn = "torn"
    None = "none"
    MaxLosses = 0
INVARIANTS
    TakesEffect
