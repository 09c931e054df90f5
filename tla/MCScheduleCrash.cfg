SPECIFICATION Spec
CONSTANTS
    Plans = {"none", "day", "night"}
    Empty = "none"
    Writers = {w1}
    Poller = poller
    Offsets <- MCOffsets
    Unfit <- MCUnfit
    RewriteMinutes = 5
    FaultKinds = {"crash"}
    MaxReadings = 1
    MaxAsks = 0
    MaxFaults = 1
    None = None
INVARIANT KeepsRealTimes
