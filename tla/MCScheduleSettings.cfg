SPECIFICATION Spec
CONSTANTS
    Plans = {"none", "day", "night"}
    Empty = "none"
    Writers = {w1}
    Poller = poller
    Offsets <- MCOffsets
    Unfit <- MCUnfit
    RewriteMinutes = 5
    FaultKinds = {"settings"}
    MaxReadings = 3
    MaxAsks = 1
    MaxFaults = 2
    None = None
INVARIANT ReadsBackAsRun
