SPECIFICATION Spec
CONSTANTS
    Plans = {"none", "day", "night"}
    Empty = "none"
    Writers = {w1}
    Poller = poller
    Offsets <- MCOffsets
    Unfit <- MCUnfit
    RewriteMinutes = 5
    FaultKinds = {}
    MaxReadings = 2
    MaxAsks = 1
    MaxFaults = 0
    None = None
INVARIANT OwnersPlanStays
