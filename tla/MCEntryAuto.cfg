SPECIFICATION Spec
CHECK_DEADLOCK FALSE
CONSTANTS
    FaultKinds = {}
    MaxFaults = 1
    Readers = {r1, r2}
    None = None
    Attempts = 2
    Stale = 3
    Grace = 2
INVARIANT AutoFindsTelemetry
