SPECIFICATION FairSpec
CONSTANTS
    Plans = {"none", "day", "night"}
    Empty = "none"
    Writers = {w1}
    Poller = poller
    Offsets <- MCOffsets
    Unfit <- MCUnfit
    RewriteMinutes = 5
    FaultKinds = {"lost", "refused", "crash", "settings"}
    MaxReadings = 3
    MaxAsks = 1
    MaxFaults = 1
    None = None
INVARIANTS TypeOK AppliedIsWrittenWith FileBelongsToBattery
PROPERTIES ActsOnSecondSight KeepsSchedule SettlesOnClock ShowsPromise
