SPECIFICATION FairSpec
CHECK_DEADLOCK FALSE
CONSTANTS
    FaultKinds = {"slow", "broker", "ssh", "junk", "nolog", "platform", "reload", "link", "restart"}
    MaxFaults = 2
    Readers = {r1, r2}
    None = None
    Attempts = 2
    Stale = 3
    Grace = 2
INVARIANTS TypeOK NoSecondReader StaleIsShown HeldIsRecent
PROPERTIES StoppedEnds KeepsComingBack
