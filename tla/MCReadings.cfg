SPECIFICATION Spec
CHECK_DEADLOCK FALSE
CONSTANTS
    None = None
    Unknown = Unknown
    Window = 1
    MinSamples = 2
    MaxOffset = 1
    Day = 3
    MaxAge = 1
    Skews <- SmallSkews
    MaxNow = 4
    MaxEnergy = 2
    MaxUpsets = 1
INVARIANTS
    TypeOK
    RestsOnReadings
    OffsetIsTrue
    TotalIsTrue
