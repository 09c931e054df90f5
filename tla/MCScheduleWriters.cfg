SPECIFICATION SmallSpec
CHECK_DEADLOCK FALSE
CONSTANTS
    Days = 2
    DayLen = 4
    MaxWindows = 2
    Entries = {e1, e2, e3}
    Controlled = {e1, e2}
    Vendor <- SmallVendor
    Asks <- SmallAsks
    Edits <- SmallEdits
    Offsets = {0, 2}
    MaxEvents = 3
    None = None
SYMMETRY Alike
INVARIANTS TypeOK RunsAsAsked ServiceWhenControlled
PROPERTIES NoEntryPassedOver ModeAloneKeepsSchedule
