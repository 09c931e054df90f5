SPECIFICATION FairSpec
CONSTANTS
    Settings = {"reserve_off", "excess"}
    Values = {0, 100}
    DefaultExcess = 100
    Callers = {c1, c2}
    FaultKinds = {"lost", "refused", "short"}
    MaxCalls = 2
    MaxFaults = 1
    None = None
INVARIANTS TypeOK ShownIsStored
PROPERTIES BasedBlockKeepsExcess ReadsBack
