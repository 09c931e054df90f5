SPECIFICATION Spec
CONSTANTS
    Settings = {"reserve_off", "excess"}
    Values = {0, 100}
    DefaultExcess = 100
    Callers = {c1}
    FaultKinds = {}
    MaxCalls = 2
    MaxFaults = 0
    None = None
PROPERTY BlockKeepsExcess
