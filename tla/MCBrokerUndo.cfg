SPECIFICATION Spec
CONSTANTS
    Addresses = {a1}
    FirstHome = a1
    Vendor = vendor
    Dialogs = {d1}
    Logins <- MCLogins
    Mine <- MCMine
    FaultKinds = {"ssh"}
    MaxMoves = 1
    MaxFaults = 1
    None = None
INVARIANT FailedMoveIsUndone
