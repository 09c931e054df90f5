SPECIFICATION FairSpec
CONSTANTS
    Addresses = {a1, a2}
    FirstHome = a1
    Vendor = vendor
    Dialogs = {d1}
    Logins <- MCLogins
    Mine <- MCMine
    FaultKinds = {"addon", "ssh", "script", "silent", "power", "home", "expired", "closed", "crash", "other"}
    MaxMoves = 2
    MaxFaults = 3
    None = None
INVARIANTS TypeOK FilesMatchEntry OutcomeIsTrue KeepsLogins
PROPERTIES EndsConnected EveryMoveEnds
