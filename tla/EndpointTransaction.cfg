SPECIFICATION FairSpec
CONSTANTS
    Sessions = {"ann", "bob"}
    Names = {"vpn.example"}
    Addresses = {"old", "new"}
    FirstAddress = "old"
    Faults <- MCFaults
    MaxWindows = 2
    MaxCrashes = 1
    MaxFaults = 1
    MaxMoves = 1
    MaxRenewals = 1
INVARIANTS
    TypeOK
    ChangeIsGuarded
PROPERTIES
    NoEarlyRollback
    NeverHalfRestored
    ConfirmedStays
    ImplementsGuardedWindow
    ExpiredWindowCloses
