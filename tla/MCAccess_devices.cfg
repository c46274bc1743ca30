CONSTANTS
    Accounts = {owner}
    Nobody = Nobody
    Requests = {r1, r2}
    MaxTokens = 3
    Operations <- AllOperations
SPECIFICATION AccessSpec
SYMMETRY Alike
CHECK_DEADLOCK FALSE
INVARIANTS
    AccessTypeOK
    OneDevice
    WaitlistToldOnce
PROPERTIES
    LockedNeverMints
