SPECIFICATION FairSpec
CONSTANTS
    r1 = r1
    r2 = r2
    r3 = r3
    Callers = {r1, r2}
    Introspectors = {}
    Nobody = Nobody
    MaxRevoked = 0
    MaxRestarts = 1
    Settings <- MCSettings
INVARIANTS
    SiblingSuccessIsShared
CHECK_DEADLOCK FALSE
