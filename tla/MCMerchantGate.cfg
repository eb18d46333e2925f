SPECIFICATION GateSpec
CONSTANTS
    t1 = t1
    t2 = t2
    k1 = k1
    k2 = k2
    u1 = u1
    u2 = u2
    Sessions = {t1, t2}
    Creds = {k1}
    CredOf <- SharedCred
    Closers = {t1, t2}
    SessionOf <- OwnSession
    Costs = {1, 2}
    MaxAmount = 3
    Authorized = {1, 2, 3}
    LateCharges = FALSE
    Users = {u1, u2}
    UserOf <- TwoUsers
    Price = 1
    Minimum = 2
    MaxRestarts = 1
INVARIANTS
    GateTypeOK
    ServedIsPaid
    NotPaidTwice
    CollectsThePrice
    NamesOwnUser
    HonestTripServed
PROPERTIES
    TripIsPaidCall
\* The trips return, and then nothing is left to do.
CHECK_DEADLOCK FALSE
