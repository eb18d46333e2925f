SPECIFICATION GateSpec
CONSTANTS
    t1 = t1
    t2 = t2
    k1 = k1
    k2 = k2
    u1 = u1
    u2 = u2
    Sessions = {t1, t2}
    Creds = {k1, k2}
    CredOf <- OwnCred
    Closers = {t1, t2}
    SessionOf <- OwnSession
    Costs = {1, 2}
    MaxAmount = 2
    Authorized = {2}
    LateCharges = FALSE
    Users = {u1, u2}
    UserOf <- OneUser
    Price = 1
    Minimum = 2
    MaxRestarts = 0
INVARIANTS
    SettlesItsOwnChallenge
\* The trips return, and then nothing is left to do.
CHECK_DEADLOCK FALSE
