SPECIFICATION Spec
CONSTANTS
    s1 = s1
    s2 = s2
    k1 = k1
    c1 = c1
    c2 = c2
    c3 = c3
    Sessions = {s1, s2}
    Creds = {k1}
    CredOf <- SharedCred
    Closers = {c1, c2, c3}
    SessionOf <- TwoRequests
    Costs = {1}
    MaxAmount = 2
    Authorized = {2}
    LateCharges = TRUE
SYMMETRY Calls
INVARIANTS
    CollectsNoMoreThanCharged
PROPERTIES
    SettledIsFinal
    KeepsPromise
\* The calls end, and then nothing is left to do.
CHECK_DEADLOCK FALSE
