SPECIFICATION Spec
CONSTANTS
    s1 = s1
    s2 = s2
    k1 = k1
    c1 = c1
    c2 = c2
    c3 = c3
    Sessions = {s1}
    Creds = {k1}
    CredOf <- OneCred
    Closers = {c1, c2, c3}
    SessionOf <- ThreeCloses
    Costs = {1, 2}
    MaxAmount = 2
    Authorized = {1, 2}
    LateCharges = FALSE
INVARIANTS
    TypeOK
    OneAttempt
    OneShotAskedOnce
    SettledCoversCharges
    NoSilentLoss
    HonestPayerNotShort
\* The calls end, and then nothing is left to do.
CHECK_DEADLOCK FALSE
