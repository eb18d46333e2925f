SPECIFICATION Spec
CONSTANTS
    q1 = q1
    q2 = q2
    tempo = tempo
    solana = solana
    Challenges = {q1, q2}
    Chains = {tempo, solana}
    TTL = 2
    FetchTime = 1
    MaxRotations = 2
    MaxTime = 5
SYMMETRY Alike
INVARIANTS
    TypeOK
    BoundedStaleness
    KeyArrives
    NothingIsRetried
\* The clock stops at its bound.
CHECK_DEADLOCK FALSE
