SPECIFICATION FairSpec
CONSTANTS
    q1 = q1
    q2 = q2
    Trips = {q1, q2}
    Url <- MCUrl
    MaxSends <- MCMaxSends
    MaxExpired = 0
    Settings <- MCSettings
    None = None
INVARIANTS
    RegistersOneClient
\* The trips return, and then nothing is left to do.
CHECK_DEADLOCK FALSE
