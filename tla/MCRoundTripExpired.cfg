SPECIFICATION FairSpec
CONSTANTS
    q1 = q1
    q2 = q2
    Trips = {q1, q2}
    Url <- MCUrl
    MaxSends <- MCMaxSends
    MaxExpired = 1
    Settings <- MCSettings
    None = None
INVARIANTS
    ReauthenticatesOn401
\* The trips return, and then nothing is left to do.
CHECK_DEADLOCK FALSE
