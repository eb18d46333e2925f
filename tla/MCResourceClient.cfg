SPECIFICATION FairSpec
CONSTANTS
    r1 = r1
    r2 = r2
    r3 = r3
    Callers = {r1, r2, r3}
    Introspectors = {r1, r2}
    Nobody = Nobody
    MaxRevoked = 1
    MaxRestarts = 1
    Settings <- MCSettings
INVARIANTS
    TypeOK
    SingleFlight
    NoSpuriousFailure
    RegistrationKept
    SurvivesRestart
PROPERTIES
    CallersReturn
\* The callers return, and then nothing is left to do.
CHECK_DEADLOCK FALSE
