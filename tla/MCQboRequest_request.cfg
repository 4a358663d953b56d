SPECIFICATION FairSpec
CONSTANTS
    Caller = {c1, c2}
    Operator = {o1}
    MaxAttempts = 2
    Block = 3
    MaxTrouble = 2
INVARIANTS
    TypeOK
    RefreshTokenKept
    CapHolds
PROPERTIES
    PermanentIsTrue
    OneRefreshPerToken
    ServiceResumes
CHECK_DEADLOCK FALSE
