SPECIFICATION FairSpec
CONSTANTS
    Bill = {b1, b2}
    Local = {b1}
    Zero = {b2}
    MaxTime = 2
    Overlap = 2
    Lag = 1
    HoldBound = 1
    MaxEdit = 1
    MaxTrouble = 1
INVARIANTS
    TypeOK
    NothingSlips
    Buried
PROPERTIES
    ForcedIsEarned
    BooksCatchUp
CHECK_DEADLOCK FALSE
