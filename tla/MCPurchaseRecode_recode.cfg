SPECIFICATION FairSpec
CONSTANTS
    Line = {l1, l2}
    Item = {A, B}
    NoItem = NoItem
    Placeholder = Placeholder
    Elsewhere = Elsewhere
    Confirmer = {p1}
    MaxRow = 3
    MaxRev = 2
    RequestIdAlone = FALSE
    MaxTrouble = 1
INVARIANTS
    TypeOK
    RecordIsTrue
    ApprovalIsWritten
    EnqueuedIsServed
PROPERTIES
    HumanWorkSurvives
    ApprovalSettles
CHECK_DEADLOCK FALSE
