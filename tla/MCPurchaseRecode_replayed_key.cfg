SPECIFICATION Spec
CONSTANTS
    Line = {l1}
    Item = {A, B}
    NoItem = NoItem
    Placeholder = Placeholder
    Elsewhere = Elsewhere
    Confirmer = {p1}
    MaxRow = 3
    MaxRev = 2
    RequestIdAlone = TRUE
    MaxTrouble = 2
SYMMETRY Symmetry
INVARIANTS
    RecordIsTrue
CHECK_DEADLOCK FALSE
