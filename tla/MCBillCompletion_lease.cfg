SPECIFICATION Spec
CONSTANTS
    Bill = {b1, b2}
    NoBill = NoBill
    Request = {q1, q2}
    Tick = {t1, t2}
    MaxAttempts = 3
    MaxJob = 3
    EnqueueMayFail = FALSE
    RunMayOutliveClaim = FALSE
SYMMETRY Symmetry
INVARIANTS
    TypeOK
    NoOverlap
    FinalizedIsOwned
CHECK_DEADLOCK FALSE
