SPECIFICATION FairSpec
CONSTANTS
    Bill = {b1}
    NoBill = NoBill
    Request = {q1, q2}
    Tick = {t1}
    MaxAttempts = 3
    MaxJob = 2
    EnqueueMayFail = TRUE
    RunMayOutliveClaim = TRUE
PROPERTIES
    FinishedJobIsFinal
    JobIsDrivenUntilSpent
CHECK_DEADLOCK FALSE
