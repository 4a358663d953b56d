SPECIFICATION FairSpec
CONSTANTS
    Bill = {b1}
    Producer = {p1}
    Worker = {w1}
    NoBill = NoBill
    MaxAttempts = 2
    MaxSend = 1
    MaxEdit = 2
    MaxBlock = 1
    MaxReplay = 0
    ProducerMayCrash = FALSE
    LockSessionMayDrop = FALSE
    DocNumberEnforced = FALSE
PROPERTIES
    RowSettles
