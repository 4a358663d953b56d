SPECIFICATION Spec
CONSTANTS
    Bill = {b1, b2}
    Producer = {p1, p2}
    Worker = {w1, w2}
    NoBill = NoBill
    MaxAttempts = 2
    MaxSend = 2
    MaxEdit = 2
    MaxBlock = 0
    MaxReplay = 1
    ProducerMayCrash = FALSE
    LockSessionMayDrop = FALSE
    DocNumberEnforced = FALSE
SYMMETRY Symmetry
INVARIANTS
    TypeOK
    LiveClaim
    EditNotLost
    DoneIsLinked
PROPERTIES
    LinkedBillIsFinal
    ImplementsDurableQueue
