SPECIFICATION Spec
CONSTANTS
    Bill = {b1}
    Producer = {p1, p2}
    Worker = {w1, w2}
    NoBill = NoBill
    MaxAttempts = 2
    MaxSend = 2
    MaxEdit = 2
    MaxBlock = 0
    MaxReplay = 0
    ProducerMayCrash = TRUE
    LockSessionMayDrop = TRUE
    DocNumberEnforced = TRUE
SYMMETRY Symmetry
INVARIANTS
    DoneIsLinked
PROPERTIES
    ImplementsDurableQueue
