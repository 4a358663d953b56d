SPECIFICATION Spec
CONSTANTS
    Bill = {b1, b2}
    Local = {b1}
    Zero = {b2}
    MaxTime = 2
    Overlap = 2
    Lag = 1
    HoldBound = 9
    MaxEdit = 1
    MaxTrouble = 0
INVARIANTS
    SkipsArePermanent
CHECK_DEADLOCK FALSE
