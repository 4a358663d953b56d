SPECIFICATION Spec
CONSTANTS
    d1 = d1
    d2 = d2
    f1 = f1
    f2 = f2
    Doc = {d1}
    Folder = {f1, f2}
    Name = {d1}
    NameOf <- OwnName
    Targets <- Moving
    Line = {l1}
    Invoice = {i1}
    Worker = {w1, w2}
    None = None
    MaxAttempts = 2
    MaxRow = 2
    MaxMove = 2
    MaxTouch = 1
    MaxTrouble = 1
SYMMETRY FolderSymmetry
CONSTRAINT FewUpsets
INVARIANTS TypeOK LineOnce CacheIsEarned DoneIsFiled
PROPERTIES PersonsEditKept PersonsFileKept ImplementsDurableQueue
CHECK_DEADLOCK FALSE
