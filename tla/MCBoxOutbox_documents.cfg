SPECIFICATION Spec
CONSTANTS
    d1 = d1
    d2 = d2
    f1 = f1
    f2 = f2
    Doc = {d1, d2}
    Folder = {f1, f2}
    Name = {d1}
    NameOf <- SameName
    Targets <- Beside
    Line = {}
    Invoice = {}
    Worker = {w1, w2}
    None = None
    MaxAttempts = 2
    MaxRow = 2
    MaxMove = 0
    MaxTouch = 1
    MaxTrouble = 0
PROPERTIES DocumentKept
CHECK_DEADLOCK FALSE
