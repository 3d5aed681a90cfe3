SPECIFICATION Spec
CONSTANTS
    Runs = {r1}
    LibfuzzLanes = {lf}
    AflLanes = {}
    None = None
    a = a
    b = b
    c = c
    Inputs = {a, b, c}
    Cover <- MCCover
    StorageFails = {FALSE}
    MaxOthers = 1
INVARIANTS
    DeletionsAreCminDriven
CHECK_DEADLOCK FALSE
SYMMETRY MCSymmetry
