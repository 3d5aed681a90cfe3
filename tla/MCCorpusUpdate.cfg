SPECIFICATION Spec
CONSTANTS
    Runs = {r1, r2}
    LibfuzzLanes = {}
    AflLanes = {af}
    None = None
    a = a
    b = b
    c = c
    Inputs = {a, b, c}
    Cover <- MCCover
    StorageFails = {TRUE, FALSE}
    MaxOthers = 1
PROPERTIES
    CrashedLanesUntouched
    QuietRunKeepsCoverage
CHECK_DEADLOCK FALSE
SYMMETRY MCSymmetry
