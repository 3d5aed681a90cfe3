SPECIFICATION Spec
CONSTANTS
    AccountIds = {a, b}
    Reserved = {}
    Bridge = bridge
    MaxU = 3
    MaxAccounts = 2
    CapDivisor = 3
    Nullifiers = {n1, n2}
    Commitments = {c1, c2}
    MaxBlock = 3
    Amounts = {1}
    MaxEffects = 1
    MaxTxs = 2
    MaxSigners = 2
    MaxExtra = 1
    MaxPrivate = 2
    Outcomes <- MCFaithful
INVARIANTS
    TypeOK
    NeverPanics
    DrawsReachApply
    SecondRefusedForNullifier
SYMMETRY MCSymmetry
CHECK_DEADLOCK FALSE
