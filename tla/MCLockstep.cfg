SPECIFICATION Spec
CONSTANTS
    AccountIds = {a, b, c}
    Reserved = {}
    Bridge = bridge
    MaxU = 4
    MaxAccounts = 3
    CapDivisor = 3
    MaxCmds = 3
    MaxDelta = 1
    ExcessSpan = 2
    MaxJump = 0
    Outcomes <- MCDefective
INVARIANTS
    TypeOK
    OracleSound
    KindsReachTheirPath
    NoncesConsumedInTurn
    TotalConserved
    ClockAheadOfLedger
PROPERTIES
    CertifiedLedger
SYMMETRY MCSymmetry
CHECK_DEADLOCK FALSE
