SPECIFICATION Spec
CONSTANTS
    AccountIds = {a, b, bridge}
    Reserved = {bridge}
    Bridge = bridge
    MaxU = 4
    MaxAccounts = 2
    CapDivisor = 2
    MaxTxs = 2
    LongRange = TRUE
    Outcomes <- MCDefective
INVARIANTS
    TypeOK
    OnlyDeviationAccused
    LongRangeConserved
CHECK_DEADLOCK FALSE
