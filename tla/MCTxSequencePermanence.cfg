SPECIFICATION Spec
CONSTANTS
    AccountIds = {a, b}
    Reserved = {}
    Bridge = bridge
    MaxU = 4
    MaxAccounts = 2
    CapDivisor = 2
    MaxTxs = 3
    LongRange = TRUE
    Outcomes <- MCForgetful
INVARIANTS
    NoncesPermanentlyConsumed
CHECK_DEADLOCK FALSE
