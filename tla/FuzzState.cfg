SPECIFICATION GenSpec
CONSTANTS
    AccountIds = {a, b, c, bridge}
    Reserved = {bridge}
    Bridge = bridge
    MaxU = 7
    MaxAccounts = 3
    CapDivisor = 3
INVARIANTS
    GenTypeOK
    GeneratorPromise
    BalancesSurviveGenesis
    GenesisTotalFits
CHECK_DEADLOCK FALSE
