SPECIFICATION Spec
CONSTANTS
    AccountIds = {a, b, bridge}
    Reserved = {bridge}
    Bridge = bridge
    MaxU = 3
    MaxAccounts = 2
    CapDivisor = 2
    Inputs <- MCInputs
    Behaviours <- MCFaithful
INVARIANTS
    ConsistentLedgerNotAccused
CHECK_DEADLOCK FALSE
