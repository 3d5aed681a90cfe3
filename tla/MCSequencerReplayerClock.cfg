SPECIFICATION Spec
CONSTANTS
    AccountIds = {a, b, bridge}
    Reserved = {bridge}
    Bridge = bridge
    MaxU = 3
    MaxAccounts = 2
    CapDivisor = 2
    MaxTxs = 1
    Outcomes <- MCFaithful
    Validations <- MCValidate
    Applications <- MCApplyDiff
    ClockOutcomes <- MCFailingClock
INVARIANTS
    ClockConsistency
CHECK_DEADLOCK FALSE
