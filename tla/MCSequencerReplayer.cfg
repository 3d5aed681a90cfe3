SPECIFICATION Spec
CONSTANTS
    AccountIds = {a, b, c}
    Reserved = {}
    Bridge = bridge
    MaxU = 2
    MaxAccounts = 2
    CapDivisor = 2
    MaxTxs = 2
    Outcomes <- MCConfinedExecute
    Validations <- MCConfinedValidate
    Applications <- MCFailingApplyDiff
    ClockOutcomes <- MCDefectiveClock
INVARIANTS
    TypeOK
    OnlyDeviationAccused
    FullEquivalence
SYMMETRY MCSymmetry
CHECK_DEADLOCK FALSE
