SPECIFICATION Spec
CONSTANTS
    AccountIds = {a, b}
    Reserved = {}
    Bridge = bridge
    MaxU = 3
    MaxAccounts = 2
    CapDivisor = 3
    Inputs <- MCInputs
    Behaviours <- MCBehaviours
INVARIANTS
    NothingBetweenTargets
    UndeclaredUntouched
    SignedNeverPassesBoth
    UnsignedNeverAccused
SYMMETRY MCSymmetry
CHECK_DEADLOCK FALSE
