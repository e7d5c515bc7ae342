SPECIFICATION Spec
CONSTANTS
    Builders = {b1, b2}
    MaxToken = 2
    FaultLimit = 2
INVARIANTS
    CompiledOnce
    ServedInProduction
    BuildNotLost
PROPERTIES
    ActivationIsFenced
    BuildSettles
CHECK_DEADLOCK FALSE
