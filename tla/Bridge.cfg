CONSTANTS
    Requests = {r1}
    r1 = r1
    MaxEpoch = 2
    MaxRefusals = 1
    Capacities = {1, 2}
SPECIFICATION Spec
INVARIANTS
    SpansConsistent
    EpochsConsistent
    RetiredIsForgotten
