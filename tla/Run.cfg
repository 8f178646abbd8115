SPECIFICATION Spec
CONSTANTS
    Groups <- MCGroups
    Arms = {"fault", "control"}
    None = None
INVARIANTS
    VerdictIsSound
PROPERTIES
    RunnerEnds
