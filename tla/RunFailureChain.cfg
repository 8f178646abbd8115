SPECIFICATION Spec
CONSTANTS
    Groups <- MCGroups
    Arms = {"fault"}
    None = None
INVARIANT
    FailureChainWitnessed
