CONSTANTS
    Procs = {"core"}
    First = "core"
    Recovery = FALSE
    Failures = {}
    Capacity = 2
    MaxTries = 1
    MaxEvents = 1
SPECIFICATION Spec
INVARIANT FailureCommitsShards
