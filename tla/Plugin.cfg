CONSTANTS
    Procs = {"frontend", "core"}
    First = "frontend"
    Recovery = TRUE
    Failures = {"sink", "native", "factory", "observer"}
    Capacity = 2
    MaxTries = 2
    MaxEvents = 3
SPECIFICATION Spec
INVARIANTS
    ShardsOwned
    
    FactoryShardCommitted
