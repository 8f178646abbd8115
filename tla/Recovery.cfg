CONSTANTS
    Requests = {"r1"}
    MaxEpoch = 2
    MaxTransfers = 2
    MaxRefusals = 1
    MaxRequeueObservations = 1
    Blocks = 3
    ChunkSize = 2
    Plans <- MCPlans
    Types = {"recovery_event", "transfer_event"}
    Reasons = {"queue_overflow", "serialization_failure"}
    Capacity = 3
    MaxSeq = 6
SPECIFICATION MCSpec
INVARIANTS
    CompleteEpisodeNormalizes
    FaultFreeIsLossless
    NothingUnexplained
    EverySequenceOnce
    IntervalsWellFormed
