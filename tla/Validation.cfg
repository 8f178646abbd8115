CONSTANTS
    None = None
    NoValue = NoValue
    Runners = {p1, p2, p3}
    Views <- MCViews
    Candidates = {1, 2}
    NullDeltas = {0}
    NullPairs = 1
    MinFloor = 5
    BaseCharge = 2
    Charges = {4, 12}
    Linkages = {"causal", "precedes"}
    Flaws = {}
    MinPairs = 1
    MaxPairs = 1
    Total = 3
    Required = 2
    Boundaries = {1, 2}
    Latencies = {0, 10, 11}
    Deltas <- MCDeltas
    Plans <- MCPlans
    j1 = j1
    j2 = j2
    l1 = l1
    Mode = "issue2:kv-recovery-v1alpha1"
    UintMax = 20
    MaxPrompt = 2
    MaxEpoch = 1
    MaxSpans = 8
    HostTexts = {"id", "unprintable", ""}
    ExitCodes <- MCExitCodes
    Cached = {0, 1, 2}
    Parts = {"records", "graph", "accounting", "drilldown", "scoring", "locking", "ledger", "campaign"}
SPECIFICATION MCSpec
INVARIANTS
    RecordsFaithful
    ValidatorIsRight
    ResultIsSound
    OutputOfOneRunner
    LedgerIsTrue
    DecisionIsGate
PROPERTIES
    LockedStays
