CONSTANTS
    Requests = {r1}
    r1 = r1
    MaxEpoch = 2
    MaxRefusals = 0
    Capacities = {2}
SPECIFICATION Spec
INVARIANT TerminalClosesOpen
