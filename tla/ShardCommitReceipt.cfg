\* The manifest rule without any fault; expected to be violated.
CONSTANTS
  c1 = c1
  c2 = c2
  Nobody = Nobody
  Closers <- MCClosers
  Streams <- MCPair
  MaxFaults = 0
SPECIFICATION Spec
INVARIANT CommittedIsComplete
