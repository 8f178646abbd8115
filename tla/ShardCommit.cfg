\* Two closers, both streams, up to two failing file system calls.
CONSTANTS
  c1 = c1
  c2 = c2
  Nobody = Nobody
  Closers <- MCClosers
  Streams <- MCPair
  MaxFaults = 2
SPECIFICATION CloseSpec
INVARIANTS
    TypeOK
    CommitPointIsComplete
    OneReceipt
    NothingVisibleUncommitted
PROPERTIES
    CommitIsFinal
    CloseReturns
    WriterStops
    ImplementsEvidenceCommit
