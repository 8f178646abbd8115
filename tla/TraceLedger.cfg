\* Base and profile streams that share the queue and the writer; on each, room
\* for one data record and two reserved ones.
CONSTANTS
  Streams <- MCPair
  DataCapacity = 1
  ReservedCapacity = 2
  MaxBatch = 2
  MaxSeq <- MCSeq
SPECIFICATION Spec
INVARIANTS
    TypeOK
    QueueCounts
    Conservation
    ControlConservation
    InflightMatchesBatch
    NoRecordLeftBehind
    ShardTellsAll
    SummaryHonest
    ReceiptReconciles
    AccountsSeparate
    DrainedReceiptHasSummary
PROPERTIES
    ReceiptFinal
