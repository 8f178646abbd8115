\* The contract's rule on consecutive drops; expected to be violated.
CONSTANTS
  Streams <- MCBase
  DataCapacity = 1
  ReservedCapacity = 2
  MaxBatch = 2
  MaxSeq <- MCSeq
SPECIFICATION Spec
INVARIANT LossesMaximal
