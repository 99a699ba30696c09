SPECIFICATION Spec
CONSTANTS
    MaxSeq = 3
    Times = {1, 2}
    Batches <- MCBatches
INVARIANTS Durable UniqueSequences TimeOrdered
PROPERTIES NeverReturns
