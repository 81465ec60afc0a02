SPECIFICATION Spec
CONSTANTS
  Clients = {c1, c2}
  Keys = {ka, kb}
  Vals = {v1, v2}
  SnapshotFrequency = 2
  NoObject = NoObject
  NoKey = NoKey
  NoId = NoId
  MaxAggregates = 2
  MaxLog = 3
  MaxBatch = 1
SYMMETRY Symmetry
INVARIANT OptimisticConcurrency
