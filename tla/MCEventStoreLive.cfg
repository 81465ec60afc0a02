SPECIFICATION FairSpec
CONSTANTS
  Clients = {c1, c2}
  Aggregates = {a1, a2}
  Vals = {v1}
  SnapshotFrequency = 0
  NoObject = NoObject
  NoAggregate = NoAggregate
  MaxSequence = 1
  MaxBatch = 2
PROPERTIES ImplementsCompareAndAppend ContextsEnd
