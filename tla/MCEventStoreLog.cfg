SPECIFICATION LogSpec
CONSTANTS
  Clients = {c1, c2}
  Aggregates = {a1}
  Vals = {v1, v2}
  SnapshotFrequency = 2
  NoObject = NoObject
  NoAggregate = NoAggregate
  MaxSequence = 3
  MaxBatch = 2
  MaxEventId = 6
SYMMETRY Symmetry
INVARIANTS NoLostUpdate SnapshotsAreReplays ObjectsAreReplays SnapshotInsertsNeverCollide IndInv
PROPERTIES ImplementsEventLog StreamsGrowInIdOrder
CHECK_DEADLOCK FALSE
