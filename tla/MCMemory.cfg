SPECIFICATION MemorySpec
CONSTANTS
  Clients = {c1, c2}
  Keys = {ka, kb}
  Vals = {v1, v2}
  SnapshotFrequency = 2
  NoObject = NoObject
  NoKey = NoKey
  NoId = NoId
  MaxAggregates = 2
  MaxLog = 3
  MaxBatch = 2
  n1 = n1
  n2 = n2
  k1 = k1
  k2 = k2
  alice = alice
  bob = bob
  order = order
  customer = customer
  placed = placed
  paid = paid
  Names = {n1, n2}
  Calls <- TwoCalls
  Leases = {0, 1}
  Events <- TwoEvents
  TypeOf <- TwoAggregates
  AggregateKeys = {k1, k2}
  Nil = Nil
  Limit = 1
  MaxEventId = 2
  MaxTime = 1
CONSTRAINTS FewEvents TakenOverFirst SecondIsIdle SecondKeepsKey
SYMMETRY Symmetry
INVARIANTS TypeOK NoLostUpdate LoadsAreReplays KeysLeadBack QueriesAgree
PROPERTY ImplementsTable
CHECK_DEADLOCK FALSE
