SPECIFICATION FairSpec
CONSTANTS
  x1 = x1
  k1 = k1
  reader1 = reader1
  order = order
  customer = customer
  placed = placed
  paid = paid
  viewed = viewed
  NoOwner = NoOwner
  NoType = NoType
  NoKey = NoKey
  NoEvent = NoEvent
  Keys = {k1}
  TypeOf <- TwoAggregates
  Writers = {x1}
  SerialWriters = TRUE
  Events <- ThreeTypes
  Calls <- FiveCalls
  BatchSize = 2
  MaxEventId = 3
  MaxRuns = 2
INVARIANTS TypeOK InOrder ExactlyWhatWasAsked
PROPERTY EveryEventDelivered
CHECK_DEADLOCK FALSE
