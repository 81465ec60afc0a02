SPECIFICATION FairSpec
CONSTANTS
  w1 = w1
  w2 = w2
  x1 = x1
  x2 = x2
  alice = alice
  bob = bob
  order = order
  placed = placed
  paid = paid
  viewed = viewed
  NoOwner = NoOwner
  NoType = NoType
  NoKey = NoKey
  NoEvent = NoEvent
  NoCall = NoCall
  NoCopy = NoCopy
  Keys = {}
  TypeOf <- OneAggregate
  Workers = {w1, w2}
  Writers = {x1}
  SerialWriters = TRUE
  Events <- OneType
  Calls <- LiveCalls
  BatchSize = 1
  MaxFaults = 1
  MaxEventId = 2
PROPERTIES EveryEventHandled PauseTakesEffect OnlyWhatWasAsked
