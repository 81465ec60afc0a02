SPECIFICATION Spec
CONSTANTS
  c1 = c1
  c2 = c2
  s1 = s1
  Stores = {s1}
  Clients = {c1, c2}
  StoreOf <- OneProcess
  Names = {n1, n2}
  Known = {n1, n2}
  SerialWriters = FALSE
  EventForeignKeys = TRUE
  NoType = NoType
  MaxId = 2
  MaxRows = 1
SYMMETRY Symmetry
INVARIANTS TypeOK EventsKeepTheirType NeverMistaken CachesNeverMislead
