SPECIFICATION Spec
CONSTANTS
  Clients = {c1, c2}
  Types = {t1, t2}
  Keys = {k1, k2}
  NoKey = NoKey
  NoRow = NoRow
  NoStatement = NoStatement
  Ids = {a1, a2}
SYMMETRY Symmetry
INVARIANTS TypeOK KeysUnique GetOrCreateAgrees
