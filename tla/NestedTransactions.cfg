SPECIFICATION Spec
CONSTANTS
  Txns = {t1, t2, t3, t4}
  Dbs = {d1, d2}
  Names = {n1, n2}
  Slots <- MCSlots
  NoTxn = NoTxn
  NoName = NoName
SYMMETRY Symmetric
CHECK_DEADLOCK FALSE
INVARIANTS
  TypeOK
  ParentStaysRegistered
  NoUseAfterFree
  HandlesMatch
  OnePlace
PROPERTIES
  RefusedForAncestor
  KeepsContract
