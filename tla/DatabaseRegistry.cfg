SPECIFICATION Spec
CONSTANTS
  Threads = {th1, th2}
  Txns = {tx1, tx2, tx3}
  Dbs = {d1, d2}
  lower = lower
  upper = upper
  other = other
  Names <- MCNames
  Fold <- MCFold
  Slots <- MCSlots
  NoTxn = NoTxn
  NoThread = NoThread
  NoDb = NoDb
  NoName = NoName
SYMMETRY Symmetric
CHECK_DEADLOCK FALSE
INVARIANTS
  TypeOK
  HandlesMatch
  CommittedRegistered
  RegistryAlive
  AbortedUnusable
  DisposeClearsHandles
PROPERTIES
  RemovedOnlyDisposed
  KeepsContract
