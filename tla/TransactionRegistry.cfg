SPECIFICATION Spec
CONSTANTS
  Threads = {th1, th2}
  Txns = {t1, t2, t3}
  NoTls = {TRUE, FALSE}
  Modes <- AnyMode
  NoTxn = NoTxn
  NoThread = NoThread
SYMMETRY Symmetric
VIEW Distinct
INVARIANTS
  TypeOK
  EndedByOneThread
  RegistryComplete
  RegistrySound
  CloseFindsNoTransaction
  NoUseAfterFree
  NoNativeLeak
  DatabaseBeginProtected
PROPERTY KeepsContract
