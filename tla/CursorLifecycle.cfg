SPECIFICATION Spec
CONSTANTS
  Threads = {th1, th2}
  write = write
  read1 = read1
  read2 = read2
  Txns <- MCTxns
  ReadOnly <- MCReadOnly
  Cursors = {c1, c2}
  NoThread = NoThread
  NoTxn = NoTxn
  NoCursor = NoCursor
SYMMETRY Symmetric
INVARIANTS
  TypeOK
  NoUseAfterFree
  WriteCursorsCleared
  NativeReachable
  TrackedNotClosed
PROPERTY KeepsContract
