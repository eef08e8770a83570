SPECIFICATION Spec
CONSTANTS
  Threads = {th1, th2}
  Txns = {t1, t2, t3}
  NoTls = {FALSE}
  Modes <- AnyMode
  NoTxn = NoTxn
  NoThread = NoThread
SYMMETRY Symmetric
INVARIANT ReadersCoexist
