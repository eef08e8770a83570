SPECIFICATION FairSpec
CONSTANTS
  Threads = {th1, th2}
  Txns = {t1, t2}
  NoTls = {FALSE}
  Modes <- MixedModes
  NoTxn = NoTxn
  NoThread = NoThread
PROPERTIES
  EndingCompletes
  DisposeCompletes
