----------------------- MODULE TransactionRegistryProofs -----------------------
(***************************************************************************)
(* Proofs about TransactionRegistry, for any number of threads and of      *)
(* transactions: the type invariant, that one thread ends a transaction,   *)
(* and that the dictionary of transactions is complete and sound.          *)
(***************************************************************************)
EXTENDS TransactionRegistry, TLAPS

BeginLabels == {"beginDatabase", "begin", "options", "register", "discard"}
UseLabels == {"commit", "reset", "renew"}

\* What a thread in the middle of a call knows about the transaction it works on.
Focus ==
  \A th \in Threads :
    /\ pc[th] \in BeginLabels \cup UseLabels \cup EndLabels => cur[th] \in Txns
    /\ pc[th] \in BeginLabels => txn[cur[th]] = "unborn" /\ mode[cur[th]] # "none"
    /\ pc[th] \in {"options", "register", "discard"} => Live(cur[th]) /\ mode[cur[th]] # "database"
    /\ pc[th] \in UseLabels => txn[cur[th]] # "unborn"
    /\ pc[th] \in EndLabels => txn[cur[th]] = "zero"
    /\ pc[th] \in {"commitNative", "abortNative"} => Live(cur[th])
    /\ pc[th] = "disposed" => ~Live(cur[th]) /\ key[th] = id[cur[th]]

\* No two threads begin, or end, the same transaction.
Exclusive ==
  \A th1, th2 \in Threads :
    th1 # th2 /\ cur[th1] = cur[th2] =>
      /\ ~(pc[th1] \in EndLabels /\ pc[th2] \in EndLabels)
      /\ ~(pc[th1] \in BeginLabels /\ pc[th2] \in BeginLabels)

\* The managed field against the native transaction and the dictionary.
Objects ==
  /\ \A t \in Txns : txn[t] = "open" => Live(t)
  /\ \A t \in Txns : txn[t] # "unborn" => mode[t] # "none"
  /\ \A e \in transactions : txn[e[2]] # "unborn" /\ mode[e[2]] # "database"

OwnershipInv == TypeOK /\ Focus /\ Exclusive /\ Objects

\* Ids are unique in the dictionary and, as long as nothing has moved, say whose entry it is.
Keys ==
  /\ \A e, f \in transactions : e[1] = f[1] => e = f
  /\ \A th \in Threads : pc[th] \in {"closing", "clearHandles", "closeNative", "clear", "clearDatabases"} => ~env
  /\ closer # NoThread => ~env
  /\ ~moved => \A e \in transactions : e[1] = id[e[2]]

\* A transaction stays in the dictionary until its callback removes it.
Tracked ==
  env /\ ~noTls /\ ~moved =>
    \A th \in Threads :
      pc[th] \in EndLabels /\ mode[cur[th]] # "database" => <<id[cur[th]], cur[th]>> \in transactions

RegistryInv == OwnershipInv /\ Keys /\ Tracked /\ RegistryComplete /\ RegistrySound
-----------------------------------------------------------------------------
\* BeginTransaction begins readers and plain writers.
LEMMA Kinds == \A t \in Txns : Modes[t] \ {"database"} \subseteq {"read", "write"}
BY ConstantsAssumption

\* Every step keeps the variables in their sets.
LEMMA TypeStep == OwnershipInv /\ [Next]_vars => TypeOK'
<1> SUFFICES ASSUME OwnershipInv, [Next]_vars PROVE TypeOK'
  OBVIOUS
<1> USE ConstantsAssumption DEF OwnershipInv, TypeOK, Focus, Labels, NativeStates, BeginLabels, UseLabels,
      EndLabels, vars, managed, threads, nativeSt, history
<1>1. ASSUME NEW th \in Threads, NEW t \in Txns, NEW m \in {"read", "write"}, BeginTransaction(th, t, m) PROVE TypeOK'
  BY <1>1 DEF BeginTransaction, Ask, Enter, Goto
<1>2. ASSUME NEW th \in Threads, NEW t \in Txns, Commit(th, t) PROVE TypeOK'
  BY <1>2 DEF Commit, Enter, Goto
<1>3. ASSUME NEW th \in Threads, NEW t \in Txns, Dispose(th, t) PROVE TypeOK'
  BY <1>3 DEF Dispose, Enter, Goto
<1>4. ASSUME NEW th \in Threads, NEW t \in Txns, NEW label \in {"reset", "renew"}, UseReader(th, t, label) PROVE TypeOK'
  BY <1>4 DEF UseReader, Enter, Goto
<1>5. ASSUME NEW th \in Threads, DisposeEnvironment(th) PROVE TypeOK'
  BY <1>5 DEF DisposeEnvironment, Goto, Registered
<1>6. ASSUME NEW th \in Threads, DisposeEnvironmentAgain(th) PROVE TypeOK'
  BY <1>6 DEF DisposeEnvironmentAgain, Enter, Goto
<1>7. ASSUME NEW th \in Threads, BeginWrite(th) PROVE TypeOK'
  BY <1>7 DEF BeginWrite, Goto
<1>8. ASSUME NEW th \in Threads, BeginRead(th) PROVE TypeOK'
  BY <1>8 DEF BeginRead, Goto
<1>9. ASSUME NEW th \in Threads, BeginFails(th) PROVE TypeOK'
  BY <1>9 DEF BeginFails, Leave, Goto
<1>10. ASSUME NEW th \in Threads, GetOptions(th) PROVE TypeOK'
  BY <1>10 DEF GetOptions, Leave, Goto
<1>11. ASSUME NEW th \in Threads, AddTransaction(th) PROVE TypeOK'
  BY <1>11 DEF AddTransaction, Leave, Goto
<1>12. ASSUME NEW th \in Threads, ReturnUntracked(th) PROVE TypeOK'
  BY <1>12 DEF ReturnUntracked, Leave, Goto
<1>13. ASSUME NEW th \in Threads, RefuseTransaction(th) PROVE TypeOK'
  BY <1>13 DEF RefuseTransaction, Goto
<1>14. ASSUME NEW th \in Threads, DiscardTransaction(th) PROVE TypeOK'
  BY <1>14 DEF DiscardTransaction, Leave, Goto
<1>15. ASSUME NEW th \in Threads, CommitClaim(th) PROVE TypeOK'
  BY <1>15 DEF CommitClaim, Leave, Goto
<1>16. ASSUME NEW th \in Threads, CommitNative(th) PROVE TypeOK'
  BY <1>16 DEF CommitNative, EndNative, Writes, Goto
<1>17. ASSUME NEW th \in Threads, CommitFails(th) PROVE TypeOK'
  BY <1>17 DEF CommitFails, EndNative, Writes, Goto
<1>18. ASSUME NEW th \in Threads, AbortNative(th) PROVE TypeOK'
  BY <1>18 DEF AbortNative, EndNative, Goto
<1>19. ASSUME NEW th \in Threads, TransactionDisposed(th) PROVE TypeOK'
  BY <1>19 DEF TransactionDisposed, Return, Leave, Goto
<1>20. ASSUME NEW th \in Threads, ResetNative(th) PROVE TypeOK'
  BY <1>20 DEF ResetNative, Leave, Goto
<1>21. ASSUME NEW th \in Threads, RenewNative(th) PROVE TypeOK'
  BY <1>21 DEF RenewNative, Leave, Goto
<1>22. ASSUME NEW th \in Threads, SweepNext(th) PROVE TypeOK'
  BY <1>22 DEF SweepNext, Goto
<1>23. ASSUME NEW th \in Threads, SweepEnd(th) PROVE TypeOK'
  BY <1>23 DEF SweepEnd, Goto
<1>24. ASSUME NEW th \in Threads, CloseNative(th) PROVE TypeOK'
  BY <1>24 DEF CloseNative, Goto
<1>25. ASSUME NEW th \in Threads, ClearTransactions(th) PROVE TypeOK'
  BY <1>25 DEF ClearTransactions, Leave, Goto
<1>26. CASE UNCHANGED vars
  BY <1>26
<1>27. CASE FinalizeEnvironment
  BY <1>27 DEF FinalizeEnvironment
<1>28. ASSUME NEW th \in Threads, LockDatabase(th) PROVE TypeOK'
  BY <1>28 DEF LockDatabase, Leave, Goto
<1>29. ASSUME NEW th \in Threads, BeginDatabase(th) PROVE TypeOK'
  BY <1>29 DEF BeginDatabase, Leave, Goto
<1>30. ASSUME NEW th \in Threads, DatabaseTransactionClosed(th) PROVE TypeOK'
  BY <1>30 DEF DatabaseTransactionClosed, Return, Leave, Goto
<1>31. ASSUME NEW th \in Threads, ClearHandles(th) PROVE TypeOK'
  BY <1>31 DEF ClearHandles, Goto
<1>32. ASSUME NEW th \in Threads, ClearDatabases(th) PROVE TypeOK'
  BY <1>32 DEF ClearDatabases, Leave, Goto
<1>33. ASSUME NEW th \in Threads, NEW t \in Txns, BeginDatabaseTransaction(th, t) PROVE TypeOK'
  BY <1>33 DEF BeginDatabaseTransaction, Ask, Enter, Goto
<1> HIDE DEF OwnershipInv, TypeOK, Focus, Labels, NativeStates, BeginLabels, UseLabels,
      EndLabels, vars, managed, threads, nativeSt, history
<1>q. QED
  BY <1>1, <1>2, <1>3, <1>4, <1>5, <1>6, <1>7, <1>8, <1>9, <1>10, <1>11, <1>12,
     <1>13, <1>14, <1>15, <1>16, <1>17, <1>18, <1>19, <1>20, <1>21, <1>22, <1>23,
     <1>24, <1>25, <1>26, <1>27, <1>28, <1>29, <1>30, <1>31, <1>32, <1>33, Kinds
     DEF Next, Call, Step, Undefined, Collected, Hangs

\* Every step leaves each thread with a transaction in the state its next step expects.
LEMMA FocusStep == OwnershipInv /\ [Next]_vars => Focus'
<1> SUFFICES ASSUME OwnershipInv, [Next]_vars PROVE Focus'
  OBVIOUS
<1> USE ConstantsAssumption DEF OwnershipInv, TypeOK, Focus, Exclusive, Objects, Live, Labels, NativeStates,
      BeginLabels, UseLabels, EndLabels, vars, managed, threads, nativeSt, history
<1>1. ASSUME NEW th \in Threads, NEW t \in Txns, NEW m \in {"read", "write"}, BeginTransaction(th, t, m) PROVE Focus'
  BY <1>1 DEF BeginTransaction, Ask, Enter, Goto
<1>2. ASSUME NEW th \in Threads, NEW t \in Txns, Commit(th, t) PROVE Focus'
  BY <1>2 DEF Commit, Enter, Goto
<1>3. ASSUME NEW th \in Threads, NEW t \in Txns, Dispose(th, t) PROVE Focus'
  BY <1>3 DEF Dispose, Enter, Goto
<1>4. ASSUME NEW th \in Threads, NEW t \in Txns, NEW label \in {"reset", "renew"}, UseReader(th, t, label) PROVE Focus'
  BY <1>4 DEF UseReader, Enter, Goto
<1>5. ASSUME NEW th \in Threads, DisposeEnvironment(th) PROVE Focus'
  BY <1>5 DEF DisposeEnvironment, Goto
<1>6. ASSUME NEW th \in Threads, DisposeEnvironmentAgain(th) PROVE Focus'
  BY <1>6 DEF DisposeEnvironmentAgain, Enter, Goto
<1>7. ASSUME NEW th \in Threads, BeginWrite(th) PROVE Focus'
  BY <1>7 DEF BeginWrite, Goto
<1>8. ASSUME NEW th \in Threads, BeginRead(th) PROVE Focus'
  BY <1>8 DEF BeginRead, Goto
<1>9. ASSUME NEW th \in Threads, BeginFails(th) PROVE Focus'
  BY <1>9 DEF BeginFails, Leave, Goto
<1>10. ASSUME NEW th \in Threads, GetOptions(th) PROVE Focus'
  BY <1>10 DEF GetOptions, Leave, Goto
<1>11. ASSUME NEW th \in Threads, AddTransaction(th) PROVE Focus'
  BY <1>11 DEF AddTransaction, Leave, Goto
<1>12. ASSUME NEW th \in Threads, ReturnUntracked(th) PROVE Focus'
  BY <1>12 DEF ReturnUntracked, Leave, Goto
<1>13. ASSUME NEW th \in Threads, RefuseTransaction(th) PROVE Focus'
  BY <1>13 DEF RefuseTransaction, Goto
<1>14. ASSUME NEW th \in Threads, DiscardTransaction(th) PROVE Focus'
  BY <1>14 DEF DiscardTransaction, Leave, Goto
<1>15. ASSUME NEW th \in Threads, CommitClaim(th) PROVE Focus'
  BY <1>15 DEF CommitClaim, Leave, Goto
<1>16. ASSUME NEW th \in Threads, CommitNative(th) PROVE Focus'
  BY <1>16 DEF CommitNative, EndNative, Writes, Goto
<1>17. ASSUME NEW th \in Threads, CommitFails(th) PROVE Focus'
  BY <1>17 DEF CommitFails, EndNative, Writes, Goto
<1>18. ASSUME NEW th \in Threads, AbortNative(th) PROVE Focus'
  BY <1>18 DEF AbortNative, EndNative, Goto
<1>19. ASSUME NEW th \in Threads, TransactionDisposed(th) PROVE Focus'
  BY <1>19 DEF TransactionDisposed, Return, Leave, Goto
<1>20. ASSUME NEW th \in Threads, ResetNative(th) PROVE Focus'
  BY <1>20 DEF ResetNative, Leave, Goto
<1>21. ASSUME NEW th \in Threads, RenewNative(th) PROVE Focus'
  BY <1>21 DEF RenewNative, Leave, Goto
<1>22. ASSUME NEW th \in Threads, SweepNext(th) PROVE Focus'
  BY <1>22 DEF SweepNext, Goto
<1>23. ASSUME NEW th \in Threads, SweepEnd(th) PROVE Focus'
  BY <1>23 DEF SweepEnd, Goto
<1>24. ASSUME NEW th \in Threads, CloseNative(th) PROVE Focus'
  BY <1>24 DEF CloseNative, Goto
<1>25. ASSUME NEW th \in Threads, ClearTransactions(th) PROVE Focus'
  BY <1>25 DEF ClearTransactions, Leave, Goto
<1>26. CASE UNCHANGED vars
  BY <1>26
<1>27. CASE FinalizeEnvironment
  BY <1>27 DEF FinalizeEnvironment
<1>28. ASSUME NEW th \in Threads, LockDatabase(th) PROVE Focus'
  BY <1>28 DEF LockDatabase, Leave, Goto
<1>29. ASSUME NEW th \in Threads, BeginDatabase(th) PROVE Focus'
  BY <1>29 DEF BeginDatabase, Leave, Goto
<1>30. ASSUME NEW th \in Threads, DatabaseTransactionClosed(th) PROVE Focus'
  BY <1>30 DEF DatabaseTransactionClosed, Return, Leave, Goto
<1>31. ASSUME NEW th \in Threads, ClearHandles(th) PROVE Focus'
  BY <1>31 DEF ClearHandles, Goto
<1>32. ASSUME NEW th \in Threads, ClearDatabases(th) PROVE Focus'
  BY <1>32 DEF ClearDatabases, Leave, Goto
<1>33. ASSUME NEW th \in Threads, NEW t \in Txns, BeginDatabaseTransaction(th, t) PROVE Focus'
  BY <1>33 DEF BeginDatabaseTransaction, Ask, Enter, Goto
<1> HIDE DEF OwnershipInv, TypeOK, Focus, Exclusive, Objects, Live, Labels, NativeStates,
      BeginLabels, UseLabels, EndLabels, vars, managed, threads, nativeSt, history
<1>q. QED
  BY <1>1, <1>2, <1>3, <1>4, <1>5, <1>6, <1>7, <1>8, <1>9, <1>10, <1>11, <1>12,
     <1>13, <1>14, <1>15, <1>16, <1>17, <1>18, <1>19, <1>20, <1>21, <1>22, <1>23,
     <1>24, <1>25, <1>26, <1>27, <1>28, <1>29, <1>30, <1>31, <1>32, <1>33, Kinds
     DEF Next, Call, Step, Undefined, Collected, Hangs

\* No step brings a second thread to begin or to end a transaction: Interlocked.Exchange gives
\* the open field to one caller only.
LEMMA ExclusiveStep == OwnershipInv /\ [Next]_vars => Exclusive'
<1> SUFFICES ASSUME OwnershipInv, [Next]_vars PROVE Exclusive'
  OBVIOUS
<1> USE ConstantsAssumption DEF OwnershipInv, TypeOK, Focus, Exclusive, Objects, Live, Labels, NativeStates,
      BeginLabels, UseLabels, EndLabels, vars, managed, threads, nativeSt, history
<1>1. ASSUME NEW th \in Threads, NEW t \in Txns, NEW m \in {"read", "write"}, BeginTransaction(th, t, m) PROVE Exclusive'
  BY <1>1 DEF BeginTransaction, Ask, Enter, Goto
<1>2. ASSUME NEW th \in Threads, NEW t \in Txns, Commit(th, t) PROVE Exclusive'
  BY <1>2 DEF Commit, Enter, Goto
<1>3. ASSUME NEW th \in Threads, NEW t \in Txns, Dispose(th, t) PROVE Exclusive'
  BY <1>3 DEF Dispose, Enter, Goto
<1>4. ASSUME NEW th \in Threads, NEW t \in Txns, NEW label \in {"reset", "renew"}, UseReader(th, t, label) PROVE Exclusive'
  BY <1>4 DEF UseReader, Enter, Goto
<1>5. ASSUME NEW th \in Threads, DisposeEnvironment(th) PROVE Exclusive'
  BY <1>5 DEF DisposeEnvironment, Goto
<1>6. ASSUME NEW th \in Threads, DisposeEnvironmentAgain(th) PROVE Exclusive'
  BY <1>6 DEF DisposeEnvironmentAgain, Enter, Goto
<1>7. ASSUME NEW th \in Threads, BeginWrite(th) PROVE Exclusive'
  BY <1>7 DEF BeginWrite, Goto
<1>8. ASSUME NEW th \in Threads, BeginRead(th) PROVE Exclusive'
  BY <1>8 DEF BeginRead, Goto
<1>9. ASSUME NEW th \in Threads, BeginFails(th) PROVE Exclusive'
  BY <1>9 DEF BeginFails, Leave, Goto
<1>10. ASSUME NEW th \in Threads, GetOptions(th) PROVE Exclusive'
  BY <1>10 DEF GetOptions, Leave, Goto
<1>11. ASSUME NEW th \in Threads, AddTransaction(th) PROVE Exclusive'
  BY <1>11 DEF AddTransaction, Leave, Goto
<1>12. ASSUME NEW th \in Threads, ReturnUntracked(th) PROVE Exclusive'
  BY <1>12 DEF ReturnUntracked, Leave, Goto
<1>13. ASSUME NEW th \in Threads, RefuseTransaction(th) PROVE Exclusive'
  BY <1>13 DEF RefuseTransaction, Goto
<1>14. ASSUME NEW th \in Threads, DiscardTransaction(th) PROVE Exclusive'
  BY <1>14 DEF DiscardTransaction, Leave, Goto
<1>15. ASSUME NEW th \in Threads, CommitClaim(th) PROVE Exclusive'
  BY <1>15 DEF CommitClaim, Leave, Goto
<1>16. ASSUME NEW th \in Threads, CommitNative(th) PROVE Exclusive'
  BY <1>16 DEF CommitNative, EndNative, Writes, Goto
<1>17. ASSUME NEW th \in Threads, CommitFails(th) PROVE Exclusive'
  BY <1>17 DEF CommitFails, EndNative, Writes, Goto
<1>18. ASSUME NEW th \in Threads, AbortNative(th) PROVE Exclusive'
  BY <1>18 DEF AbortNative, EndNative, Goto
<1>19. ASSUME NEW th \in Threads, TransactionDisposed(th) PROVE Exclusive'
  BY <1>19 DEF TransactionDisposed, Return, Leave, Goto
<1>20. ASSUME NEW th \in Threads, ResetNative(th) PROVE Exclusive'
  BY <1>20 DEF ResetNative, Leave, Goto
<1>21. ASSUME NEW th \in Threads, RenewNative(th) PROVE Exclusive'
  BY <1>21 DEF RenewNative, Leave, Goto
<1>22. ASSUME NEW th \in Threads, SweepNext(th) PROVE Exclusive'
  BY <1>22 DEF SweepNext, Goto
<1>23. ASSUME NEW th \in Threads, SweepEnd(th) PROVE Exclusive'
  BY <1>23 DEF SweepEnd, Goto
<1>24. ASSUME NEW th \in Threads, CloseNative(th) PROVE Exclusive'
  BY <1>24 DEF CloseNative, Goto
<1>25. ASSUME NEW th \in Threads, ClearTransactions(th) PROVE Exclusive'
  BY <1>25 DEF ClearTransactions, Leave, Goto
<1>26. CASE UNCHANGED vars
  BY <1>26
<1>27. CASE FinalizeEnvironment
  BY <1>27 DEF FinalizeEnvironment
<1>28. ASSUME NEW th \in Threads, LockDatabase(th) PROVE Exclusive'
  BY <1>28 DEF LockDatabase, Leave, Goto
<1>29. ASSUME NEW th \in Threads, BeginDatabase(th) PROVE Exclusive'
  BY <1>29 DEF BeginDatabase, Leave, Goto
<1>30. ASSUME NEW th \in Threads, DatabaseTransactionClosed(th) PROVE Exclusive'
  BY <1>30 DEF DatabaseTransactionClosed, Return, Leave, Goto
<1>31. ASSUME NEW th \in Threads, ClearHandles(th) PROVE Exclusive'
  BY <1>31 DEF ClearHandles, Goto
<1>32. ASSUME NEW th \in Threads, ClearDatabases(th) PROVE Exclusive'
  BY <1>32 DEF ClearDatabases, Leave, Goto
<1>33. ASSUME NEW th \in Threads, NEW t \in Txns, BeginDatabaseTransaction(th, t) PROVE Exclusive'
  BY <1>33 DEF BeginDatabaseTransaction, Ask, Enter, Goto
<1> HIDE DEF OwnershipInv, TypeOK, Focus, Exclusive, Objects, Live, Labels, NativeStates,
      BeginLabels, UseLabels, EndLabels, vars, managed, threads, nativeSt, history
<1>q. QED
  BY <1>1, <1>2, <1>3, <1>4, <1>5, <1>6, <1>7, <1>8, <1>9, <1>10, <1>11, <1>12,
     <1>13, <1>14, <1>15, <1>16, <1>17, <1>18, <1>19, <1>20, <1>21, <1>22, <1>23,
     <1>24, <1>25, <1>26, <1>27, <1>28, <1>29, <1>30, <1>31, <1>32, <1>33, Kinds
     DEF Next, Call, Step, Undefined, Collected, Hangs

\* No step frees the MDB_txn of an open Transaction, or registers one that was not handed out.
LEMMA ObjectsStep == OwnershipInv /\ [Next]_vars => Objects'
<1> SUFFICES ASSUME OwnershipInv, [Next]_vars PROVE Objects'
  OBVIOUS
<1> USE ConstantsAssumption DEF OwnershipInv, TypeOK, Focus, Exclusive, Objects, Live, Labels, NativeStates,
      BeginLabels, UseLabels, EndLabels, vars, managed, threads, nativeSt, history
<1>1. ASSUME NEW th \in Threads, NEW t \in Txns, NEW m \in {"read", "write"}, BeginTransaction(th, t, m) PROVE Objects'
  BY <1>1 DEF BeginTransaction, Ask, Enter, Goto
<1>2. ASSUME NEW th \in Threads, NEW t \in Txns, Commit(th, t) PROVE Objects'
  BY <1>2 DEF Commit, Enter, Goto
<1>3. ASSUME NEW th \in Threads, NEW t \in Txns, Dispose(th, t) PROVE Objects'
  BY <1>3 DEF Dispose, Enter, Goto
<1>4. ASSUME NEW th \in Threads, NEW t \in Txns, NEW label \in {"reset", "renew"}, UseReader(th, t, label) PROVE Objects'
  BY <1>4 DEF UseReader, Enter, Goto
<1>5. ASSUME NEW th \in Threads, DisposeEnvironment(th) PROVE Objects'
  BY <1>5 DEF DisposeEnvironment, Goto
<1>6. ASSUME NEW th \in Threads, DisposeEnvironmentAgain(th) PROVE Objects'
  BY <1>6 DEF DisposeEnvironmentAgain, Enter, Goto
<1>7. ASSUME NEW th \in Threads, BeginWrite(th) PROVE Objects'
  BY <1>7 DEF BeginWrite, Goto
<1>8. ASSUME NEW th \in Threads, BeginRead(th) PROVE Objects'
  BY <1>8 DEF BeginRead, Goto
<1>9. ASSUME NEW th \in Threads, BeginFails(th) PROVE Objects'
  BY <1>9 DEF BeginFails, Leave, Goto
<1>10. ASSUME NEW th \in Threads, GetOptions(th) PROVE Objects'
  BY <1>10 DEF GetOptions, Leave, Goto
<1>11. ASSUME NEW th \in Threads, AddTransaction(th) PROVE Objects'
  BY <1>11 DEF AddTransaction, Leave, Goto
<1>12. ASSUME NEW th \in Threads, ReturnUntracked(th) PROVE Objects'
  BY <1>12 DEF ReturnUntracked, Leave, Goto
<1>13. ASSUME NEW th \in Threads, RefuseTransaction(th) PROVE Objects'
  BY <1>13 DEF RefuseTransaction, Goto
<1>14. ASSUME NEW th \in Threads, DiscardTransaction(th) PROVE Objects'
  BY <1>14 DEF DiscardTransaction, Leave, Goto
<1>15. ASSUME NEW th \in Threads, CommitClaim(th) PROVE Objects'
  BY <1>15 DEF CommitClaim, Leave, Goto
<1>16. ASSUME NEW th \in Threads, CommitNative(th) PROVE Objects'
  BY <1>16 DEF CommitNative, EndNative, Writes, Goto
<1>17. ASSUME NEW th \in Threads, CommitFails(th) PROVE Objects'
  BY <1>17 DEF CommitFails, EndNative, Writes, Goto
<1>18. ASSUME NEW th \in Threads, AbortNative(th) PROVE Objects'
  BY <1>18 DEF AbortNative, EndNative, Goto
<1>19. ASSUME NEW th \in Threads, TransactionDisposed(th) PROVE Objects'
  BY <1>19 DEF TransactionDisposed, Return, Leave, Goto
<1>20. ASSUME NEW th \in Threads, ResetNative(th) PROVE Objects'
  BY <1>20 DEF ResetNative, Leave, Goto
<1>21. ASSUME NEW th \in Threads, RenewNative(th) PROVE Objects'
  BY <1>21 DEF RenewNative, Leave, Goto
<1>22. ASSUME NEW th \in Threads, SweepNext(th) PROVE Objects'
  BY <1>22 DEF SweepNext, Goto
<1>23. ASSUME NEW th \in Threads, SweepEnd(th) PROVE Objects'
  BY <1>23 DEF SweepEnd, Goto
<1>24. ASSUME NEW th \in Threads, CloseNative(th) PROVE Objects'
  BY <1>24 DEF CloseNative, Goto
<1>25. ASSUME NEW th \in Threads, ClearTransactions(th) PROVE Objects'
  BY <1>25 DEF ClearTransactions, Leave, Goto
<1>26. CASE UNCHANGED vars
  BY <1>26
<1>27. CASE FinalizeEnvironment
  BY <1>27 DEF FinalizeEnvironment
<1>28. ASSUME NEW th \in Threads, LockDatabase(th) PROVE Objects'
  BY <1>28 DEF LockDatabase, Leave, Goto
<1>29. ASSUME NEW th \in Threads, BeginDatabase(th) PROVE Objects'
  BY <1>29 DEF BeginDatabase, Leave, Goto
<1>30. ASSUME NEW th \in Threads, DatabaseTransactionClosed(th) PROVE Objects'
  BY <1>30 DEF DatabaseTransactionClosed, Return, Leave, Goto
<1>31. ASSUME NEW th \in Threads, ClearHandles(th) PROVE Objects'
  BY <1>31 DEF ClearHandles, Goto
<1>32. ASSUME NEW th \in Threads, ClearDatabases(th) PROVE Objects'
  BY <1>32 DEF ClearDatabases, Leave, Goto
<1>33. ASSUME NEW th \in Threads, NEW t \in Txns, BeginDatabaseTransaction(th, t) PROVE Objects'
  BY <1>33 DEF BeginDatabaseTransaction, Ask, Enter, Goto
<1> HIDE DEF OwnershipInv, TypeOK, Focus, Exclusive, Objects, Live, Labels, NativeStates,
      BeginLabels, UseLabels, EndLabels, vars, managed, threads, nativeSt, history
<1>q. QED
  BY <1>1, <1>2, <1>3, <1>4, <1>5, <1>6, <1>7, <1>8, <1>9, <1>10, <1>11, <1>12,
     <1>13, <1>14, <1>15, <1>16, <1>17, <1>18, <1>19, <1>20, <1>21, <1>22, <1>23,
     <1>24, <1>25, <1>26, <1>27, <1>28, <1>29, <1>30, <1>31, <1>32, <1>33, Kinds
     DEF Next, Call, Step, Undefined, Collected, Hangs

\* TryAdd keeps the ids unique; the environment is never used again once it is being disposed.
LEMMA KeysStep == RegistryInv /\ OwnershipInv' /\ [Next]_vars => Keys'
<1> SUFFICES ASSUME RegistryInv /\ OwnershipInv', [Next]_vars PROVE Keys'
  OBVIOUS
<1> USE ConstantsAssumption DEF RegistryInv, Keys, Tracked, RegistryComplete, RegistrySound, OwnershipInv,
      TypeOK, Focus, Exclusive, Objects, Live, Labels, NativeStates, BeginLabels,
      UseLabels, EndLabels, vars, managed, threads, nativeSt, history
<1>1. ASSUME NEW th \in Threads, NEW t \in Txns, NEW m \in {"read", "write"}, BeginTransaction(th, t, m) PROVE Keys'
  BY <1>1 DEF BeginTransaction, Ask, Enter, Goto
<1>2. ASSUME NEW th \in Threads, NEW t \in Txns, Commit(th, t) PROVE Keys'
  BY <1>2 DEF Commit, Enter, Goto
<1>3. ASSUME NEW th \in Threads, NEW t \in Txns, Dispose(th, t) PROVE Keys'
  BY <1>3 DEF Dispose, Enter, Goto
<1>4. ASSUME NEW th \in Threads, NEW t \in Txns, NEW label \in {"reset", "renew"}, UseReader(th, t, label) PROVE Keys'
  BY <1>4 DEF UseReader, Enter, Goto
<1>5. ASSUME NEW th \in Threads, DisposeEnvironment(th) PROVE Keys'
  BY <1>5 DEF DisposeEnvironment, Goto
<1>6. ASSUME NEW th \in Threads, DisposeEnvironmentAgain(th) PROVE Keys'
  BY <1>6 DEF DisposeEnvironmentAgain, Enter, Goto
<1>7. ASSUME NEW th \in Threads, BeginWrite(th) PROVE Keys'
  BY <1>7 DEF BeginWrite, Goto
<1>8. ASSUME NEW th \in Threads, BeginRead(th) PROVE Keys'
  BY <1>8 DEF BeginRead, Goto
<1>9. ASSUME NEW th \in Threads, BeginFails(th) PROVE Keys'
  BY <1>9 DEF BeginFails, Leave, Goto
<1>10. ASSUME NEW th \in Threads, GetOptions(th) PROVE Keys'
  BY <1>10 DEF GetOptions, Leave, Goto
<1>11. ASSUME NEW th \in Threads, AddTransaction(th) PROVE Keys'
  <2> DEFINE new == <<id[cur[th]], cur[th]>>
  <2>1. transactions' = transactions \cup {new} /\ id' = id /\ moved' = moved
    BY <1>11 DEF AddTransaction, Leave, Goto, IdTaken
  <2>2. \A e \in transactions : e[1] # new[1]
    BY <1>11 DEF AddTransaction, Leave, Goto, IdTaken
  <2>3. \A e, f \in transactions' : e[1] = f[1] => e = f
    BY <2>1, <2>2
  <2>4. ~moved' => \A e \in transactions' : e[1] = id'[e[2]]
    BY <2>1
  <2>5. /\ \A o \in Threads : pc'[o] \in {"closing", "clearHandles", "closeNative", "clear", "clearDatabases"} => ~env'
        /\ closer' # NoThread => ~env'
    BY <1>11 DEF AddTransaction, Leave, Goto, IdTaken
  <2> QED
    BY <2>3, <2>4, <2>5
<1>12. ASSUME NEW th \in Threads, ReturnUntracked(th) PROVE Keys'
  BY <1>12 DEF ReturnUntracked, Leave, Goto, IdTaken
<1>13. ASSUME NEW th \in Threads, RefuseTransaction(th) PROVE Keys'
  BY <1>13 DEF RefuseTransaction, Goto
<1>14. ASSUME NEW th \in Threads, DiscardTransaction(th) PROVE Keys'
  BY <1>14 DEF DiscardTransaction, Leave, Goto
<1>15. ASSUME NEW th \in Threads, CommitClaim(th) PROVE Keys'
  BY <1>15 DEF CommitClaim, Leave, Goto
<1>16. ASSUME NEW th \in Threads, CommitNative(th) PROVE Keys'
  BY <1>16 DEF CommitNative, EndNative, Writes, Goto
<1>17. ASSUME NEW th \in Threads, CommitFails(th) PROVE Keys'
  BY <1>17 DEF CommitFails, EndNative, Writes, Goto
<1>18. ASSUME NEW th \in Threads, AbortNative(th) PROVE Keys'
  BY <1>18 DEF AbortNative, EndNative, Goto
<1>19. ASSUME NEW th \in Threads, TransactionDisposed(th) PROVE Keys'
  BY <1>19 DEF TransactionDisposed, Return, Leave, Goto
<1>20. ASSUME NEW th \in Threads, ResetNative(th) PROVE Keys'
  BY <1>20 DEF ResetNative, Leave, Goto
<1>21. ASSUME NEW th \in Threads, RenewNative(th) PROVE Keys'
  <2>1. CASE moved'
    BY <1>21, <2>1 DEF RenewNative, Leave, Goto
  <2>2. CASE ~moved'
    <3>1. id' = id /\ ~moved /\ UNCHANGED <<transactions, txn, mode, env, noTls>>
      BY <1>21, <2>2 DEF RenewNative, Leave, Goto
    <3>2. \A other \in Threads : pc'[other] \in EndLabels \cup {"closing", "clearHandles", "closeNative", "clear", "clearDatabases"} =>
            pc'[other] = pc[other] /\ cur'[other] = cur[other]
      BY <1>21 DEF RenewNative, Leave, Goto
    <3>3. \A other \in Threads : pc[other] \in EndLabels =>
            pc'[other] = pc[other] /\ cur'[other] = cur[other]
      BY <1>21 DEF RenewNative, Leave, Goto
    <3>4. UNCHANGED closer
      BY <1>21 DEF RenewNative, Leave, Goto
    <3> QED
      BY <2>2, <3>1, <3>2, <3>3, <3>4
  <2> QED
    BY <2>1, <2>2
<1>22. ASSUME NEW th \in Threads, SweepNext(th) PROVE Keys'
  BY <1>22 DEF SweepNext, Goto
<1>23. ASSUME NEW th \in Threads, SweepEnd(th) PROVE Keys'
  BY <1>23 DEF SweepEnd, Goto
<1>24. ASSUME NEW th \in Threads, CloseNative(th) PROVE Keys'
  BY <1>24 DEF CloseNative, Goto
<1>25. ASSUME NEW th \in Threads, ClearTransactions(th) PROVE Keys'
  BY <1>25 DEF ClearTransactions, Leave, Goto
<1>26. CASE UNCHANGED vars
  BY <1>26
<1>27. CASE FinalizeEnvironment
  BY <1>27 DEF FinalizeEnvironment
<1>28. ASSUME NEW th \in Threads, LockDatabase(th) PROVE Keys'
  BY <1>28 DEF LockDatabase, Leave, Goto
<1>29. ASSUME NEW th \in Threads, BeginDatabase(th) PROVE Keys'
  BY <1>29 DEF BeginDatabase, Leave, Goto
<1>30. ASSUME NEW th \in Threads, DatabaseTransactionClosed(th) PROVE Keys'
  BY <1>30 DEF DatabaseTransactionClosed, Return, Leave, Goto
<1>31. ASSUME NEW th \in Threads, ClearHandles(th) PROVE Keys'
  BY <1>31 DEF ClearHandles, Goto
<1>32. ASSUME NEW th \in Threads, ClearDatabases(th) PROVE Keys'
  BY <1>32 DEF ClearDatabases, Leave, Goto
<1>33. ASSUME NEW th \in Threads, NEW t \in Txns, BeginDatabaseTransaction(th, t) PROVE Keys'
  BY <1>33 DEF BeginDatabaseTransaction, Ask, Enter, Goto
<1> HIDE DEF RegistryInv, Keys, Tracked, RegistryComplete, RegistrySound, OwnershipInv,
      TypeOK, Focus, Exclusive, Objects, Live, Labels, NativeStates, BeginLabels,
      UseLabels, EndLabels, vars, managed, threads, nativeSt, history
<1>q. QED
  BY <1>1, <1>2, <1>3, <1>4, <1>5, <1>6, <1>7, <1>8, <1>9, <1>10, <1>11, <1>12,
     <1>13, <1>14, <1>15, <1>16, <1>17, <1>18, <1>19, <1>20, <1>21, <1>22, <1>23,
     <1>24, <1>25, <1>26, <1>27, <1>28, <1>29, <1>30, <1>31, <1>32, <1>33, Kinds
     DEF Next, Call, Step, Undefined, Collected, Hangs

\* A transaction that is being ended keeps its entry until its own callback: the callback of
\* another one carries another id.
LEMMA TrackedStep == RegistryInv /\ OwnershipInv' /\ [Next]_vars => Tracked'
<1> SUFFICES ASSUME RegistryInv /\ OwnershipInv', [Next]_vars PROVE Tracked'
  OBVIOUS
<1> USE ConstantsAssumption DEF RegistryInv, Keys, Tracked, RegistryComplete, RegistrySound, OwnershipInv,
      TypeOK, Focus, Exclusive, Objects, Live, Labels, NativeStates, BeginLabels,
      UseLabels, EndLabels, vars, managed, threads, nativeSt, history
<1>1. ASSUME NEW th \in Threads, NEW t \in Txns, NEW m \in {"read", "write"}, BeginTransaction(th, t, m) PROVE Tracked'
  BY <1>1 DEF BeginTransaction, Ask, Enter, Goto
<1>2. ASSUME NEW th \in Threads, NEW t \in Txns, Commit(th, t) PROVE Tracked'
  BY <1>2 DEF Commit, Enter, Goto
<1>3. ASSUME NEW th \in Threads, NEW t \in Txns, Dispose(th, t) PROVE Tracked'
  BY <1>3 DEF Dispose, Enter, Goto
<1>4. ASSUME NEW th \in Threads, NEW t \in Txns, NEW label \in {"reset", "renew"}, UseReader(th, t, label) PROVE Tracked'
  BY <1>4 DEF UseReader, Enter, Goto
<1>5. ASSUME NEW th \in Threads, DisposeEnvironment(th) PROVE Tracked'
  BY <1>5 DEF DisposeEnvironment, Goto
<1>6. ASSUME NEW th \in Threads, DisposeEnvironmentAgain(th) PROVE Tracked'
  BY <1>6 DEF DisposeEnvironmentAgain, Enter, Goto
<1>7. ASSUME NEW th \in Threads, BeginWrite(th) PROVE Tracked'
  BY <1>7 DEF BeginWrite, Goto
<1>8. ASSUME NEW th \in Threads, BeginRead(th) PROVE Tracked'
  BY <1>8 DEF BeginRead, Goto
<1>9. ASSUME NEW th \in Threads, BeginFails(th) PROVE Tracked'
  BY <1>9 DEF BeginFails, Leave, Goto
<1>10. ASSUME NEW th \in Threads, GetOptions(th) PROVE Tracked'
  BY <1>10 DEF GetOptions, Leave, Goto
<1>11. ASSUME NEW th \in Threads, AddTransaction(th) PROVE Tracked'
  BY <1>11 DEF AddTransaction, Leave, Goto, IdTaken
<1>12. ASSUME NEW th \in Threads, ReturnUntracked(th) PROVE Tracked'
  BY <1>12 DEF ReturnUntracked, Leave, Goto, IdTaken
<1>13. ASSUME NEW th \in Threads, RefuseTransaction(th) PROVE Tracked'
  BY <1>13 DEF RefuseTransaction, Goto
<1>14. ASSUME NEW th \in Threads, DiscardTransaction(th) PROVE Tracked'
  BY <1>14 DEF DiscardTransaction, Leave, Goto
<1>15. ASSUME NEW th \in Threads, CommitClaim(th) PROVE Tracked'
  BY <1>15 DEF CommitClaim, Leave, Goto
<1>16. ASSUME NEW th \in Threads, CommitNative(th) PROVE Tracked'
  BY <1>16 DEF CommitNative, EndNative, Writes, Goto
<1>17. ASSUME NEW th \in Threads, CommitFails(th) PROVE Tracked'
  BY <1>17 DEF CommitFails, EndNative, Writes, Goto
<1>18. ASSUME NEW th \in Threads, AbortNative(th) PROVE Tracked'
  BY <1>18 DEF AbortNative, EndNative, Goto
<1>19. ASSUME NEW th \in Threads, TransactionDisposed(th) PROVE Tracked'
  <2> DEFINE t == cur[th]
  <2> SUFFICES ASSUME env', ~noTls', ~moved' PROVE \A other \in Threads :
                      pc'[other] \in EndLabels /\ mode'[cur'[other]] # "database" =>
                        <<id'[cur'[other]], cur'[other]>> \in transactions'
    BY DEF Tracked
  <2>1. env /\ ~noTls /\ ~moved /\ UNCHANGED <<txn, id, mode>>
    BY <1>19 DEF TransactionDisposed, Return, Leave, Goto
  <2>2. pc[th] = "disposed" /\ t \in Txns /\ key[th] = id[t] /\ txn[t] = "zero" /\ mode[t] # "database"
    BY <1>19 DEF TransactionDisposed, Return, Leave, Goto
  <2>3. <<id[t], t>> \in transactions
    BY <2>1, <2>2
  <2>4. transactions' = {e \in transactions : e[1] # id[t]}
    BY <2>2, <1>19 DEF TransactionDisposed, Return, Leave, Goto
  <2>5. ASSUME NEW u \in Txns, u # t, <<id[u], u>> \in transactions
        PROVE  <<id[u], u>> \in transactions'
    <3>1. id[u] # id[t]
      BY <2>3, <2>5
    <3> QED
      BY <2>4, <2>5, <3>1
  <2>6. ASSUME NEW other \in Threads, pc'[other] \in EndLabels, mode'[cur'[other]] # "database"
        PROVE  <<id'[cur'[other]], cur'[other]>> \in transactions'
    <3>1. other # th /\ pc[other] \in EndLabels /\ cur'[other] = cur[other]
      BY <2>6, <1>19 DEF TransactionDisposed, Return, Leave, Goto
    <3>2. cur[other] # t /\ cur[other] \in Txns
      BY <2>2, <3>1
    <3>3. <<id[cur[other]], cur[other]>> \in transactions
      BY <2>1, <2>6, <3>1
    <3> QED
      BY <2>1, <2>5, <3>1, <3>2, <3>3
  <2> QED
    BY <2>6
<1>20. ASSUME NEW th \in Threads, ResetNative(th) PROVE Tracked'
  BY <1>20 DEF ResetNative, Leave, Goto
<1>21. ASSUME NEW th \in Threads, RenewNative(th) PROVE Tracked'
  <2>1. CASE moved'
    BY <1>21, <2>1 DEF RenewNative, Leave, Goto
  <2>2. CASE ~moved'
    <3>1. id' = id /\ ~moved /\ UNCHANGED <<transactions, txn, mode, env, noTls>>
      BY <1>21, <2>2 DEF RenewNative, Leave, Goto
    <3>2. \A other \in Threads : pc'[other] \in EndLabels \cup {"closing", "clearHandles", "closeNative", "clear", "clearDatabases"} =>
            pc'[other] = pc[other] /\ cur'[other] = cur[other]
      BY <1>21 DEF RenewNative, Leave, Goto
    <3>3. \A other \in Threads : pc[other] \in EndLabels =>
            pc'[other] = pc[other] /\ cur'[other] = cur[other]
      BY <1>21 DEF RenewNative, Leave, Goto
    <3>4. UNCHANGED closer
      BY <1>21 DEF RenewNative, Leave, Goto
    <3> QED
      BY <2>2, <3>1, <3>2, <3>3, <3>4
  <2> QED
    BY <2>1, <2>2
<1>22. ASSUME NEW th \in Threads, SweepNext(th) PROVE Tracked'
  BY <1>22 DEF SweepNext, Goto
<1>23. ASSUME NEW th \in Threads, SweepEnd(th) PROVE Tracked'
  BY <1>23 DEF SweepEnd, Goto
<1>24. ASSUME NEW th \in Threads, CloseNative(th) PROVE Tracked'
  BY <1>24 DEF CloseNative, Goto
<1>25. ASSUME NEW th \in Threads, ClearTransactions(th) PROVE Tracked'
  BY <1>25 DEF ClearTransactions, Leave, Goto
<1>26. CASE UNCHANGED vars
  BY <1>26
<1>27. CASE FinalizeEnvironment
  BY <1>27 DEF FinalizeEnvironment
<1>28. ASSUME NEW th \in Threads, LockDatabase(th) PROVE Tracked'
  BY <1>28 DEF LockDatabase, Leave, Goto
<1>29. ASSUME NEW th \in Threads, BeginDatabase(th) PROVE Tracked'
  BY <1>29 DEF BeginDatabase, Leave, Goto
<1>30. ASSUME NEW th \in Threads, DatabaseTransactionClosed(th) PROVE Tracked'
  BY <1>30 DEF DatabaseTransactionClosed, Return, Leave, Goto
<1>31. ASSUME NEW th \in Threads, ClearHandles(th) PROVE Tracked'
  BY <1>31 DEF ClearHandles, Goto
<1>32. ASSUME NEW th \in Threads, ClearDatabases(th) PROVE Tracked'
  BY <1>32 DEF ClearDatabases, Leave, Goto
<1>33. ASSUME NEW th \in Threads, NEW t \in Txns, BeginDatabaseTransaction(th, t) PROVE Tracked'
  BY <1>33 DEF BeginDatabaseTransaction, Ask, Enter, Goto
<1> HIDE DEF RegistryInv, Keys, Tracked, RegistryComplete, RegistrySound, OwnershipInv,
      TypeOK, Focus, Exclusive, Objects, Live, Labels, NativeStates, BeginLabels,
      UseLabels, EndLabels, vars, managed, threads, nativeSt, history
<1>q. QED
  BY <1>1, <1>2, <1>3, <1>4, <1>5, <1>6, <1>7, <1>8, <1>9, <1>10, <1>11, <1>12,
     <1>13, <1>14, <1>15, <1>16, <1>17, <1>18, <1>19, <1>20, <1>21, <1>22, <1>23,
     <1>24, <1>25, <1>26, <1>27, <1>28, <1>29, <1>30, <1>31, <1>32, <1>33, Kinds
     DEF Next, Call, Step, Undefined, Collected, Hangs

\* No step takes the entry of an open transaction away.
LEMMA CompleteStep == RegistryInv /\ OwnershipInv' /\ [Next]_vars => RegistryComplete'
<1> SUFFICES ASSUME RegistryInv /\ OwnershipInv', [Next]_vars PROVE RegistryComplete'
  OBVIOUS
<1> USE ConstantsAssumption DEF RegistryInv, Keys, Tracked, RegistryComplete, RegistrySound, OwnershipInv,
      TypeOK, Focus, Exclusive, Objects, Live, Labels, NativeStates, BeginLabels,
      UseLabels, EndLabels, vars, managed, threads, nativeSt, history
<1>1. ASSUME NEW th \in Threads, NEW t \in Txns, NEW m \in {"read", "write"}, BeginTransaction(th, t, m) PROVE RegistryComplete'
  BY <1>1 DEF BeginTransaction, Ask, Enter, Goto
<1>2. ASSUME NEW th \in Threads, NEW t \in Txns, Commit(th, t) PROVE RegistryComplete'
  BY <1>2 DEF Commit, Enter, Goto
<1>3. ASSUME NEW th \in Threads, NEW t \in Txns, Dispose(th, t) PROVE RegistryComplete'
  BY <1>3 DEF Dispose, Enter, Goto
<1>4. ASSUME NEW th \in Threads, NEW t \in Txns, NEW label \in {"reset", "renew"}, UseReader(th, t, label) PROVE RegistryComplete'
  BY <1>4 DEF UseReader, Enter, Goto
<1>5. ASSUME NEW th \in Threads, DisposeEnvironment(th) PROVE RegistryComplete'
  BY <1>5 DEF DisposeEnvironment, Goto
<1>6. ASSUME NEW th \in Threads, DisposeEnvironmentAgain(th) PROVE RegistryComplete'
  BY <1>6 DEF DisposeEnvironmentAgain, Enter, Goto
<1>7. ASSUME NEW th \in Threads, BeginWrite(th) PROVE RegistryComplete'
  BY <1>7 DEF BeginWrite, Goto
<1>8. ASSUME NEW th \in Threads, BeginRead(th) PROVE RegistryComplete'
  BY <1>8 DEF BeginRead, Goto
<1>9. ASSUME NEW th \in Threads, BeginFails(th) PROVE RegistryComplete'
  BY <1>9 DEF BeginFails, Leave, Goto
<1>10. ASSUME NEW th \in Threads, GetOptions(th) PROVE RegistryComplete'
  BY <1>10 DEF GetOptions, Leave, Goto
<1>11. ASSUME NEW th \in Threads, AddTransaction(th) PROVE RegistryComplete'
  BY <1>11 DEF AddTransaction, Leave, Goto, IdTaken
<1>12. ASSUME NEW th \in Threads, ReturnUntracked(th) PROVE RegistryComplete'
  BY <1>12 DEF ReturnUntracked, Leave, Goto, IdTaken
<1>13. ASSUME NEW th \in Threads, RefuseTransaction(th) PROVE RegistryComplete'
  BY <1>13 DEF RefuseTransaction, Goto
<1>14. ASSUME NEW th \in Threads, DiscardTransaction(th) PROVE RegistryComplete'
  BY <1>14 DEF DiscardTransaction, Leave, Goto
<1>15. ASSUME NEW th \in Threads, CommitClaim(th) PROVE RegistryComplete'
  BY <1>15 DEF CommitClaim, Leave, Goto
<1>16. ASSUME NEW th \in Threads, CommitNative(th) PROVE RegistryComplete'
  BY <1>16 DEF CommitNative, EndNative, Writes, Goto
<1>17. ASSUME NEW th \in Threads, CommitFails(th) PROVE RegistryComplete'
  BY <1>17 DEF CommitFails, EndNative, Writes, Goto
<1>18. ASSUME NEW th \in Threads, AbortNative(th) PROVE RegistryComplete'
  BY <1>18 DEF AbortNative, EndNative, Goto
<1>19. ASSUME NEW th \in Threads, TransactionDisposed(th) PROVE RegistryComplete'
  <2> DEFINE t == cur[th]
  <2> SUFFICES ASSUME env', ~noTls', ~moved' PROVE \A u \in Txns :
                      txn'[u] = "open" /\ mode'[u] # "database" => <<id'[u], u>> \in transactions'
    BY DEF RegistryComplete
  <2>1. env /\ ~noTls /\ ~moved /\ UNCHANGED <<txn, id, mode>>
    BY <1>19 DEF TransactionDisposed, Return, Leave, Goto
  <2>2. pc[th] = "disposed" /\ t \in Txns /\ key[th] = id[t] /\ txn[t] = "zero" /\ mode[t] # "database"
    BY <1>19 DEF TransactionDisposed, Return, Leave, Goto
  <2>3. <<id[t], t>> \in transactions
    BY <2>1, <2>2
  <2>4. transactions' = {e \in transactions : e[1] # id[t]}
    BY <2>2, <1>19 DEF TransactionDisposed, Return, Leave, Goto
  <2>5. ASSUME NEW u \in Txns, u # t, <<id[u], u>> \in transactions
        PROVE  <<id[u], u>> \in transactions'
    <3>1. id[u] # id[t]
      BY <2>3, <2>5
    <3> QED
      BY <2>4, <2>5, <3>1
  <2> QED
    BY <2>1, <2>2, <2>5
<1>20. ASSUME NEW th \in Threads, ResetNative(th) PROVE RegistryComplete'
  BY <1>20 DEF ResetNative, Leave, Goto
<1>21. ASSUME NEW th \in Threads, RenewNative(th) PROVE RegistryComplete'
  <2>1. CASE moved'
    BY <1>21, <2>1 DEF RenewNative, Leave, Goto
  <2>2. CASE ~moved'
    <3>1. id' = id /\ ~moved /\ UNCHANGED <<transactions, txn, mode, env, noTls>>
      BY <1>21, <2>2 DEF RenewNative, Leave, Goto
    <3>2. \A other \in Threads : pc'[other] \in EndLabels \cup {"closing", "clearHandles", "closeNative", "clear", "clearDatabases"} =>
            pc'[other] = pc[other] /\ cur'[other] = cur[other]
      BY <1>21 DEF RenewNative, Leave, Goto
    <3>3. \A other \in Threads : pc[other] \in EndLabels =>
            pc'[other] = pc[other] /\ cur'[other] = cur[other]
      BY <1>21 DEF RenewNative, Leave, Goto
    <3>4. UNCHANGED closer
      BY <1>21 DEF RenewNative, Leave, Goto
    <3> QED
      BY <2>2, <3>1, <3>2, <3>3, <3>4
  <2> QED
    BY <2>1, <2>2
<1>22. ASSUME NEW th \in Threads, SweepNext(th) PROVE RegistryComplete'
  BY <1>22 DEF SweepNext, Goto
<1>23. ASSUME NEW th \in Threads, SweepEnd(th) PROVE RegistryComplete'
  BY <1>23 DEF SweepEnd, Goto
<1>24. ASSUME NEW th \in Threads, CloseNative(th) PROVE RegistryComplete'
  BY <1>24 DEF CloseNative, Goto
<1>25. ASSUME NEW th \in Threads, ClearTransactions(th) PROVE RegistryComplete'
  BY <1>25 DEF ClearTransactions, Leave, Goto
<1>26. CASE UNCHANGED vars
  BY <1>26
<1>27. CASE FinalizeEnvironment
  BY <1>27 DEF FinalizeEnvironment
<1>28. ASSUME NEW th \in Threads, LockDatabase(th) PROVE RegistryComplete'
  BY <1>28 DEF LockDatabase, Leave, Goto
<1>29. ASSUME NEW th \in Threads, BeginDatabase(th) PROVE RegistryComplete'
  BY <1>29 DEF BeginDatabase, Leave, Goto
<1>30. ASSUME NEW th \in Threads, DatabaseTransactionClosed(th) PROVE RegistryComplete'
  BY <1>30 DEF DatabaseTransactionClosed, Return, Leave, Goto
<1>31. ASSUME NEW th \in Threads, ClearHandles(th) PROVE RegistryComplete'
  BY <1>31 DEF ClearHandles, Goto
<1>32. ASSUME NEW th \in Threads, ClearDatabases(th) PROVE RegistryComplete'
  BY <1>32 DEF ClearDatabases, Leave, Goto
<1>33. ASSUME NEW th \in Threads, NEW t \in Txns, BeginDatabaseTransaction(th, t) PROVE RegistryComplete'
  BY <1>33 DEF BeginDatabaseTransaction, Ask, Enter, Goto
<1> HIDE DEF RegistryInv, Keys, Tracked, RegistryComplete, RegistrySound, OwnershipInv,
      TypeOK, Focus, Exclusive, Objects, Live, Labels, NativeStates, BeginLabels,
      UseLabels, EndLabels, vars, managed, threads, nativeSt, history
<1>q. QED
  BY <1>1, <1>2, <1>3, <1>4, <1>5, <1>6, <1>7, <1>8, <1>9, <1>10, <1>11, <1>12,
     <1>13, <1>14, <1>15, <1>16, <1>17, <1>18, <1>19, <1>20, <1>21, <1>22, <1>23,
     <1>24, <1>25, <1>26, <1>27, <1>28, <1>29, <1>30, <1>31, <1>32, <1>33, Kinds
     DEF Next, Call, Step, Undefined, Collected, Hangs

\* The callback of a transaction takes its entry away.
LEMMA SoundStep == RegistryInv /\ OwnershipInv' /\ [Next]_vars => RegistrySound'
<1> SUFFICES ASSUME RegistryInv /\ OwnershipInv', [Next]_vars PROVE RegistrySound'
  OBVIOUS
<1> USE ConstantsAssumption DEF RegistryInv, Keys, Tracked, RegistryComplete, RegistrySound, OwnershipInv,
      TypeOK, Focus, Exclusive, Objects, Live, Labels, NativeStates, BeginLabels,
      UseLabels, EndLabels, vars, managed, threads, nativeSt, history
<1>1. ASSUME NEW th \in Threads, NEW t \in Txns, NEW m \in {"read", "write"}, BeginTransaction(th, t, m) PROVE RegistrySound'
  BY <1>1 DEF BeginTransaction, Ask, Enter, Goto
<1>2. ASSUME NEW th \in Threads, NEW t \in Txns, Commit(th, t) PROVE RegistrySound'
  BY <1>2 DEF Commit, Enter, Goto
<1>3. ASSUME NEW th \in Threads, NEW t \in Txns, Dispose(th, t) PROVE RegistrySound'
  BY <1>3 DEF Dispose, Enter, Goto
<1>4. ASSUME NEW th \in Threads, NEW t \in Txns, NEW label \in {"reset", "renew"}, UseReader(th, t, label) PROVE RegistrySound'
  BY <1>4 DEF UseReader, Enter, Goto
<1>5. ASSUME NEW th \in Threads, DisposeEnvironment(th) PROVE RegistrySound'
  BY <1>5 DEF DisposeEnvironment, Goto
<1>6. ASSUME NEW th \in Threads, DisposeEnvironmentAgain(th) PROVE RegistrySound'
  BY <1>6 DEF DisposeEnvironmentAgain, Enter, Goto
<1>7. ASSUME NEW th \in Threads, BeginWrite(th) PROVE RegistrySound'
  BY <1>7 DEF BeginWrite, Goto
<1>8. ASSUME NEW th \in Threads, BeginRead(th) PROVE RegistrySound'
  BY <1>8 DEF BeginRead, Goto
<1>9. ASSUME NEW th \in Threads, BeginFails(th) PROVE RegistrySound'
  BY <1>9 DEF BeginFails, Leave, Goto
<1>10. ASSUME NEW th \in Threads, GetOptions(th) PROVE RegistrySound'
  BY <1>10 DEF GetOptions, Leave, Goto
<1>11. ASSUME NEW th \in Threads, AddTransaction(th) PROVE RegistrySound'
  BY <1>11 DEF AddTransaction, Leave, Goto, IdTaken
<1>12. ASSUME NEW th \in Threads, ReturnUntracked(th) PROVE RegistrySound'
  BY <1>12 DEF ReturnUntracked, Leave, Goto, IdTaken
<1>13. ASSUME NEW th \in Threads, RefuseTransaction(th) PROVE RegistrySound'
  BY <1>13 DEF RefuseTransaction, Goto
<1>14. ASSUME NEW th \in Threads, DiscardTransaction(th) PROVE RegistrySound'
  BY <1>14 DEF DiscardTransaction, Leave, Goto
<1>15. ASSUME NEW th \in Threads, CommitClaim(th) PROVE RegistrySound'
  BY <1>15 DEF CommitClaim, Leave, Goto
<1>16. ASSUME NEW th \in Threads, CommitNative(th) PROVE RegistrySound'
  BY <1>16 DEF CommitNative, EndNative, Writes, Goto
<1>17. ASSUME NEW th \in Threads, CommitFails(th) PROVE RegistrySound'
  BY <1>17 DEF CommitFails, EndNative, Writes, Goto
<1>18. ASSUME NEW th \in Threads, AbortNative(th) PROVE RegistrySound'
  BY <1>18 DEF AbortNative, EndNative, Goto
<1>19. ASSUME NEW th \in Threads, TransactionDisposed(th) PROVE RegistrySound'
  BY <1>19 DEF TransactionDisposed, Return, Leave, Goto
<1>20. ASSUME NEW th \in Threads, ResetNative(th) PROVE RegistrySound'
  BY <1>20 DEF ResetNative, Leave, Goto
<1>21. ASSUME NEW th \in Threads, RenewNative(th) PROVE RegistrySound'
  <2>1. CASE moved'
    BY <1>21, <2>1 DEF RenewNative, Leave, Goto
  <2>2. CASE ~moved'
    <3>1. id' = id /\ ~moved /\ UNCHANGED <<transactions, txn, mode, env, noTls>>
      BY <1>21, <2>2 DEF RenewNative, Leave, Goto
    <3>2. \A other \in Threads : pc'[other] \in EndLabels \cup {"closing", "clearHandles", "closeNative", "clear", "clearDatabases"} =>
            pc'[other] = pc[other] /\ cur'[other] = cur[other]
      BY <1>21 DEF RenewNative, Leave, Goto
    <3>3. \A other \in Threads : pc[other] \in EndLabels =>
            pc'[other] = pc[other] /\ cur'[other] = cur[other]
      BY <1>21 DEF RenewNative, Leave, Goto
    <3>4. UNCHANGED closer
      BY <1>21 DEF RenewNative, Leave, Goto
    <3> QED
      BY <2>2, <3>1, <3>2, <3>3, <3>4
  <2> QED
    BY <2>1, <2>2
<1>22. ASSUME NEW th \in Threads, SweepNext(th) PROVE RegistrySound'
  BY <1>22 DEF SweepNext, Goto
<1>23. ASSUME NEW th \in Threads, SweepEnd(th) PROVE RegistrySound'
  BY <1>23 DEF SweepEnd, Goto
<1>24. ASSUME NEW th \in Threads, CloseNative(th) PROVE RegistrySound'
  BY <1>24 DEF CloseNative, Goto
<1>25. ASSUME NEW th \in Threads, ClearTransactions(th) PROVE RegistrySound'
  BY <1>25 DEF ClearTransactions, Leave, Goto
<1>26. CASE UNCHANGED vars
  BY <1>26
<1>27. CASE FinalizeEnvironment
  BY <1>27 DEF FinalizeEnvironment
<1>28. ASSUME NEW th \in Threads, LockDatabase(th) PROVE RegistrySound'
  BY <1>28 DEF LockDatabase, Leave, Goto
<1>29. ASSUME NEW th \in Threads, BeginDatabase(th) PROVE RegistrySound'
  BY <1>29 DEF BeginDatabase, Leave, Goto
<1>30. ASSUME NEW th \in Threads, DatabaseTransactionClosed(th) PROVE RegistrySound'
  BY <1>30 DEF DatabaseTransactionClosed, Return, Leave, Goto
<1>31. ASSUME NEW th \in Threads, ClearHandles(th) PROVE RegistrySound'
  BY <1>31 DEF ClearHandles, Goto
<1>32. ASSUME NEW th \in Threads, ClearDatabases(th) PROVE RegistrySound'
  BY <1>32 DEF ClearDatabases, Leave, Goto
<1>33. ASSUME NEW th \in Threads, NEW t \in Txns, BeginDatabaseTransaction(th, t) PROVE RegistrySound'
  BY <1>33 DEF BeginDatabaseTransaction, Ask, Enter, Goto
<1> HIDE DEF RegistryInv, Keys, Tracked, RegistryComplete, RegistrySound, OwnershipInv,
      TypeOK, Focus, Exclusive, Objects, Live, Labels, NativeStates, BeginLabels,
      UseLabels, EndLabels, vars, managed, threads, nativeSt, history
<1>q. QED
  BY <1>1, <1>2, <1>3, <1>4, <1>5, <1>6, <1>7, <1>8, <1>9, <1>10, <1>11, <1>12,
     <1>13, <1>14, <1>15, <1>16, <1>17, <1>18, <1>19, <1>20, <1>21, <1>22, <1>23,
     <1>24, <1>25, <1>26, <1>27, <1>28, <1>29, <1>30, <1>31, <1>32, <1>33, Kinds
     DEF Next, Call, Step, Undefined, Collected, Hangs

\* Nothing has begun.
LEMMA InitOwnership == Init => OwnershipInv
<1> SUFFICES ASSUME Init PROVE OwnershipInv
  OBVIOUS
<1> USE ConstantsAssumption DEF Init
<1>1. TypeOK
  <2>1. sweep \in [todo : SUBSET Txns, seen : SUBSET Txns]
    OBVIOUS
  <2>2. noTls \in BOOLEAN
    OBVIOUS
  <2>3. QED
    BY <2>1, <2>2 DEF TypeOK, Labels, NativeStates
<1>2. \A th \in Threads : pc[th] \notin BeginLabels \cup UseLabels \cup EndLabels
  BY DEF BeginLabels, UseLabels, EndLabels
<1>3. Focus /\ Exclusive
  <2> HIDE DEF Init
  <2> QED
    BY <1>2 DEF Focus, Exclusive, BeginLabels, UseLabels, EndLabels
<1>4. Objects
  BY DEF Objects
<1>5. QED
  BY <1>1, <1>3, <1>4 DEF OwnershipInv

\* What every reachable state satisfies: the strengthening of EndedByOneThread.
LEMMA Ownership == Spec => []OwnershipInv
<1>1. Init => OwnershipInv
  BY InitOwnership
<1>2. OwnershipInv /\ [Next]_vars => OwnershipInv'
  BY TypeStep, FocusStep, ExclusiveStep, ObjectsStep DEF OwnershipInv
<1>3. QED
  BY <1>1, <1>2, PTL DEF Spec

\* The variables keep their types.
THEOREM TypeCorrect == Spec => []TypeOK
<1>1. OwnershipInv => TypeOK
  BY DEF OwnershipInv
<1>2. QED
  BY <1>1, Ownership, PTL

\* A transaction is ended by one thread, while it is live, however many threads call Commit,
\* Abort and Dispose on it (Transaction.cs: Interlocked.Exchange).
THEOREM OneEnd == Spec => []EndedByOneThread
<1>1. OwnershipInv => EndedByOneThread
  <2> SUFFICES ASSUME OwnershipInv,
                      NEW th \in Threads, pc[th] \in {"commitNative", "abortNative"}
               PROVE  /\ Live(cur[th]) /\ txn[cur[th]] = "zero"
                      /\ \A other \in Threads \ {th} :
                           cur[other] = cur[th] => pc[other] \notin EndLabels
    BY DEF EndedByOneThread
  <2>1. Live(cur[th]) /\ txn[cur[th]] = "zero"
    BY DEF OwnershipInv, Focus, EndLabels
  <2>2. \A other \in Threads \ {th} : cur[other] = cur[th] => pc[other] \notin EndLabels
    BY DEF OwnershipInv, Exclusive, EndLabels
  <2> QED
    BY <2>1, <2>2
<1>2. QED
  BY <1>1, Ownership, PTL

\* What every reachable state satisfies: the strengthening of the two registry properties.
LEMMA Registry == Spec => []RegistryInv
<1>1. Init => RegistryInv
  <2>1. Init => OwnershipInv
    BY InitOwnership
  <2>2. Init => Keys /\ Tracked /\ RegistryComplete /\ RegistrySound
    BY DEF Init, Keys, Tracked, RegistryComplete, RegistrySound, EndLabels
  <2> QED
    BY <2>1, <2>2 DEF RegistryInv
<1>2. RegistryInv /\ OwnershipInv' /\ [Next]_vars => RegistryInv'
  BY KeysStep, TrackedStep, CompleteStep, SoundStep DEF RegistryInv
<1>3. QED
  BY <1>1, <1>2, Ownership, PTL DEF Spec

\* In an environment opened without MDB_NOTLS, and until a Renew changes an id, the
\* environment knows every open transaction (LmdbEnvironment.transactions).
THEOREM AllOpenRegistered == Spec => []RegistryComplete
<1>1. RegistryInv => RegistryComplete
  BY DEF RegistryInv
<1>2. QED
  BY <1>1, Registry, PTL

\* Until a Renew changes an id, the environment forgets every transaction that has ended.
THEOREM NothingLeftBehind == Spec => []RegistrySound
<1>1. RegistryInv => RegistrySound
  BY DEF RegistryInv
<1>2. QED
  BY <1>1, Registry, PTL
=============================================================================
