------------------------ MODULE TransactionSafetyProofs ------------------------
(***************************************************************************)
(* Disposing the environment is safe, for any number of threads and of     *)
(* transactions: no native transaction is lost, the sweep of               *)
(* LmdbEnvironment.Dispose misses none, and no freed handle is used.       *)
(***************************************************************************)
EXTENDS TransactionRegistryProofs

\* No call overlapped Dispose of the environment, which knows all transactions by their ids.
Calm == ~overlap /\ ~noTls /\ ~moved

\* How far the environment is: env, closer and mapped agree.
Phases ==
  /\ env => mapped /\ \A th \in Threads : pc[th] # "collected"
  /\ \A th \in Threads : pc[th] \in {"closing", "clearHandles", "closeNative"} => closer = th
  /\ closer # NoThread =>
       /\ pc[closer] \in {"closing", "abortNative", "disposed", "clearHandles", "closeNative", "clear",
                         "clearDatabases"}
       /\ pc[closer] \in {"clear", "clearDatabases"} => ~mapped
  /\ ~overlap /\ ~env => \A th \in Threads : pc[th] \notin BeginLabels

\* The thread that disposes the environment is alone, and afterwards nothing is left but database
\* transactions and who ends them.
Quiet ==
  Calm =>
    /\ closer # NoThread => \A th \in Threads \ {closer} : pc[th] = "idle"
    /\ ~env /\ closer = NoThread =>
         /\ ~mapped
         /\ \/ \A th \in Threads : pc[th] = "collected"
            \/ /\ \A th \in Threads :
                    \/ pc[th] \in {"idle", "clear", "clearDatabases"}
                    \/ pc[th] \in {"commit"} \cup EndLabels /\ mode[cur[th]] = "database"
               /\ \A t \in Txns : Live(t) => mode[t] = "database"

\* What is live, database transactions apart, is registered and still to be visited, or just being
\* ended; the transaction that is being ended is the one its entry names.
Swept ==
  Calm /\ closer # NoThread =>
    /\ pc[closer] \in {"closing", "abortNative", "disposed"} =>
         /\ mapped
         /\ \A t \in Txns : Live(t) /\ mode[t] # "database" =>
              /\ <<id[t], t>> \in transactions /\ t \in sweep.todo
              /\ t \in sweep.seen => cur[closer] = t /\ pc[closer] = "abortNative"
    /\ pc[closer] \in {"abortNative", "disposed"} => <<id[cur[closer]], cur[closer]>> \in transactions
    /\ pc[closer] \in {"clearHandles", "closeNative", "clear", "clearDatabases"} =>
         \A t \in Txns : Live(t) => mode[t] = "database"

\* Who waits in mdb_txn_begin for a database transaction has the lock, and Dispose takes the lock
\* before it closes the MDB_env: it then finds nobody there, and nobody comes when env is zero.
Locked ==
  \A th \in Threads : pc[th] = "begin" /\ mode[cur[th]] = "database" =>
    dbTxnLock = th /\ mapped /\ \A other \in Threads : pc[other] # "closeNative"

\* A thread that is about to use a transaction of its own finds it open.
Discipline ==
  Calm /\ ~shared => \A th \in Threads : pc[th] \in UseLabels => txn[cur[th]] = "open" /\ owner[cur[th]] = th

SafetyInv ==
  RegistryInv /\ NoNativeLeak /\ Phases /\ Quiet /\ Swept /\ Locked /\ Discipline /\ NoUseAfterFree
-----------------------------------------------------------------------------
\* No step of a call lets go of an MDB_txn without ending it or handing it out, unless GetOptions finds
\* the environment disposed.
LEMMA NoNativeLeakStep == SafetyInv /\ RegistryInv' /\ [Next]_vars => NoNativeLeak'
<1> SUFFICES ASSUME SafetyInv /\ RegistryInv', [Next]_vars PROVE NoNativeLeak'
  OBVIOUS
<1> USE ConstantsAssumption DEF SafetyInv, RegistryInv, OwnershipInv, Keys, NoNativeLeak, Phases, TypeOK,
      Focus, Exclusive, Objects, Live, Labels, NativeStates, BeginLabels, UseLabels, EndLabels, vars,
      managed, threads, nativeSt, history
<1>1. ASSUME NEW th \in Threads, NEW t \in Txns, NEW m \in {"read", "write"}, BeginTransaction(th, t, m) PROVE NoNativeLeak'
  BY <1>1 DEF BeginTransaction, Ask, Enter, Goto
<1>2. ASSUME NEW th \in Threads, NEW t \in Txns, Commit(th, t) PROVE NoNativeLeak'
  BY <1>2 DEF Commit, Enter, Goto
<1>3. ASSUME NEW th \in Threads, NEW t \in Txns, Dispose(th, t) PROVE NoNativeLeak'
  BY <1>3 DEF Dispose, Enter, Goto
<1>4. ASSUME NEW th \in Threads, NEW t \in Txns, NEW label \in {"reset", "renew"}, UseReader(th, t, label) PROVE NoNativeLeak'
  BY <1>4 DEF UseReader, Enter, Goto
<1>5. ASSUME NEW th \in Threads, DisposeEnvironment(th) PROVE NoNativeLeak'
  BY <1>5 DEF DisposeEnvironment, Goto
<1>6. ASSUME NEW th \in Threads, DisposeEnvironmentAgain(th) PROVE NoNativeLeak'
  BY <1>6 DEF DisposeEnvironmentAgain, Enter, Goto
<1>7. ASSUME NEW th \in Threads, BeginWrite(th) PROVE NoNativeLeak'
  BY <1>7 DEF BeginWrite, Goto
<1>8. ASSUME NEW th \in Threads, BeginRead(th) PROVE NoNativeLeak'
  BY <1>8 DEF BeginRead, Goto
<1>9. ASSUME NEW th \in Threads, BeginFails(th) PROVE NoNativeLeak'
  BY <1>9 DEF BeginFails, Leave, Goto
<1>10. ASSUME NEW th \in Threads, GetOptions(th) PROVE NoNativeLeak'
  <2>1. pc[th] = "options" /\ UNCHANGED <<overlap, native, txn>>
    BY <1>10 DEF GetOptions, Leave, Goto
  <2>2. overlap \/ env
    BY <2>1
  <2>3. CASE env
    BY <1>10, <2>3 DEF GetOptions, Leave, Goto
  <2> QED
    BY <2>1, <2>2, <2>3
<1>11. ASSUME NEW th \in Threads, AddTransaction(th) PROVE NoNativeLeak'
  BY <1>11 DEF AddTransaction, Leave, Goto
<1>12. ASSUME NEW th \in Threads, ReturnUntracked(th) PROVE NoNativeLeak'
  BY <1>12 DEF ReturnUntracked, Leave, Goto
<1>13. ASSUME NEW th \in Threads, RefuseTransaction(th) PROVE NoNativeLeak'
  BY <1>13 DEF RefuseTransaction, Goto
<1>14. ASSUME NEW th \in Threads, DiscardTransaction(th) PROVE NoNativeLeak'
  BY <1>14 DEF DiscardTransaction, Leave, Goto
<1>15. ASSUME NEW th \in Threads, CommitClaim(th) PROVE NoNativeLeak'
  BY <1>15 DEF CommitClaim, Leave, Goto
<1>16. ASSUME NEW th \in Threads, CommitNative(th) PROVE NoNativeLeak'
  BY <1>16 DEF CommitNative, EndNative, Writes, Goto
<1>17. ASSUME NEW th \in Threads, CommitFails(th) PROVE NoNativeLeak'
  BY <1>17 DEF CommitFails, EndNative, Writes, Goto
<1>18. ASSUME NEW th \in Threads, AbortNative(th) PROVE NoNativeLeak'
  BY <1>18 DEF AbortNative, EndNative, Goto
<1>19. ASSUME NEW th \in Threads, TransactionDisposed(th) PROVE NoNativeLeak'
  BY <1>19 DEF TransactionDisposed, Return, Leave, Goto
<1>20. ASSUME NEW th \in Threads, ResetNative(th) PROVE NoNativeLeak'
  BY <1>20 DEF ResetNative, Leave, Goto
<1>21. ASSUME NEW th \in Threads, RenewNative(th) PROVE NoNativeLeak'
  BY <1>21 DEF RenewNative, Leave, Goto
<1>22. ASSUME NEW th \in Threads, SweepNext(th) PROVE NoNativeLeak'
  BY <1>22 DEF SweepNext, Goto
<1>23. ASSUME NEW th \in Threads, SweepEnd(th) PROVE NoNativeLeak'
  BY <1>23 DEF SweepEnd, Goto
<1>24. ASSUME NEW th \in Threads, CloseNative(th) PROVE NoNativeLeak'
  BY <1>24 DEF CloseNative, Goto
<1>25. ASSUME NEW th \in Threads, ClearTransactions(th) PROVE NoNativeLeak'
  BY <1>25 DEF ClearTransactions, Leave, Goto
<1>26. CASE UNCHANGED vars
  BY <1>26
<1>27. CASE FinalizeEnvironment
  BY <1>27 DEF FinalizeEnvironment
<1>28. ASSUME NEW th \in Threads, LockDatabase(th) PROVE NoNativeLeak'
  BY <1>28 DEF LockDatabase, Leave, Goto
<1>29. ASSUME NEW th \in Threads, BeginDatabase(th) PROVE NoNativeLeak'
  BY <1>29 DEF BeginDatabase, Leave, Goto
<1>30. ASSUME NEW th \in Threads, DatabaseTransactionClosed(th) PROVE NoNativeLeak'
  BY <1>30 DEF DatabaseTransactionClosed, Return, Leave, Goto
<1>31. ASSUME NEW th \in Threads, ClearHandles(th) PROVE NoNativeLeak'
  BY <1>31 DEF ClearHandles, Goto
<1>32. ASSUME NEW th \in Threads, ClearDatabases(th) PROVE NoNativeLeak'
  BY <1>32 DEF ClearDatabases, Leave, Goto
<1>33. ASSUME NEW th \in Threads, NEW t \in Txns, BeginDatabaseTransaction(th, t) PROVE NoNativeLeak'
  BY <1>33 DEF BeginDatabaseTransaction, Ask, Enter, Goto
<1> HIDE DEF SafetyInv, RegistryInv, OwnershipInv, Keys, NoNativeLeak, Phases, TypeOK, Focus, Exclusive,
      Objects, Live, Labels, NativeStates, BeginLabels, UseLabels, EndLabels, vars, managed, threads,
      nativeSt, history
<1>q. QED
  BY <1>1, <1>2, <1>3, <1>4, <1>5, <1>6, <1>7, <1>8, <1>9, <1>10, <1>11, <1>12, <1>13,
     <1>14, <1>15, <1>16, <1>17, <1>18, <1>19, <1>20, <1>21, <1>22, <1>23, <1>24, <1>25,
     <1>26, <1>27, <1>28, <1>29, <1>30, <1>31, <1>32, <1>33, Kinds
     DEF Next, Call, Step, Undefined, Collected, Hangs

\* env, closer and the state of the MDB_env change together.
LEMMA PhasesStep == SafetyInv /\ RegistryInv' /\ [Next]_vars => Phases'
<1> SUFFICES ASSUME SafetyInv /\ RegistryInv', [Next]_vars PROVE Phases'
  OBVIOUS
<1> USE ConstantsAssumption DEF SafetyInv, RegistryInv, OwnershipInv, Keys, Phases, TypeOK, Focus, Exclusive,
      Objects, Live, Labels, NativeStates, BeginLabels, UseLabels, EndLabels, vars, managed, threads,
      nativeSt, history
<1>1. ASSUME NEW th \in Threads, NEW t \in Txns, NEW m \in {"read", "write"}, BeginTransaction(th, t, m) PROVE Phases'
  BY <1>1 DEF BeginTransaction, Ask, Enter, Goto
<1>2. ASSUME NEW th \in Threads, NEW t \in Txns, Commit(th, t) PROVE Phases'
  BY <1>2 DEF Commit, Enter, Goto
<1>3. ASSUME NEW th \in Threads, NEW t \in Txns, Dispose(th, t) PROVE Phases'
  BY <1>3 DEF Dispose, Enter, Goto
<1>4. ASSUME NEW th \in Threads, NEW t \in Txns, NEW label \in {"reset", "renew"}, UseReader(th, t, label) PROVE Phases'
  BY <1>4 DEF UseReader, Enter, Goto
<1>5. ASSUME NEW th \in Threads, DisposeEnvironment(th) PROVE Phases'
  <2>0. ~overlap' => ~overlap /\ \A other \in Threads \ {th} : pc[other] = "idle"
    BY <1>5 DEF DisposeEnvironment, Goto
  <2>1. /\ env /\ pc[th] = "idle" /\ closer' = th /\ ~env' /\ mapped' = mapped
        /\ pc' = [pc EXCEPT ![th] = "closing"]
    BY <1>5 DEF DisposeEnvironment, Goto
  <2>2. ~overlap' => \A o \in Threads : pc'[o] \notin BeginLabels
    BY <2>0, <2>1
  <2> QED
    BY <2>1, <2>2
<1>6. ASSUME NEW th \in Threads, DisposeEnvironmentAgain(th) PROVE Phases'
  BY <1>6 DEF DisposeEnvironmentAgain, Enter, Goto
<1>7. ASSUME NEW th \in Threads, BeginWrite(th) PROVE Phases'
  BY <1>7 DEF BeginWrite, Goto
<1>8. ASSUME NEW th \in Threads, BeginRead(th) PROVE Phases'
  BY <1>8 DEF BeginRead, Goto
<1>9. ASSUME NEW th \in Threads, BeginFails(th) PROVE Phases'
  BY <1>9 DEF BeginFails, Leave, Goto
<1>10. ASSUME NEW th \in Threads, GetOptions(th) PROVE Phases'
  BY <1>10 DEF GetOptions, Leave, Goto
<1>11. ASSUME NEW th \in Threads, AddTransaction(th) PROVE Phases'
  BY <1>11 DEF AddTransaction, Leave, Goto
<1>12. ASSUME NEW th \in Threads, ReturnUntracked(th) PROVE Phases'
  BY <1>12 DEF ReturnUntracked, Leave, Goto
<1>13. ASSUME NEW th \in Threads, RefuseTransaction(th) PROVE Phases'
  BY <1>13 DEF RefuseTransaction, Goto
<1>14. ASSUME NEW th \in Threads, DiscardTransaction(th) PROVE Phases'
  BY <1>14 DEF DiscardTransaction, Leave, Goto
<1>15. ASSUME NEW th \in Threads, CommitClaim(th) PROVE Phases'
  BY <1>15 DEF CommitClaim, Leave, Goto
<1>16. ASSUME NEW th \in Threads, CommitNative(th) PROVE Phases'
  BY <1>16 DEF CommitNative, EndNative, Writes, Goto
<1>17. ASSUME NEW th \in Threads, CommitFails(th) PROVE Phases'
  BY <1>17 DEF CommitFails, EndNative, Writes, Goto
<1>18. ASSUME NEW th \in Threads, AbortNative(th) PROVE Phases'
  BY <1>18 DEF AbortNative, EndNative, Goto
<1>19. ASSUME NEW th \in Threads, TransactionDisposed(th) PROVE Phases'
  BY <1>19 DEF TransactionDisposed, Return, Leave, Goto
<1>20. ASSUME NEW th \in Threads, ResetNative(th) PROVE Phases'
  BY <1>20 DEF ResetNative, Leave, Goto
<1>21. ASSUME NEW th \in Threads, RenewNative(th) PROVE Phases'
  BY <1>21 DEF RenewNative, Leave, Goto
<1>22. ASSUME NEW th \in Threads, SweepNext(th) PROVE Phases'
  BY <1>22 DEF SweepNext, Goto
<1>23. ASSUME NEW th \in Threads, SweepEnd(th) PROVE Phases'
  BY <1>23 DEF SweepEnd, Goto
<1>24. ASSUME NEW th \in Threads, CloseNative(th) PROVE Phases'
  BY <1>24 DEF CloseNative, Goto
<1>25. ASSUME NEW th \in Threads, ClearTransactions(th) PROVE Phases'
  BY <1>25 DEF ClearTransactions, Leave, Goto
<1>26. CASE UNCHANGED vars
  BY <1>26
<1>27. CASE FinalizeEnvironment
  BY <1>27 DEF FinalizeEnvironment
<1>28. ASSUME NEW th \in Threads, LockDatabase(th) PROVE Phases'
  BY <1>28 DEF LockDatabase, Leave, Goto
<1>29. ASSUME NEW th \in Threads, BeginDatabase(th) PROVE Phases'
  BY <1>29 DEF BeginDatabase, Leave, Goto
<1>30. ASSUME NEW th \in Threads, DatabaseTransactionClosed(th) PROVE Phases'
  BY <1>30 DEF DatabaseTransactionClosed, Return, Leave, Goto
<1>31. ASSUME NEW th \in Threads, ClearHandles(th) PROVE Phases'
  BY <1>31 DEF ClearHandles, Goto
<1>32. ASSUME NEW th \in Threads, ClearDatabases(th) PROVE Phases'
  BY <1>32 DEF ClearDatabases, Leave, Goto
<1>33. ASSUME NEW th \in Threads, NEW t \in Txns, BeginDatabaseTransaction(th, t) PROVE Phases'
  BY <1>33 DEF BeginDatabaseTransaction, Ask, Enter, Goto
<1> HIDE DEF SafetyInv, RegistryInv, OwnershipInv, Keys, Phases, TypeOK, Focus, Exclusive, Objects, Live,
      Labels, NativeStates, BeginLabels, UseLabels, EndLabels, vars, managed, threads, nativeSt, history
<1>q. QED
  BY <1>1, <1>2, <1>3, <1>4, <1>5, <1>6, <1>7, <1>8, <1>9, <1>10, <1>11, <1>12, <1>13,
     <1>14, <1>15, <1>16, <1>17, <1>18, <1>19, <1>20, <1>21, <1>22, <1>23, <1>24, <1>25,
     <1>26, <1>27, <1>28, <1>29, <1>30, <1>31, <1>32, <1>33, Kinds
     DEF Next, Call, Step, Undefined, Collected, Hangs

\* The lock is taken while env is set and kept through mdb_txn_begin; Dispose finds it free.
LEMMA LockedStep == SafetyInv /\ RegistryInv' /\ [Next]_vars => Locked'
<1> SUFFICES ASSUME SafetyInv /\ RegistryInv', [Next]_vars PROVE Locked'
  OBVIOUS
<1> USE ConstantsAssumption DEF SafetyInv, RegistryInv, OwnershipInv, Keys, Locked, Phases, TypeOK, Focus, Exclusive,
      Objects, Live, Labels, NativeStates, BeginLabels, UseLabels, EndLabels, vars, managed, threads,
      nativeSt, history
<1>1. ASSUME NEW th \in Threads, NEW t \in Txns, NEW m \in {"read", "write"}, BeginTransaction(th, t, m) PROVE Locked'
  BY <1>1 DEF BeginTransaction, Ask, Enter, Goto
<1>2. ASSUME NEW th \in Threads, NEW t \in Txns, Commit(th, t) PROVE Locked'
  BY <1>2 DEF Commit, Enter, Goto
<1>3. ASSUME NEW th \in Threads, NEW t \in Txns, Dispose(th, t) PROVE Locked'
  BY <1>3 DEF Dispose, Enter, Goto
<1>4. ASSUME NEW th \in Threads, NEW t \in Txns, NEW label \in {"reset", "renew"}, UseReader(th, t, label) PROVE Locked'
  BY <1>4 DEF UseReader, Enter, Goto
<1>5. ASSUME NEW th \in Threads, DisposeEnvironment(th) PROVE Locked'
  BY <1>5 DEF DisposeEnvironment, Goto
<1>6. ASSUME NEW th \in Threads, DisposeEnvironmentAgain(th) PROVE Locked'
  BY <1>6 DEF DisposeEnvironmentAgain, Enter, Goto
<1>7. ASSUME NEW th \in Threads, BeginWrite(th) PROVE Locked'
  BY <1>7 DEF BeginWrite, Goto
<1>8. ASSUME NEW th \in Threads, BeginRead(th) PROVE Locked'
  BY <1>8 DEF BeginRead, Goto
<1>9. ASSUME NEW th \in Threads, BeginFails(th) PROVE Locked'
  BY <1>9 DEF BeginFails, Leave, Goto
<1>10. ASSUME NEW th \in Threads, GetOptions(th) PROVE Locked'
  BY <1>10 DEF GetOptions, Leave, Goto
<1>11. ASSUME NEW th \in Threads, AddTransaction(th) PROVE Locked'
  BY <1>11 DEF AddTransaction, Leave, Goto
<1>12. ASSUME NEW th \in Threads, ReturnUntracked(th) PROVE Locked'
  BY <1>12 DEF ReturnUntracked, Leave, Goto
<1>13. ASSUME NEW th \in Threads, RefuseTransaction(th) PROVE Locked'
  BY <1>13 DEF RefuseTransaction, Goto
<1>14. ASSUME NEW th \in Threads, DiscardTransaction(th) PROVE Locked'
  BY <1>14 DEF DiscardTransaction, Leave, Goto
<1>15. ASSUME NEW th \in Threads, CommitClaim(th) PROVE Locked'
  BY <1>15 DEF CommitClaim, Leave, Goto
<1>16. ASSUME NEW th \in Threads, CommitNative(th) PROVE Locked'
  BY <1>16 DEF CommitNative, EndNative, Writes, Goto
<1>17. ASSUME NEW th \in Threads, CommitFails(th) PROVE Locked'
  BY <1>17 DEF CommitFails, EndNative, Writes, Goto
<1>18. ASSUME NEW th \in Threads, AbortNative(th) PROVE Locked'
  BY <1>18 DEF AbortNative, EndNative, Goto
<1>19. ASSUME NEW th \in Threads, TransactionDisposed(th) PROVE Locked'
  BY <1>19 DEF TransactionDisposed, Return, Leave, Goto
<1>20. ASSUME NEW th \in Threads, ResetNative(th) PROVE Locked'
  BY <1>20 DEF ResetNative, Leave, Goto
<1>21. ASSUME NEW th \in Threads, RenewNative(th) PROVE Locked'
  BY <1>21 DEF RenewNative, Leave, Goto
<1>22. ASSUME NEW th \in Threads, SweepNext(th) PROVE Locked'
  BY <1>22 DEF SweepNext, Goto
<1>23. ASSUME NEW th \in Threads, SweepEnd(th) PROVE Locked'
  BY <1>23 DEF SweepEnd, Goto
<1>24. ASSUME NEW th \in Threads, CloseNative(th) PROVE Locked'
  BY <1>24 DEF CloseNative, Goto
<1>25. ASSUME NEW th \in Threads, ClearTransactions(th) PROVE Locked'
  BY <1>25 DEF ClearTransactions, Leave, Goto
<1>26. CASE UNCHANGED vars
  BY <1>26
<1>27. CASE FinalizeEnvironment
  BY <1>27 DEF FinalizeEnvironment
<1>28. ASSUME NEW th \in Threads, LockDatabase(th) PROVE Locked'
  BY <1>28 DEF LockDatabase, Leave, Goto
<1>29. ASSUME NEW th \in Threads, BeginDatabase(th) PROVE Locked'
  BY <1>29 DEF BeginDatabase, Leave, Goto
<1>30. ASSUME NEW th \in Threads, DatabaseTransactionClosed(th) PROVE Locked'
  BY <1>30 DEF DatabaseTransactionClosed, Return, Leave, Goto
<1>31. ASSUME NEW th \in Threads, ClearHandles(th) PROVE Locked'
  BY <1>31 DEF ClearHandles, Goto
<1>32. ASSUME NEW th \in Threads, ClearDatabases(th) PROVE Locked'
  BY <1>32 DEF ClearDatabases, Leave, Goto
<1>33. ASSUME NEW th \in Threads, NEW t \in Txns, BeginDatabaseTransaction(th, t) PROVE Locked'
  BY <1>33 DEF BeginDatabaseTransaction, Ask, Enter, Goto
<1> HIDE DEF SafetyInv, RegistryInv, OwnershipInv, Keys, Locked, Phases, TypeOK, Focus, Exclusive, Objects,
      Live, Labels, NativeStates, BeginLabels, UseLabels, EndLabels, vars, managed, threads, nativeSt, history
<1>q. QED
  BY <1>1, <1>2, <1>3, <1>4, <1>5, <1>6, <1>7, <1>8, <1>9, <1>10, <1>11, <1>12, <1>13,
     <1>14, <1>15, <1>16, <1>17, <1>18, <1>19, <1>20, <1>21, <1>22, <1>23, <1>24, <1>25,
     <1>26, <1>27, <1>28, <1>29, <1>30, <1>31, <1>32, <1>33, Kinds
     DEF Next, Call, Step, Undefined, Collected, Hangs

\* A call that is made while the environment is disposed sets overlap; afterwards there is nothing to call.
LEMMA QuietStep == SafetyInv /\ RegistryInv' /\ [Next]_vars => Quiet'
<1> SUFFICES ASSUME SafetyInv /\ RegistryInv', [Next]_vars PROVE Quiet'
  OBVIOUS
<1> USE ConstantsAssumption DEF SafetyInv, RegistryInv, OwnershipInv, Keys, Calm, Quiet, Phases, Swept,
      NoNativeLeak, TypeOK, Focus, Exclusive, Objects, Live, Labels, NativeStates, BeginLabels, UseLabels,
      EndLabels, vars, managed, threads, nativeSt, history
<1>1. ASSUME NEW th \in Threads, NEW t \in Txns, NEW m \in {"read", "write"}, BeginTransaction(th, t, m) PROVE Quiet'
  BY <1>1 DEF BeginTransaction, Ask, Enter, Goto
<1>2. ASSUME NEW th \in Threads, NEW t \in Txns, Commit(th, t) PROVE Quiet'
  <2>0. ~overlap' => ~overlap /\ closer = NoThread
    BY <1>2 DEF Commit, Enter, Goto
  <2>1. /\ txn[t] = "open" /\ pc[th] = "idle" /\ pc' = [pc EXCEPT ![th] = "commit"] /\ cur' = [cur EXCEPT ![th] = t]
        /\ UNCHANGED <<env, noTls, moved, closer, mapped, native, mode>>
    BY <1>2 DEF Commit, Enter, Goto
  <2>2. SUFFICES ASSUME Calm', ~env PROVE Quiet'
    BY <2>0, <2>1
  <2>3. /\ ~mapped /\ \A u \in Txns : Live(u) => mode[u] = "database"
        /\ \A o \in Threads :
             \/ pc[o] \in {"idle", "clear", "clearDatabases"}
             \/ pc[o] \in {"commit"} \cup EndLabels /\ mode[cur[o]] = "database"
    BY <2>0, <2>1, <2>2
  <2>4. mode[t] = "database"
    BY <2>1, <2>3
  <2>5. \A o \in Threads :
          \/ pc'[o] \in {"idle", "clear", "clearDatabases"}
          \/ pc'[o] \in {"commit"} \cup EndLabels /\ mode'[cur'[o]] = "database"
    BY <2>1, <2>3, <2>4
  <2>6. ~mapped' /\ \A u \in Txns : Live(u)' => mode'[u] = "database"
    BY <2>1, <2>3
  <2> QED
    BY <2>0, <2>1, <2>2, <2>5, <2>6
<1>3. ASSUME NEW th \in Threads, NEW t \in Txns, Dispose(th, t) PROVE Quiet'
  <2>0. ~overlap' => ~overlap /\ closer = NoThread
    BY <1>3 DEF Dispose, Enter, Goto
  <2>1. /\ txn[t] = "open" /\ pc[th] = "idle" /\ pc' = [pc EXCEPT ![th] = "abortNative"] /\ cur' = [cur EXCEPT ![th] = t]
        /\ UNCHANGED <<env, noTls, moved, closer, mapped, native, mode>>
    BY <1>3 DEF Dispose, Enter, Goto
  <2>2. SUFFICES ASSUME Calm', ~env PROVE Quiet'
    BY <2>0, <2>1
  <2>3. /\ ~mapped /\ \A u \in Txns : Live(u) => mode[u] = "database"
        /\ \A o \in Threads :
             \/ pc[o] \in {"idle", "clear", "clearDatabases"}
             \/ pc[o] \in {"commit"} \cup EndLabels /\ mode[cur[o]] = "database"
    BY <2>0, <2>1, <2>2
  <2>4. mode[t] = "database"
    BY <2>1, <2>3
  <2>5. \A o \in Threads :
          \/ pc'[o] \in {"idle", "clear", "clearDatabases"}
          \/ pc'[o] \in {"commit"} \cup EndLabels /\ mode'[cur'[o]] = "database"
    BY <2>1, <2>3, <2>4
  <2>6. ~mapped' /\ \A u \in Txns : Live(u)' => mode'[u] = "database"
    BY <2>1, <2>3
  <2> QED
    BY <2>0, <2>1, <2>2, <2>5, <2>6
<1>4. ASSUME NEW th \in Threads, NEW t \in Txns, NEW label \in {"reset", "renew"}, UseReader(th, t, label) PROVE Quiet'
  BY <1>4 DEF UseReader, Enter, Goto
<1>5. ASSUME NEW th \in Threads, DisposeEnvironment(th) PROVE Quiet'
  <2>0. ~overlap' => ~overlap /\ \A other \in Threads \ {th} : pc[other] = "idle"
    BY <1>5 DEF DisposeEnvironment, Goto
  <2>1. /\ closer' = th /\ pc' = [pc EXCEPT ![th] = "closing"]
        /\ noTls' = noTls /\ moved' = moved
    BY <1>5 DEF DisposeEnvironment, Goto
  <2>2. ~overlap' => \A o \in Threads \ {th} : pc'[o] = "idle"
    BY <2>0, <2>1
  <2> QED
    BY <2>1, <2>2
<1>6. ASSUME NEW th \in Threads, DisposeEnvironmentAgain(th) PROVE Quiet'
  <2>0. ~overlap' => ~overlap /\ closer = NoThread
    BY <1>6 DEF DisposeEnvironmentAgain, Enter, Goto
  <2>1. /\ ~env /\ pc[th] = "idle" /\ pc' = [pc EXCEPT ![th] = "clear"]
        /\ UNCHANGED <<env, noTls, moved, closer, mapped, native, cur, mode>>
    BY <1>6 DEF DisposeEnvironmentAgain, Enter, Goto
  <2>2. Calm' => /\ ~mapped /\ \A t \in Txns : Live(t) => mode[t] = "database"
                 /\ \A o \in Threads :
                      \/ pc[o] \in {"idle", "clear", "clearDatabases"}
                      \/ pc[o] \in {"commit"} \cup EndLabels /\ mode[cur[o]] = "database"
    BY <2>0, <2>1
  <2> QED
    BY <2>0, <2>1, <2>2
<1>7. ASSUME NEW th \in Threads, BeginWrite(th) PROVE Quiet'
  BY <1>7 DEF BeginWrite, Goto
<1>8. ASSUME NEW th \in Threads, BeginRead(th) PROVE Quiet'
  BY <1>8 DEF BeginRead, Goto
<1>9. ASSUME NEW th \in Threads, BeginFails(th) PROVE Quiet'
  BY <1>9 DEF BeginFails, Leave, Goto
<1>10. ASSUME NEW th \in Threads, GetOptions(th) PROVE Quiet'
  BY <1>10 DEF GetOptions, Leave, Goto
<1>11. ASSUME NEW th \in Threads, AddTransaction(th) PROVE Quiet'
  BY <1>11 DEF AddTransaction, Leave, Goto
<1>12. ASSUME NEW th \in Threads, ReturnUntracked(th) PROVE Quiet'
  BY <1>12 DEF ReturnUntracked, Leave, Goto
<1>13. ASSUME NEW th \in Threads, RefuseTransaction(th) PROVE Quiet'
  BY <1>13 DEF RefuseTransaction, Goto
<1>14. ASSUME NEW th \in Threads, DiscardTransaction(th) PROVE Quiet'
  BY <1>14 DEF DiscardTransaction, Leave, Goto
<1>15. ASSUME NEW th \in Threads, CommitClaim(th) PROVE Quiet'
  BY <1>15 DEF CommitClaim, Leave, Goto
<1>16. ASSUME NEW th \in Threads, CommitNative(th) PROVE Quiet'
  BY <1>16 DEF CommitNative, EndNative, Writes, Goto
<1>17. ASSUME NEW th \in Threads, CommitFails(th) PROVE Quiet'
  BY <1>17 DEF CommitFails, EndNative, Writes, Goto
<1>18. ASSUME NEW th \in Threads, AbortNative(th) PROVE Quiet'
  BY <1>18 DEF AbortNative, EndNative, Goto
<1>19. ASSUME NEW th \in Threads, TransactionDisposed(th) PROVE Quiet'
  BY <1>19 DEF TransactionDisposed, Return, Leave, Goto
<1>20. ASSUME NEW th \in Threads, ResetNative(th) PROVE Quiet'
  BY <1>20 DEF ResetNative, Leave, Goto
<1>21. ASSUME NEW th \in Threads, RenewNative(th) PROVE Quiet'
  BY <1>21 DEF RenewNative, Leave, Goto
<1>22. ASSUME NEW th \in Threads, SweepNext(th) PROVE Quiet'
  BY <1>22 DEF SweepNext, Goto
<1>23. ASSUME NEW th \in Threads, SweepEnd(th) PROVE Quiet'
  BY <1>23 DEF SweepEnd, Goto
<1>24. ASSUME NEW th \in Threads, CloseNative(th) PROVE Quiet'
  BY <1>24 DEF CloseNative, Goto
<1>25. ASSUME NEW th \in Threads, ClearTransactions(th) PROVE Quiet'
  BY <1>25 DEF ClearTransactions, Leave, Goto
<1>26. CASE UNCHANGED vars
  BY <1>26
<1>27. CASE FinalizeEnvironment
  BY <1>27 DEF FinalizeEnvironment
<1>28. ASSUME NEW th \in Threads, LockDatabase(th) PROVE Quiet'
  BY <1>28 DEF LockDatabase, Leave, Goto
<1>29. ASSUME NEW th \in Threads, BeginDatabase(th) PROVE Quiet'
  BY <1>29 DEF BeginDatabase, Leave, Goto
<1>30. ASSUME NEW th \in Threads, DatabaseTransactionClosed(th) PROVE Quiet'
  BY <1>30 DEF DatabaseTransactionClosed, Return, Leave, Goto
<1>31. ASSUME NEW th \in Threads, ClearHandles(th) PROVE Quiet'
  BY <1>31 DEF ClearHandles, Goto
<1>32. ASSUME NEW th \in Threads, ClearDatabases(th) PROVE Quiet'
  BY <1>32 DEF ClearDatabases, Leave, Goto
<1>33. ASSUME NEW th \in Threads, NEW t \in Txns, BeginDatabaseTransaction(th, t) PROVE Quiet'
  BY <1>33 DEF BeginDatabaseTransaction, Ask, Enter, Goto
<1> HIDE DEF SafetyInv, RegistryInv, OwnershipInv, Keys, Calm, Quiet, Phases, Swept, NoNativeLeak, TypeOK,
      Focus, Exclusive, Objects, Live, Labels, NativeStates, BeginLabels, UseLabels, EndLabels, vars,
      managed, threads, nativeSt, history
<1>q. QED
  BY <1>1, <1>2, <1>3, <1>4, <1>5, <1>6, <1>7, <1>8, <1>9, <1>10, <1>11, <1>12, <1>13,
     <1>14, <1>15, <1>16, <1>17, <1>18, <1>19, <1>20, <1>21, <1>22, <1>23, <1>24, <1>25,
     <1>26, <1>27, <1>28, <1>29, <1>30, <1>31, <1>32, <1>33, Kinds
     DEF Next, Call, Step, Undefined, Collected, Hangs

\* The sweep's set of transactions still to visit covers what is live, from the first step to the last.
LEMMA SweptStep == SafetyInv /\ RegistryInv' /\ [Next]_vars => Swept'
<1> SUFFICES ASSUME SafetyInv /\ RegistryInv', [Next]_vars PROVE Swept'
  OBVIOUS
<1> USE ConstantsAssumption DEF SafetyInv, RegistryInv, OwnershipInv, Keys, Calm, Swept, Quiet, Phases,
      NoNativeLeak, TypeOK, Focus, Exclusive, Objects, Live, Labels, NativeStates, BeginLabels, UseLabels,
      EndLabels, vars, managed, threads, nativeSt, history
<1>1. ASSUME NEW th \in Threads, NEW t \in Txns, NEW m \in {"read", "write"}, BeginTransaction(th, t, m) PROVE Swept'
  BY <1>1 DEF BeginTransaction, Ask, Enter, Goto
<1>2. ASSUME NEW th \in Threads, NEW t \in Txns, Commit(th, t) PROVE Swept'
  BY <1>2 DEF Commit, Enter, Goto
<1>3. ASSUME NEW th \in Threads, NEW t \in Txns, Dispose(th, t) PROVE Swept'
  BY <1>3 DEF Dispose, Enter, Goto
<1>4. ASSUME NEW th \in Threads, NEW t \in Txns, NEW label \in {"reset", "renew"}, UseReader(th, t, label) PROVE Swept'
  BY <1>4 DEF UseReader, Enter, Goto
<1>5. ASSUME NEW th \in Threads, DisposeEnvironment(th) PROVE Swept'
  <2> SUFFICES ASSUME Calm' PROVE Swept'
    OBVIOUS
  <2>0. ~overlap' => ~overlap /\ \A other \in Threads \ {th} : pc[other] = "idle"
    BY <1>5 DEF DisposeEnvironment, Goto
  <2>1. /\ env /\ pc[th] = "idle" /\ closer' = th /\ pc' = [pc EXCEPT ![th] = "closing"]
        /\ sweep'.todo = {t \in Txns : Registered(t)} /\ sweep'.seen = {}
        /\ UNCHANGED <<noTls, moved, mapped, native, txn, mode, id, cur, transactions>>
    BY <1>5 DEF DisposeEnvironment, Goto
  <2>2. ~overlap /\ ~noTls /\ ~moved /\ mapped
    BY <2>0, <2>1
  <2>3. ASSUME NEW t \in Txns, Live(t) PROVE txn[t] = "open"
    BY <2>0, <2>1, <2>2, <2>3
  <2>4. ASSUME NEW t \in Txns, Live(t), mode[t] # "database" PROVE <<id[t], t>> \in transactions
    BY <2>1, <2>2, <2>3, <2>4 DEF RegistryComplete
  <2>5. ASSUME NEW t \in Txns, Live(t), mode[t] # "database" PROVE t \in sweep'.todo
    <3>1. <<id[t], t>> \in transactions
      BY <2>4, <2>5
    <3>2. Registered(t)
      BY <3>1 DEF Registered
    <3> QED
      BY <2>1, <3>2
  <2>6. \A t \in Txns : Live(t)' => Live(t)
    BY <2>1
  <2> QED
    BY <2>1, <2>2, <2>4, <2>5, <2>6
<1>6. ASSUME NEW th \in Threads, DisposeEnvironmentAgain(th) PROVE Swept'
  BY <1>6 DEF DisposeEnvironmentAgain, Enter, Goto
<1>7. ASSUME NEW th \in Threads, BeginWrite(th) PROVE Swept'
  BY <1>7 DEF BeginWrite, Goto
<1>8. ASSUME NEW th \in Threads, BeginRead(th) PROVE Swept'
  BY <1>8 DEF BeginRead, Goto
<1>9. ASSUME NEW th \in Threads, BeginFails(th) PROVE Swept'
  BY <1>9 DEF BeginFails, Leave, Goto
<1>10. ASSUME NEW th \in Threads, GetOptions(th) PROVE Swept'
  BY <1>10 DEF GetOptions, Leave, Goto
<1>11. ASSUME NEW th \in Threads, AddTransaction(th) PROVE Swept'
  BY <1>11 DEF AddTransaction, Leave, Goto
<1>12. ASSUME NEW th \in Threads, ReturnUntracked(th) PROVE Swept'
  BY <1>12 DEF ReturnUntracked, Leave, Goto
<1>13. ASSUME NEW th \in Threads, RefuseTransaction(th) PROVE Swept'
  BY <1>13 DEF RefuseTransaction, Goto
<1>14. ASSUME NEW th \in Threads, DiscardTransaction(th) PROVE Swept'
  BY <1>14 DEF DiscardTransaction, Leave, Goto
<1>15. ASSUME NEW th \in Threads, CommitClaim(th) PROVE Swept'
  BY <1>15 DEF CommitClaim, Leave, Goto
<1>16. ASSUME NEW th \in Threads, CommitNative(th) PROVE Swept'
  BY <1>16 DEF CommitNative, EndNative, Writes, Goto
<1>17. ASSUME NEW th \in Threads, CommitFails(th) PROVE Swept'
  BY <1>17 DEF CommitFails, EndNative, Writes, Goto
<1>18. ASSUME NEW th \in Threads, AbortNative(th) PROVE Swept'
  BY <1>18 DEF AbortNative, EndNative, Goto
<1>19. ASSUME NEW th \in Threads, TransactionDisposed(th) PROVE Swept'
  BY <1>19 DEF TransactionDisposed, Return, Leave, Goto
<1>20. ASSUME NEW th \in Threads, ResetNative(th) PROVE Swept'
  BY <1>20 DEF ResetNative, Leave, Goto
<1>21. ASSUME NEW th \in Threads, RenewNative(th) PROVE Swept'
  BY <1>21 DEF RenewNative, Leave, Goto
<1>22. ASSUME NEW th \in Threads, SweepNext(th) PROVE Swept'
  BY <1>22 DEF SweepNext, Goto
<1>23. ASSUME NEW th \in Threads, SweepEnd(th) PROVE Swept'
  <2> SUFFICES ASSUME Calm' PROVE Swept'
    OBVIOUS
  <2>1. /\ pc[th] = "closing" /\ pc' = [pc EXCEPT ![th] = "clearHandles"]
        /\ \A t \in sweep.todo : Registered(t) => t \in sweep.seen
        /\ UNCHANGED <<overlap, noTls, moved, closer, native, mode, id, cur, transactions>>
    BY <1>23 DEF SweepEnd, Goto
  <2>2. closer = th
    BY <2>1
  <2>3. ASSUME NEW t \in Txns, Live(t), mode[t] # "database" PROVE FALSE
    <3>1. <<id[t], t>> \in transactions /\ t \in sweep.todo /\ t \notin sweep.seen
      BY <2>1, <2>2, <2>3
    <3>2. Registered(t)
      BY <3>1 DEF Registered
    <3> QED
      BY <2>1, <3>1, <3>2
  <2> QED
    BY <2>1, <2>2, <2>3
<1>24. ASSUME NEW th \in Threads, CloseNative(th) PROVE Swept'
  BY <1>24 DEF CloseNative, Goto
<1>25. ASSUME NEW th \in Threads, ClearTransactions(th) PROVE Swept'
  BY <1>25 DEF ClearTransactions, Leave, Goto
<1>26. CASE UNCHANGED vars
  BY <1>26
<1>27. CASE FinalizeEnvironment
  BY <1>27 DEF FinalizeEnvironment
<1>28. ASSUME NEW th \in Threads, LockDatabase(th) PROVE Swept'
  BY <1>28 DEF LockDatabase, Leave, Goto
<1>29. ASSUME NEW th \in Threads, BeginDatabase(th) PROVE Swept'
  BY <1>29 DEF BeginDatabase, Leave, Goto
<1>30. ASSUME NEW th \in Threads, DatabaseTransactionClosed(th) PROVE Swept'
  BY <1>30 DEF DatabaseTransactionClosed, Return, Leave, Goto
<1>31. ASSUME NEW th \in Threads, ClearHandles(th) PROVE Swept'
  BY <1>31 DEF ClearHandles, Goto
<1>32. ASSUME NEW th \in Threads, ClearDatabases(th) PROVE Swept'
  BY <1>32 DEF ClearDatabases, Leave, Goto
<1>33. ASSUME NEW th \in Threads, NEW t \in Txns, BeginDatabaseTransaction(th, t) PROVE Swept'
  BY <1>33 DEF BeginDatabaseTransaction, Ask, Enter, Goto
<1> HIDE DEF SafetyInv, RegistryInv, OwnershipInv, Keys, Calm, Swept, Quiet, Phases, NoNativeLeak, TypeOK,
      Focus, Exclusive, Objects, Live, Labels, NativeStates, BeginLabels, UseLabels, EndLabels, vars,
      managed, threads, nativeSt, history
<1>q. QED
  BY <1>1, <1>2, <1>3, <1>4, <1>5, <1>6, <1>7, <1>8, <1>9, <1>10, <1>11, <1>12, <1>13,
     <1>14, <1>15, <1>16, <1>17, <1>18, <1>19, <1>20, <1>21, <1>22, <1>23, <1>24, <1>25,
     <1>26, <1>27, <1>28, <1>29, <1>30, <1>31, <1>32, <1>33, Kinds
     DEF Next, Call, Step, Undefined, Collected, Hangs

\* Only a transaction's own thread, or the sweep when it is alone, takes the transaction out of service.
LEMMA DisciplineStep == SafetyInv /\ RegistryInv' /\ [Next]_vars => Discipline'
<1> SUFFICES ASSUME SafetyInv /\ RegistryInv', [Next]_vars PROVE Discipline'
  OBVIOUS
<1> USE ConstantsAssumption DEF SafetyInv, RegistryInv, OwnershipInv, Keys, Calm, Discipline, Quiet, Phases,
      TypeOK, Focus, Exclusive, Objects, Live, Labels, NativeStates, BeginLabels, UseLabels, EndLabels, vars,
      managed, threads, nativeSt, history
<1>1. ASSUME NEW th \in Threads, NEW t \in Txns, NEW m \in {"read", "write"}, BeginTransaction(th, t, m) PROVE Discipline'
  <2>1. /\ mode[t] = "none" /\ cur' = [cur EXCEPT ![th] = t] /\ pc' = [pc EXCEPT ![th] = "begin"]
        /\ owner' = [owner EXCEPT ![t] = th] /\ pc[th] = "idle"
        /\ UNCHANGED <<txn, shared, noTls, moved>>
    BY <1>1 DEF BeginTransaction, Ask, Enter, Goto
  <2>2. ~overlap' => ~overlap
    BY <1>1 DEF BeginTransaction, Ask, Enter, Goto
  <2>3. ASSUME Calm', ~shared', NEW o \in Threads, pc'[o] \in UseLabels
        PROVE  txn'[cur'[o]] = "open" /\ owner'[cur'[o]] = o
    <3>1. o # th /\ pc[o] \in UseLabels /\ cur'[o] = cur[o]
      BY <2>1, <2>3
    <3>2. txn[cur[o]] = "open" /\ owner[cur[o]] = o
      BY <2>1, <2>2, <2>3, <3>1
    <3>3. cur[o] \in Txns /\ cur[o] # t
      BY <2>1, <3>1, <3>2
    <3> QED
      BY <2>1, <3>1, <3>2, <3>3
  <2> QED
    BY <2>3
<1>2. ASSUME NEW th \in Threads, NEW t \in Txns, Commit(th, t) PROVE Discipline'
  <2>1. /\ txn[t] = "open" /\ cur' = [cur EXCEPT ![th] = t] /\ pc' = [pc EXCEPT ![th] = "commit"]
        /\ UNCHANGED <<txn, owner, noTls, moved>>
    BY <1>2 DEF Commit, Enter, Goto
  <2>2. /\ ~overlap' => ~overlap
        /\ ~shared' => ~shared /\ owner[t] = th
    BY <1>2 DEF Commit, Enter, Goto
  <2> QED
    BY <2>1, <2>2
<1>3. ASSUME NEW th \in Threads, NEW t \in Txns, Dispose(th, t) PROVE Discipline'
  <2>1. /\ cur' = [cur EXCEPT ![th] = t] /\ pc' = [pc EXCEPT ![th] = "abortNative"]
        /\ txn' = [txn EXCEPT ![t] = "zero"] /\ UNCHANGED <<owner, noTls, moved>>
    BY <1>3 DEF Dispose, Enter, Goto
  <2>2. /\ ~overlap' => ~overlap
        /\ ~shared' => ~shared /\ owner[t] = th
    BY <1>3 DEF Dispose, Enter, Goto
  <2> QED
    BY <2>1, <2>2
<1>4. ASSUME NEW th \in Threads, NEW t \in Txns, NEW label \in {"reset", "renew"}, UseReader(th, t, label) PROVE Discipline'
  BY <1>4 DEF UseReader, Enter, Goto
<1>5. ASSUME NEW th \in Threads, DisposeEnvironment(th) PROVE Discipline'
  BY <1>5 DEF DisposeEnvironment, Goto
<1>6. ASSUME NEW th \in Threads, DisposeEnvironmentAgain(th) PROVE Discipline'
  BY <1>6 DEF DisposeEnvironmentAgain, Enter, Goto
<1>7. ASSUME NEW th \in Threads, BeginWrite(th) PROVE Discipline'
  BY <1>7 DEF BeginWrite, Goto
<1>8. ASSUME NEW th \in Threads, BeginRead(th) PROVE Discipline'
  BY <1>8 DEF BeginRead, Goto
<1>9. ASSUME NEW th \in Threads, BeginFails(th) PROVE Discipline'
  BY <1>9 DEF BeginFails, Leave, Goto
<1>10. ASSUME NEW th \in Threads, GetOptions(th) PROVE Discipline'
  BY <1>10 DEF GetOptions, Leave, Goto
<1>11. ASSUME NEW th \in Threads, AddTransaction(th) PROVE Discipline'
  BY <1>11 DEF AddTransaction, Leave, Goto
<1>12. ASSUME NEW th \in Threads, ReturnUntracked(th) PROVE Discipline'
  BY <1>12 DEF ReturnUntracked, Leave, Goto
<1>13. ASSUME NEW th \in Threads, RefuseTransaction(th) PROVE Discipline'
  BY <1>13 DEF RefuseTransaction, Goto
<1>14. ASSUME NEW th \in Threads, DiscardTransaction(th) PROVE Discipline'
  BY <1>14 DEF DiscardTransaction, Leave, Goto
<1>15. ASSUME NEW th \in Threads, CommitClaim(th) PROVE Discipline'
  BY <1>15 DEF CommitClaim, Leave, Goto
<1>16. ASSUME NEW th \in Threads, CommitNative(th) PROVE Discipline'
  BY <1>16 DEF CommitNative, EndNative, Writes, Goto
<1>17. ASSUME NEW th \in Threads, CommitFails(th) PROVE Discipline'
  BY <1>17 DEF CommitFails, EndNative, Writes, Goto
<1>18. ASSUME NEW th \in Threads, AbortNative(th) PROVE Discipline'
  BY <1>18 DEF AbortNative, EndNative, Goto
<1>19. ASSUME NEW th \in Threads, TransactionDisposed(th) PROVE Discipline'
  BY <1>19 DEF TransactionDisposed, Return, Leave, Goto
<1>20. ASSUME NEW th \in Threads, ResetNative(th) PROVE Discipline'
  BY <1>20 DEF ResetNative, Leave, Goto
<1>21. ASSUME NEW th \in Threads, RenewNative(th) PROVE Discipline'
  BY <1>21 DEF RenewNative, Leave, Goto
<1>22. ASSUME NEW th \in Threads, SweepNext(th) PROVE Discipline'
  BY <1>22 DEF SweepNext, Goto
<1>23. ASSUME NEW th \in Threads, SweepEnd(th) PROVE Discipline'
  BY <1>23 DEF SweepEnd, Goto
<1>24. ASSUME NEW th \in Threads, CloseNative(th) PROVE Discipline'
  BY <1>24 DEF CloseNative, Goto
<1>25. ASSUME NEW th \in Threads, ClearTransactions(th) PROVE Discipline'
  BY <1>25 DEF ClearTransactions, Leave, Goto
<1>26. CASE UNCHANGED vars
  BY <1>26
<1>27. CASE FinalizeEnvironment
  BY <1>27 DEF FinalizeEnvironment
<1>28. ASSUME NEW th \in Threads, LockDatabase(th) PROVE Discipline'
  BY <1>28 DEF LockDatabase, Leave, Goto
<1>29. ASSUME NEW th \in Threads, BeginDatabase(th) PROVE Discipline'
  BY <1>29 DEF BeginDatabase, Leave, Goto
<1>30. ASSUME NEW th \in Threads, DatabaseTransactionClosed(th) PROVE Discipline'
  BY <1>30 DEF DatabaseTransactionClosed, Return, Leave, Goto
<1>31. ASSUME NEW th \in Threads, ClearHandles(th) PROVE Discipline'
  BY <1>31 DEF ClearHandles, Goto
<1>32. ASSUME NEW th \in Threads, ClearDatabases(th) PROVE Discipline'
  BY <1>32 DEF ClearDatabases, Leave, Goto
<1>33. ASSUME NEW th \in Threads, NEW t \in Txns, BeginDatabaseTransaction(th, t) PROVE Discipline'
  <2>1. /\ mode[t] = "none" /\ cur' = [cur EXCEPT ![th] = t] /\ pc' = [pc EXCEPT ![th] = "beginDatabase"]
        /\ owner' = [owner EXCEPT ![t] = th] /\ pc[th] = "idle"
        /\ UNCHANGED <<txn, shared, noTls, moved>>
    BY <1>33 DEF BeginDatabaseTransaction, Ask, Enter, Goto
  <2>2. ~overlap' => ~overlap
    BY <1>33 DEF BeginDatabaseTransaction, Ask, Enter, Goto
  <2>3. ASSUME Calm', ~shared', NEW o \in Threads, pc'[o] \in UseLabels
        PROVE  txn'[cur'[o]] = "open" /\ owner'[cur'[o]] = o
    <3>1. o # th /\ pc[o] \in UseLabels /\ cur'[o] = cur[o]
      BY <2>1, <2>3
    <3>2. txn[cur[o]] = "open" /\ owner[cur[o]] = o
      BY <2>1, <2>2, <2>3, <3>1
    <3>3. cur[o] \in Txns /\ cur[o] # t
      BY <2>1, <3>1, <3>2
    <3> QED
      BY <2>1, <3>1, <3>2, <3>3
  <2> QED
    BY <2>3
<1> HIDE DEF SafetyInv, RegistryInv, OwnershipInv, Keys, Calm, Discipline, Quiet, Phases, TypeOK, Focus,
      Exclusive, Objects, Live, Labels, NativeStates, BeginLabels, UseLabels, EndLabels, vars, managed,
      threads, nativeSt, history
<1>q. QED
  BY <1>1, <1>2, <1>3, <1>4, <1>5, <1>6, <1>7, <1>8, <1>9, <1>10, <1>11, <1>12, <1>13,
     <1>14, <1>15, <1>16, <1>17, <1>18, <1>19, <1>20, <1>21, <1>22, <1>23, <1>24, <1>25,
     <1>26, <1>27, <1>28, <1>29, <1>30, <1>31, <1>32, <1>33, Kinds
     DEF Next, Call, Step, Undefined, Collected, Hangs

\* A native end that finds the MDB_env closed ends a database transaction.
LEMMA EndingAfterClose ==
  ASSUME SafetyInv, NEW th \in Threads, pc[th] \in {"commitNative", "abortNative"}, ~mapped, Calm
  PROVE  mode[cur[th]] = "database"
<1> USE ConstantsAssumption DEF SafetyInv, RegistryInv, OwnershipInv, TypeOK
<1>1. ~env
  BY DEF Phases
<1>2. closer # th
  BY DEF Phases, Swept
<1>3. closer = NoThread
  BY <1>2 DEF Quiet
<1> QED
  BY <1>1, <1>3 DEF Quiet, EndLabels

\* Each native call finds the environment mapped and its transaction live, or ends a database transaction
\* that the environment's Dispose did not find; nothing follows a fault.
LEMMA NoUseAfterFreeStep == SafetyInv /\ RegistryInv' /\ [Next]_vars => NoUseAfterFree'
<1> SUFFICES ASSUME SafetyInv /\ RegistryInv', [Next]_vars PROVE NoUseAfterFree'
  OBVIOUS
<1> USE ConstantsAssumption DEF SafetyInv, RegistryInv, OwnershipInv, Keys, Calm, NoUseAfterFree, EndedOutlived, Discipline,
      Quiet, Swept, Phases, TypeOK, Focus, Exclusive, Objects, Live, Labels, NativeStates, BeginLabels,
      UseLabels, EndLabels, vars, managed, threads, nativeSt, history
<1>0. CASE fault
  <2>1. UNCHANGED vars \/ FinalizeEnvironment
    BY <1>0 DEF Next, Undefined, Collected, Hangs
  <2>2. CASE UNCHANGED vars
    BY <2>2
  <2>3. CASE FinalizeEnvironment
    BY <2>3 DEF FinalizeEnvironment
  <2> QED
    BY <2>1, <2>2, <2>3
<1> SUFFICES ASSUME ~fault PROVE NoUseAfterFree'
  BY <1>0
<1>1. ASSUME NEW th \in Threads, NEW t \in Txns, NEW m \in {"read", "write"}, BeginTransaction(th, t, m) PROVE NoUseAfterFree'
  BY <1>1 DEF BeginTransaction, Ask, Enter, Goto
<1>2. ASSUME NEW th \in Threads, NEW t \in Txns, Commit(th, t) PROVE NoUseAfterFree'
  BY <1>2 DEF Commit, Enter, Goto
<1>3. ASSUME NEW th \in Threads, NEW t \in Txns, Dispose(th, t) PROVE NoUseAfterFree'
  BY <1>3 DEF Dispose, Enter, Goto
<1>4. ASSUME NEW th \in Threads, NEW t \in Txns, NEW label \in {"reset", "renew"}, UseReader(th, t, label) PROVE NoUseAfterFree'
  BY <1>4 DEF UseReader, Enter, Goto
<1>5. ASSUME NEW th \in Threads, DisposeEnvironment(th) PROVE NoUseAfterFree'
  BY <1>5 DEF DisposeEnvironment, Goto
<1>6. ASSUME NEW th \in Threads, DisposeEnvironmentAgain(th) PROVE NoUseAfterFree'
  BY <1>6 DEF DisposeEnvironmentAgain, Enter, Goto
<1>7. ASSUME NEW th \in Threads, BeginWrite(th) PROVE NoUseAfterFree'
  BY <1>7 DEF BeginWrite, Goto
<1>8. ASSUME NEW th \in Threads, BeginRead(th) PROVE NoUseAfterFree'
  BY <1>8 DEF BeginRead, Goto
<1>9. ASSUME NEW th \in Threads, BeginFails(th) PROVE NoUseAfterFree'
  <2>1. pc[th] = "begin" /\ (fault' => fault \/ ~mapped)
        /\ UNCHANGED <<overlap, shared, noTls, moved>>
    BY <1>9 DEF BeginFails, Leave, Goto
  <2>2. overlap \/ env
    BY <2>1
  <2>3. mapped \/ overlap
    BY <2>2
  <2> QED
    BY <2>1, <2>3
<1>10. ASSUME NEW th \in Threads, GetOptions(th) PROVE NoUseAfterFree'
  BY <1>10 DEF GetOptions, Leave, Goto
<1>11. ASSUME NEW th \in Threads, AddTransaction(th) PROVE NoUseAfterFree'
  BY <1>11 DEF AddTransaction, Leave, Goto
<1>12. ASSUME NEW th \in Threads, ReturnUntracked(th) PROVE NoUseAfterFree'
  BY <1>12 DEF ReturnUntracked, Leave, Goto
<1>13. ASSUME NEW th \in Threads, RefuseTransaction(th) PROVE NoUseAfterFree'
  BY <1>13 DEF RefuseTransaction, Goto
<1>14. ASSUME NEW th \in Threads, DiscardTransaction(th) PROVE NoUseAfterFree'
  BY <1>14 DEF DiscardTransaction, Leave, Goto
<1>15. ASSUME NEW th \in Threads, CommitClaim(th) PROVE NoUseAfterFree'
  BY <1>15 DEF CommitClaim, Leave, Goto
<1>16. ASSUME NEW th \in Threads, CommitNative(th) PROVE NoUseAfterFree'
  <2>1. /\ pc[th] = "commitNative" /\ pc' = [pc EXCEPT ![th] = "disposed"] /\ (fault' => ~mapped \/ ~Live(cur[th]))
        /\ UNCHANGED <<overlap, shared, noTls, moved, cur, mode, mapped>>
    BY <1>16 DEF CommitNative, EndNative, Writes, Goto
  <2>2. fault' => ~mapped
    BY <2>1
  <2>3. ~mapped /\ Calm => mode[cur[th]] = "database"
    BY <2>1, EndingAfterClose
  <2> QED
    BY <2>1, <2>2, <2>3
<1>17. ASSUME NEW th \in Threads, CommitFails(th) PROVE NoUseAfterFree'
  <2>1. /\ pc[th] = "commitNative" /\ pc' = [pc EXCEPT ![th] = "disposed"] /\ (fault' => ~mapped \/ ~Live(cur[th]))
        /\ UNCHANGED <<overlap, shared, noTls, moved, cur, mode, mapped>>
    BY <1>17 DEF CommitFails, EndNative, Writes, Goto
  <2>2. fault' => ~mapped
    BY <2>1
  <2>3. ~mapped /\ Calm => mode[cur[th]] = "database"
    BY <2>1, EndingAfterClose
  <2> QED
    BY <2>1, <2>2, <2>3
<1>18. ASSUME NEW th \in Threads, AbortNative(th) PROVE NoUseAfterFree'
  <2>1. /\ pc[th] = "abortNative" /\ pc' = [pc EXCEPT ![th] = "disposed"] /\ (fault' => ~mapped \/ ~Live(cur[th]))
        /\ UNCHANGED <<overlap, shared, noTls, moved, cur, mode, mapped>>
    BY <1>18 DEF AbortNative, EndNative, Goto
  <2>2. fault' => ~mapped
    BY <2>1
  <2>3. ~mapped /\ Calm => mode[cur[th]] = "database"
    BY <2>1, EndingAfterClose
  <2> QED
    BY <2>1, <2>2, <2>3
<1>19. ASSUME NEW th \in Threads, TransactionDisposed(th) PROVE NoUseAfterFree'
  BY <1>19 DEF TransactionDisposed, Return, Leave, Goto
<1>20. ASSUME NEW th \in Threads, ResetNative(th) PROVE NoUseAfterFree'
  BY <1>20 DEF ResetNative, Leave, Goto
<1>21. ASSUME NEW th \in Threads, RenewNative(th) PROVE NoUseAfterFree'
  BY <1>21 DEF RenewNative, Leave, Goto
<1>22. ASSUME NEW th \in Threads, SweepNext(th) PROVE NoUseAfterFree'
  BY <1>22 DEF SweepNext, Goto
<1>23. ASSUME NEW th \in Threads, SweepEnd(th) PROVE NoUseAfterFree'
  BY <1>23 DEF SweepEnd, Goto
<1>24. ASSUME NEW th \in Threads, CloseNative(th) PROVE NoUseAfterFree'
  BY <1>24 DEF CloseNative, Goto
<1>25. ASSUME NEW th \in Threads, ClearTransactions(th) PROVE NoUseAfterFree'
  BY <1>25 DEF ClearTransactions, Leave, Goto
<1>26. CASE UNCHANGED vars
  BY <1>26
<1>27. CASE FinalizeEnvironment
  BY <1>27 DEF FinalizeEnvironment
<1>28. ASSUME NEW th \in Threads, LockDatabase(th) PROVE NoUseAfterFree'
  BY <1>28 DEF LockDatabase, Leave, Goto
<1>29. ASSUME NEW th \in Threads, BeginDatabase(th) PROVE NoUseAfterFree'
  BY <1>29 DEF BeginDatabase, Leave, Goto
<1>30. ASSUME NEW th \in Threads, DatabaseTransactionClosed(th) PROVE NoUseAfterFree'
  BY <1>30 DEF DatabaseTransactionClosed, Return, Leave, Goto
<1>31. ASSUME NEW th \in Threads, ClearHandles(th) PROVE NoUseAfterFree'
  BY <1>31 DEF ClearHandles, Goto
<1>32. ASSUME NEW th \in Threads, ClearDatabases(th) PROVE NoUseAfterFree'
  BY <1>32 DEF ClearDatabases, Leave, Goto
<1>33. ASSUME NEW th \in Threads, NEW t \in Txns, BeginDatabaseTransaction(th, t) PROVE NoUseAfterFree'
  BY <1>33 DEF BeginDatabaseTransaction, Ask, Enter, Goto
<1> HIDE DEF SafetyInv, RegistryInv, OwnershipInv, Keys, Calm, NoUseAfterFree, EndedOutlived, Discipline, Quiet, Swept,
      Phases, TypeOK, Focus, Exclusive, Objects, Live, Labels, NativeStates, BeginLabels, UseLabels,
      EndLabels, vars, managed, threads, nativeSt, history
<1>q. QED
  BY <1>1, <1>2, <1>3, <1>4, <1>5, <1>6, <1>7, <1>8, <1>9, <1>10, <1>11, <1>12, <1>13,
     <1>14, <1>15, <1>16, <1>17, <1>18, <1>19, <1>20, <1>21, <1>22, <1>23, <1>24, <1>25,
     <1>26, <1>27, <1>28, <1>29, <1>30, <1>31, <1>32, <1>33, Kinds
     DEF Next, Call, Step, Undefined, Collected, Hangs

\* Initially nothing has happened.
LEMMA InitSafety == Init => SafetyInv
<1> SUFFICES ASSUME Init PROVE SafetyInv
  OBVIOUS
<1>1. RegistryInv
  BY InitOwnership DEF Init, RegistryInv, Keys, Tracked, RegistryComplete, RegistrySound, EndLabels
<1>2. NoNativeLeak
  BY DEF Init, NoNativeLeak, Live
<1>3. Phases /\ Quiet /\ Swept /\ Locked /\ Discipline /\ NoUseAfterFree
  BY ConstantsAssumption DEF Init, Phases, Quiet, Swept, Locked, Discipline, NoUseAfterFree, BeginLabels, UseLabels
<1> QED
  BY <1>1, <1>2, <1>3 DEF SafetyInv

\* The invariant of the environment's Dispose holds throughout every behaviour.
LEMMA Safety == Spec => []SafetyInv
<1>1. Init => SafetyInv
  BY InitSafety
<1>2. SafetyInv /\ RegistryInv' /\ [Next]_vars => SafetyInv'
  BY NoNativeLeakStep, PhasesStep, LockedStep, QuietStep, SweptStep, DisciplineStep, NoUseAfterFreeStep
     DEF SafetyInv
<1>3. Spec => []RegistryInv
  BY Registry
<1> QED
  BY <1>1, <1>2, <1>3, PTL DEF Spec

\* Unless a call overlaps Dispose of the environment, every native transaction has somebody to
\* end it.
THEOREM NothingLeaks == Spec => []NoNativeLeak
<1>1. SafetyInv => NoNativeLeak
  BY DEF SafetyInv
<1> QED
  BY <1>1, Safety, PTL

\* When Dispose has the environment to itself and knows all transactions by their ids, it closes
\* the MDB_env over none that is live but database transactions.
THEOREM DisposeEndsAll == Spec => []CloseFindsNoTransaction
<1>1. SafetyInv => CloseFindsNoTransaction
  <2> SUFFICES ASSUME SafetyInv, NEW th \in Threads, pc[th] = "closeNative", Calm
               PROVE  \A t \in Txns : Live(t) => mode[t] = "database"
    BY DEF CloseFindsNoTransaction, Calm
  <2>1. closer = th /\ closer # NoThread
    BY ConstantsAssumption DEF SafetyInv, Phases
  <2> QED
    BY <2>1 DEF SafetyInv, Swept
<1> QED
  BY <1>1, Safety, PTL

\* Under the same conditions, and with each transaction ended by its own thread, no native
\* function gets a handle that was freed, but the end of a database transaction that outlived Dispose.
THEOREM NoFreedHandleUsed == Spec => []NoUseAfterFree
<1>1. SafetyInv => NoUseAfterFree
  BY DEF SafetyInv
<1> QED
  BY <1>1, Safety, PTL

\* dbTxnLock keeps the MDB_env open for whoever waits in mdb_txn_begin for a database transaction,
\* whatever overlaps Dispose of the environment.
THEOREM DatabaseBeginSafe == Spec => []DatabaseBeginProtected
<1>1. SafetyInv => DatabaseBeginProtected
  BY DEF SafetyInv, Locked, DatabaseBeginProtected
<1> QED
  BY <1>1, Safety, PTL
=============================================================================
