----------------------- MODULE TransactionContractProofs -----------------------
(***************************************************************************)
(* TransactionRegistry implements TransactionContract, for any number of   *)
(* threads and of transactions: each step of the code is a step of one     *)
(* transaction's contract or changes no phase.                             *)
(***************************************************************************)
EXTENDS TransactionRegistryProofs

\* The writer mutex makes ids of write transactions follow the last commit, and a native
\* transaction that is reported has an outcome.
Outcome ==
  /\ \A t \in Txns : Live(t) => mode[t] # "none"
  /\ \A t \in Txns : Live(t) /\ Writes(t) => writer = t /\ id[t] = lastId + 1
  /\ \A th \in Threads : pc[th] \in {"reset", "renew"} => mode[cur[th]] = "read"
  /\ \A th \in Threads : pc[th] = "disposed" => native[cur[th]] \in {"committed", "aborted"}
-----------------------------------------------------------------------------
\* Every step keeps the ids of writers in order and gives an ended transaction its outcome.
LEMMA OutcomeStep == OwnershipInv /\ Outcome /\ [Next]_vars => Outcome'
<1> SUFFICES ASSUME OwnershipInv /\ Outcome, [Next]_vars PROVE Outcome'
  OBVIOUS
<1> USE ConstantsAssumption DEF OwnershipInv, TypeOK, Focus, Exclusive, Objects, Outcome, Live, Writes, Labels, NativeStates,
      BeginLabels, UseLabels, EndLabels, vars, managed, threads, nativeSt, history
<1>1. ASSUME NEW th \in Threads, NEW t \in Txns, NEW m \in {"read", "write"}, BeginTransaction(th, t, m) PROVE Outcome'
  BY <1>1 DEF BeginTransaction, Ask, Enter, Goto
<1>2. ASSUME NEW th \in Threads, NEW t \in Txns, Commit(th, t) PROVE Outcome'
  BY <1>2 DEF Commit, Enter, Goto
<1>3. ASSUME NEW th \in Threads, NEW t \in Txns, Dispose(th, t) PROVE Outcome'
  BY <1>3 DEF Dispose, Enter, Goto
<1>4. ASSUME NEW th \in Threads, NEW t \in Txns, NEW label \in {"reset", "renew"}, UseReader(th, t, label) PROVE Outcome'
  BY <1>4 DEF UseReader, Enter, Goto
<1>5. ASSUME NEW th \in Threads, DisposeEnvironment(th) PROVE Outcome'
  BY <1>5 DEF DisposeEnvironment, Goto
<1>6. ASSUME NEW th \in Threads, DisposeEnvironmentAgain(th) PROVE Outcome'
  BY <1>6 DEF DisposeEnvironmentAgain, Enter, Goto
<1>7. ASSUME NEW th \in Threads, BeginWrite(th) PROVE Outcome'
  BY <1>7 DEF BeginWrite, Goto
<1>8. ASSUME NEW th \in Threads, BeginRead(th) PROVE Outcome'
  BY <1>8 DEF BeginRead, Goto
<1>9. ASSUME NEW th \in Threads, BeginFails(th) PROVE Outcome'
  BY <1>9 DEF BeginFails, Leave, Goto
<1>10. ASSUME NEW th \in Threads, GetOptions(th) PROVE Outcome'
  BY <1>10 DEF GetOptions, Leave, Goto
<1>11. ASSUME NEW th \in Threads, AddTransaction(th) PROVE Outcome'
  BY <1>11 DEF AddTransaction, Leave, Goto
<1>12. ASSUME NEW th \in Threads, ReturnUntracked(th) PROVE Outcome'
  BY <1>12 DEF ReturnUntracked, Leave, Goto
<1>13. ASSUME NEW th \in Threads, RefuseTransaction(th) PROVE Outcome'
  BY <1>13 DEF RefuseTransaction, Goto
<1>14. ASSUME NEW th \in Threads, DiscardTransaction(th) PROVE Outcome'
  BY <1>14 DEF DiscardTransaction, Leave, Goto
<1>15. ASSUME NEW th \in Threads, CommitClaim(th) PROVE Outcome'
  BY <1>15 DEF CommitClaim, Leave, Goto
<1>16. ASSUME NEW th \in Threads, CommitNative(th) PROVE Outcome'
  BY <1>16 DEF CommitNative, EndNative, Writes, Goto
<1>17. ASSUME NEW th \in Threads, CommitFails(th) PROVE Outcome'
  BY <1>17 DEF CommitFails, EndNative, Writes, Goto
<1>18. ASSUME NEW th \in Threads, AbortNative(th) PROVE Outcome'
  BY <1>18 DEF AbortNative, EndNative, Goto
<1>19. ASSUME NEW th \in Threads, TransactionDisposed(th) PROVE Outcome'
  BY <1>19 DEF TransactionDisposed, Return, Leave, Goto
<1>20. ASSUME NEW th \in Threads, ResetNative(th) PROVE Outcome'
  BY <1>20 DEF ResetNative, Leave, Goto
<1>21. ASSUME NEW th \in Threads, RenewNative(th) PROVE Outcome'
  BY <1>21 DEF RenewNative, Leave, Goto
<1>22. ASSUME NEW th \in Threads, SweepNext(th) PROVE Outcome'
  BY <1>22 DEF SweepNext, Goto
<1>23. ASSUME NEW th \in Threads, SweepEnd(th) PROVE Outcome'
  BY <1>23 DEF SweepEnd, Goto
<1>24. ASSUME NEW th \in Threads, CloseNative(th) PROVE Outcome'
  BY <1>24 DEF CloseNative, Goto
<1>25. ASSUME NEW th \in Threads, ClearTransactions(th) PROVE Outcome'
  BY <1>25 DEF ClearTransactions, Leave, Goto
<1>26. CASE UNCHANGED vars
  BY <1>26
<1>27. CASE FinalizeEnvironment
  BY <1>27 DEF FinalizeEnvironment
<1>28. ASSUME NEW th \in Threads, LockDatabase(th) PROVE Outcome'
  BY <1>28 DEF LockDatabase, Leave, Goto
<1>29. ASSUME NEW th \in Threads, BeginDatabase(th) PROVE Outcome'
  BY <1>29 DEF BeginDatabase, Leave, Goto
<1>30. ASSUME NEW th \in Threads, DatabaseTransactionClosed(th) PROVE Outcome'
  BY <1>30 DEF DatabaseTransactionClosed, Return, Leave, Goto
<1>31. ASSUME NEW th \in Threads, ClearHandles(th) PROVE Outcome'
  BY <1>31 DEF ClearHandles, Goto
<1>32. ASSUME NEW th \in Threads, ClearDatabases(th) PROVE Outcome'
  BY <1>32 DEF ClearDatabases, Leave, Goto
<1>33. ASSUME NEW th \in Threads, NEW t \in Txns, BeginDatabaseTransaction(th, t) PROVE Outcome'
  BY <1>33 DEF BeginDatabaseTransaction, Ask, Enter, Goto
<1> HIDE DEF OwnershipInv, TypeOK, Focus, Exclusive, Objects, Outcome, Live, Writes, Labels, NativeStates,
      BeginLabels, UseLabels, EndLabels, vars, managed, threads, nativeSt, history
<1>q. QED
  BY <1>1, <1>2, <1>3, <1>4, <1>5, <1>6, <1>7, <1>8, <1>9, <1>10, <1>11, <1>12,
     <1>13, <1>14, <1>15, <1>16, <1>17, <1>18, <1>19, <1>20, <1>21, <1>22, <1>23,
     <1>24, <1>25, <1>26, <1>27, <1>28, <1>29, <1>30, <1>31, <1>32, <1>33, Kinds
     DEF Next, Call, Step, Undefined, Collected, Hangs

\* A step that changes no phase and no id is a stutter of the contract.
LEMMA Stutters ==
  ASSUME \A u \in Txns : PhaseOf(u)' = PhaseOf(u), lastId' = lastId
  PROVE  UNCHANGED Contract!vars
BY DEF Contract!vars

\* A transaction that is handed out is opened in the contract.
LEMMA Opens ==
  ASSUME NEW t \in Txns, PhaseOf(t) = "none", PhaseOf(t)' = "open", lastId' = lastId,
         \A u \in Txns \ {t} : PhaseOf(u)' = PhaseOf(u)
  PROVE  [Contract!Next]_(Contract!vars)
<1>1. Contract!Open(t)
  BY DEF Contract!Open, Contract!Move
<1>2. QED
  BY <1>1 DEF Contract!Next

\* A thread that takes the handle claims the transaction.
LEMMA Claims ==
  ASSUME NEW t \in Txns, PhaseOf(t) = "open", PhaseOf(t)' = "claimed", lastId' = lastId,
         \A u \in Txns \ {t} : PhaseOf(u)' = PhaseOf(u)
  PROVE  [Contract!Next]_(Contract!vars)
<1>1. Contract!Claim(t)
  BY DEF Contract!Claim, Contract!Move
<1>2. QED
  BY <1>1 DEF Contract!Next

\* A native commit moves the last id by one or leaves it.
LEMMA Takes ==
  ASSUME NEW t \in Txns, PhaseOf(t) = "claimed", PhaseOf(t)' = "committed", lastId' \in {lastId, lastId + 1},
         \A u \in Txns \ {t} : PhaseOf(u)' = PhaseOf(u)
  PROVE  [Contract!Next]_(Contract!vars)
<1>1. Contract!Take(t)
  BY DEF Contract!Take, Contract!Move
<1>2. QED
  BY <1>1 DEF Contract!Next

\* A native abort leaves it.
LEMMA Drops ==
  ASSUME NEW t \in Txns, PhaseOf(t) = "claimed", PhaseOf(t)' = "aborted", lastId' = lastId,
         \A u \in Txns \ {t} : PhaseOf(u)' = PhaseOf(u)
  PROVE  [Contract!Next]_(Contract!vars)
<1>1. Contract!Drop(t)
  BY DEF Contract!Drop, Contract!Move
<1>2. QED
  BY <1>1 DEF Contract!Next

\* The callback closes a transaction that has ended.
LEMMA Reports ==
  ASSUME NEW t \in Txns, PhaseOf(t) \in {"committed", "aborted"}, PhaseOf(t)' = "closed", lastId' = lastId,
         \A u \in Txns \ {t} : PhaseOf(u)' = PhaseOf(u)
  PROVE  [Contract!Next]_(Contract!vars)
<1>1. Contract!Report(t)
  BY DEF Contract!Report, Contract!Move
<1>2. QED
  BY <1>1 DEF Contract!Next

\* The sweep visits an entry of the dictionary and takes its transaction out of service.
LEMMA SweptEntry ==
  ASSUME NEW th \in Threads, SweepNext(th)
  PROVE  \E e \in transactions :
           /\ pc[th] = "closing" /\ cur' = [cur EXCEPT ![th] = e[2]]
           /\ txn' = [txn EXCEPT ![e[2]] = "zero"]
           /\ Goto(th, IF txn[e[2]] = "open" THEN "abortNative" ELSE "closing")
BY Zenon DEF SweepNext

\* Every step of the code is a step of the contract, or changes none of its variables.
LEMMA ContractStep ==
  OwnershipInv /\ Outcome /\ OwnershipInv' /\ [Next]_vars => [Contract!Next]_(Contract!vars)
<1> SUFFICES ASSUME OwnershipInv, Outcome, OwnershipInv', [Next]_vars
             PROVE  [Contract!Next]_(Contract!vars)
  OBVIOUS
<1> USE ConstantsAssumption DEF OwnershipInv, TypeOK, Focus, Exclusive, Objects, Outcome, Live, Writes, Labels, NativeStates,
      BeginLabels, UseLabels, EndLabels, vars, managed, threads, nativeSt, history, PhaseOf
<1>1. ASSUME NEW th \in Threads, NEW t \in Txns, NEW m \in {"read", "write"}, BeginTransaction(th, t, m) PROVE [Contract!Next]_(Contract!vars)
  <2>1. (\A u \in Txns : PhaseOf(u)' = PhaseOf(u)) /\ lastId' = lastId
    BY <1>1 DEF BeginTransaction, Ask, Enter, Goto
  <2> QED
    BY <2>1, Stutters
<1>2. ASSUME NEW th \in Threads, NEW t \in Txns, Commit(th, t) PROVE [Contract!Next]_(Contract!vars)
  <2>1. (\A u \in Txns : PhaseOf(u)' = PhaseOf(u)) /\ lastId' = lastId
    BY <1>2 DEF Commit, Enter, Goto
  <2> QED
    BY <2>1, Stutters
<1>3. ASSUME NEW th \in Threads, NEW t \in Txns, Dispose(th, t) PROVE [Contract!Next]_(Contract!vars)
  <2>2. PhaseOf(t) = "open" /\ PhaseOf(t)' = "claimed" /\ lastId' = lastId
    BY <1>3 DEF Dispose, Enter, Goto
  <2>3. \A u \in Txns \ {t} : PhaseOf(u)' = PhaseOf(u)
    BY <1>3 DEF Dispose, Enter, Goto
  <2> QED
    BY <2>2, <2>3, Claims
<1>4. ASSUME NEW th \in Threads, NEW t \in Txns, NEW label \in {"reset", "renew"}, UseReader(th, t, label) PROVE [Contract!Next]_(Contract!vars)
  <2>1. (\A u \in Txns : PhaseOf(u)' = PhaseOf(u)) /\ lastId' = lastId
    BY <1>4 DEF UseReader, Enter, Goto
  <2> QED
    BY <2>1, Stutters
<1>5. ASSUME NEW th \in Threads, DisposeEnvironment(th) PROVE [Contract!Next]_(Contract!vars)
  <2>1. (\A u \in Txns : PhaseOf(u)' = PhaseOf(u)) /\ lastId' = lastId
    BY <1>5 DEF DisposeEnvironment, Goto
  <2> QED
    BY <2>1, Stutters
<1>6. ASSUME NEW th \in Threads, DisposeEnvironmentAgain(th) PROVE [Contract!Next]_(Contract!vars)
  <2>1. (\A u \in Txns : PhaseOf(u)' = PhaseOf(u)) /\ lastId' = lastId
    BY <1>6 DEF DisposeEnvironmentAgain, Enter, Goto
  <2> QED
    BY <2>1, Stutters
<1>7. ASSUME NEW th \in Threads, BeginWrite(th) PROVE [Contract!Next]_(Contract!vars)
  <2>1. (\A u \in Txns : PhaseOf(u)' = PhaseOf(u)) /\ lastId' = lastId
    BY <1>7 DEF BeginWrite, Goto
  <2> QED
    BY <2>1, Stutters
<1>8. ASSUME NEW th \in Threads, BeginRead(th) PROVE [Contract!Next]_(Contract!vars)
  <2>1. (\A u \in Txns : PhaseOf(u)' = PhaseOf(u)) /\ lastId' = lastId
    BY <1>8 DEF BeginRead, Goto
  <2> QED
    BY <2>1, Stutters
<1>9. ASSUME NEW th \in Threads, BeginFails(th) PROVE [Contract!Next]_(Contract!vars)
  <2>1. (\A u \in Txns : PhaseOf(u)' = PhaseOf(u)) /\ lastId' = lastId
    BY <1>9 DEF BeginFails, Leave, Goto
  <2> QED
    BY <2>1, Stutters
<1>10. ASSUME NEW th \in Threads, GetOptions(th) PROVE [Contract!Next]_(Contract!vars)
  <2>1. (\A u \in Txns : PhaseOf(u)' = PhaseOf(u)) /\ lastId' = lastId
    BY <1>10 DEF GetOptions, Leave, Goto
  <2> QED
    BY <2>1, Stutters
<1>11. ASSUME NEW th \in Threads, AddTransaction(th) PROVE [Contract!Next]_(Contract!vars)
  <2>1. PICK t \in Txns : t = cur[th]
    BY <1>11 DEF AddTransaction
  <2>2. PhaseOf(t) = "none" /\ PhaseOf(t)' = "open" /\ lastId' = lastId
    BY <1>11, <2>1 DEF AddTransaction, Leave, Goto
  <2>3. \A u \in Txns \ {t} : PhaseOf(u)' = PhaseOf(u)
    BY <1>11, <2>1 DEF AddTransaction, Leave, Goto
  <2> QED
    BY <2>2, <2>3, Opens
<1>12. ASSUME NEW th \in Threads, ReturnUntracked(th) PROVE [Contract!Next]_(Contract!vars)
  <2>1. PICK t \in Txns : t = cur[th]
    BY <1>12 DEF ReturnUntracked
  <2>2. PhaseOf(t) = "none" /\ PhaseOf(t)' = "open" /\ lastId' = lastId
    BY <1>12, <2>1 DEF ReturnUntracked, Leave, Goto
  <2>3. \A u \in Txns \ {t} : PhaseOf(u)' = PhaseOf(u)
    BY <1>12, <2>1 DEF ReturnUntracked, Leave, Goto
  <2> QED
    BY <2>2, <2>3, Opens
<1>13. ASSUME NEW th \in Threads, RefuseTransaction(th) PROVE [Contract!Next]_(Contract!vars)
  <2>1. (\A u \in Txns : PhaseOf(u)' = PhaseOf(u)) /\ lastId' = lastId
    BY <1>13 DEF RefuseTransaction, Goto
  <2> QED
    BY <2>1, Stutters
<1>14. ASSUME NEW th \in Threads, DiscardTransaction(th) PROVE [Contract!Next]_(Contract!vars)
  <2>1. (\A u \in Txns : PhaseOf(u)' = PhaseOf(u)) /\ lastId' = lastId
    BY <1>14 DEF DiscardTransaction, Leave, Goto
  <2> QED
    BY <2>1, Stutters
<1>15. ASSUME NEW th \in Threads, CommitClaim(th) PROVE [Contract!Next]_(Contract!vars)
  <2>1. PICK t \in Txns : t = cur[th]
    BY <1>15 DEF CommitClaim
  <2>2. CASE txn[t] = "open"
    <3>1. PhaseOf(t) = "open" /\ PhaseOf(t)' = "claimed" /\ lastId' = lastId
      BY <1>15, <2>1, <2>2 DEF CommitClaim, Goto
    <3>2. \A u \in Txns \ {t} : PhaseOf(u)' = PhaseOf(u)
      BY <1>15, <2>1, <2>2 DEF CommitClaim, Goto
    <3> QED
      BY <3>1, <3>2, Claims
  <2>3. CASE txn[t] # "open"
    <3>1. (\A u \in Txns : PhaseOf(u)' = PhaseOf(u)) /\ lastId' = lastId
      BY <1>15, <2>1, <2>3 DEF CommitClaim, Leave, Goto
    <3> QED
      BY <3>1, Stutters
  <2> QED
    BY <2>2, <2>3
<1>16. ASSUME NEW th \in Threads, CommitNative(th) PROVE [Contract!Next]_(Contract!vars)
  <2>1. PICK t \in Txns : t = cur[th]
    BY <1>16 DEF CommitNative
  <2>2. PhaseOf(t) = "claimed" /\ PhaseOf(t)' = "committed" /\ lastId' \in {lastId, lastId + 1}
    BY <1>16, <2>1 DEF CommitNative, EndNative, Writes, Goto
  <2>3. \A u \in Txns \ {t} : PhaseOf(u)' = PhaseOf(u)
    BY <1>16, <2>1 DEF CommitNative, EndNative, Writes, Goto
  <2> QED
    BY <2>2, <2>3, Takes
<1>17. ASSUME NEW th \in Threads, CommitFails(th) PROVE [Contract!Next]_(Contract!vars)
  <2>1. PICK t \in Txns : t = cur[th]
    BY <1>17 DEF CommitFails
  <2>2. PhaseOf(t) = "claimed" /\ PhaseOf(t)' = "aborted" /\ lastId' = lastId
    BY <1>17, <2>1 DEF CommitFails, EndNative, Writes, Goto
  <2>3. \A u \in Txns \ {t} : PhaseOf(u)' = PhaseOf(u)
    BY <1>17, <2>1 DEF CommitFails, EndNative, Writes, Goto
  <2> QED
    BY <2>2, <2>3, Drops
<1>18. ASSUME NEW th \in Threads, AbortNative(th) PROVE [Contract!Next]_(Contract!vars)
  <2>1. PICK t \in Txns : t = cur[th]
    BY <1>18 DEF AbortNative
  <2>2. PhaseOf(t) = "claimed" /\ PhaseOf(t)' = "aborted" /\ lastId' = lastId
    BY <1>18, <2>1 DEF AbortNative, EndNative, Goto
  <2>3. \A u \in Txns \ {t} : PhaseOf(u)' = PhaseOf(u)
    BY <1>18, <2>1 DEF AbortNative, EndNative, Goto
  <2> QED
    BY <2>2, <2>3, Drops
<1>19. ASSUME NEW th \in Threads, TransactionDisposed(th) PROVE [Contract!Next]_(Contract!vars)
  <2>1. PICK t \in Txns : t = cur[th]
    BY <1>19 DEF TransactionDisposed
  <2>2. PhaseOf(t) \in {"committed", "aborted"} /\ PhaseOf(t)' = "closed" /\ lastId' = lastId
    BY <1>19, <2>1 DEF TransactionDisposed, Return, Leave, Goto
  <2>3. \A u \in Txns \ {t} : PhaseOf(u)' = PhaseOf(u)
    BY <1>19, <2>1 DEF TransactionDisposed, Return, Leave, Goto
  <2> QED
    BY <2>2, <2>3, Reports
<1>20. ASSUME NEW th \in Threads, ResetNative(th) PROVE [Contract!Next]_(Contract!vars)
  <2>1. (\A u \in Txns : PhaseOf(u)' = PhaseOf(u)) /\ lastId' = lastId
    BY <1>20 DEF ResetNative, Leave, Goto
  <2> QED
    BY <2>1, Stutters
<1>21. ASSUME NEW th \in Threads, RenewNative(th) PROVE [Contract!Next]_(Contract!vars)
  <2>1. (\A u \in Txns : PhaseOf(u)' = PhaseOf(u)) /\ lastId' = lastId
    BY <1>21 DEF RenewNative, Leave, Goto
  <2> QED
    BY <2>1, Stutters
<1>22. ASSUME NEW th \in Threads, SweepNext(th) PROVE [Contract!Next]_(Contract!vars)
  <2>1. PICK e \in transactions :
               /\ pc[th] = "closing" /\ cur' = [cur EXCEPT ![th] = e[2]]
               /\ txn' = [txn EXCEPT ![e[2]] = "zero"]
               /\ Goto(th, IF txn[e[2]] = "open" THEN "abortNative" ELSE "closing")
    BY <1>22, SweptEntry
  <2>2. UNCHANGED <<native, lastId>>
    BY <1>22 DEF SweepNext
  <2>3. e[2] \in Txns /\ txn[e[2]] # "unborn"
    OBVIOUS
  <2>4. CASE txn[e[2]] = "open"
    <3>1. PhaseOf(e[2]) = "open" /\ PhaseOf(e[2])' = "claimed"
      BY <2>1, <2>2, <2>3, <2>4 DEF Goto
    <3>2. \A u \in Txns \ {e[2]} : PhaseOf(u)' = PhaseOf(u)
      BY <2>1, <2>2, <2>3, <2>4 DEF Goto
    <3> QED
      BY <2>2, <2>3, <3>1, <3>2, Claims
  <2>5. CASE txn[e[2]] # "open"
    <3>1. \A u \in Txns : PhaseOf(u)' = PhaseOf(u)
      BY <2>1, <2>2, <2>3, <2>5 DEF Goto
    <3> QED
      BY <2>2, <3>1, Stutters
  <2> QED
    BY <2>4, <2>5
<1>23. ASSUME NEW th \in Threads, SweepEnd(th) PROVE [Contract!Next]_(Contract!vars)
  <2>1. (\A u \in Txns : PhaseOf(u)' = PhaseOf(u)) /\ lastId' = lastId
    BY <1>23 DEF SweepEnd, Goto
  <2> QED
    BY <2>1, Stutters
<1>24. ASSUME NEW th \in Threads, CloseNative(th) PROVE [Contract!Next]_(Contract!vars)
  <2>1. (\A u \in Txns : PhaseOf(u)' = PhaseOf(u)) /\ lastId' = lastId
    BY <1>24 DEF CloseNative, Goto
  <2> QED
    BY <2>1, Stutters
<1>25. ASSUME NEW th \in Threads, ClearTransactions(th) PROVE [Contract!Next]_(Contract!vars)
  <2>1. (\A u \in Txns : PhaseOf(u)' = PhaseOf(u)) /\ lastId' = lastId
    BY <1>25 DEF ClearTransactions, Leave, Goto
  <2> QED
    BY <2>1, Stutters
<1>26. CASE UNCHANGED vars
  <2>1. (\A u \in Txns : PhaseOf(u)' = PhaseOf(u)) /\ lastId' = lastId
    BY <1>26
  <2> QED
    BY <2>1, Stutters
<1>27. CASE FinalizeEnvironment
  <2>1. (\A u \in Txns : PhaseOf(u)' = PhaseOf(u)) /\ lastId' = lastId
    BY <1>27 DEF FinalizeEnvironment
  <2> QED
    BY <2>1, Stutters
<1>28. ASSUME NEW th \in Threads, LockDatabase(th) PROVE [Contract!Next]_(Contract!vars)
  <2>1. (\A u \in Txns : PhaseOf(u)' = PhaseOf(u)) /\ lastId' = lastId
    BY <1>28 DEF LockDatabase, Leave, Goto
  <2> QED
    BY <2>1, Stutters
<1>29. ASSUME NEW th \in Threads, BeginDatabase(th) PROVE [Contract!Next]_(Contract!vars)
  <2>1. PICK t \in Txns : t = cur[th]
    BY <1>29 DEF BeginDatabase
  <2>2. PhaseOf(t) = "none" /\ PhaseOf(t)' = "open" /\ lastId' = lastId
    BY <1>29, <2>1 DEF BeginDatabase, Leave, Goto
  <2>3. \A u \in Txns \ {t} : PhaseOf(u)' = PhaseOf(u)
    BY <1>29, <2>1 DEF BeginDatabase, Leave, Goto
  <2> QED
    BY <2>2, <2>3, Opens
<1>30. ASSUME NEW th \in Threads, DatabaseTransactionClosed(th) PROVE [Contract!Next]_(Contract!vars)
  <2>1. PICK t \in Txns : t = cur[th]
    BY <1>30 DEF DatabaseTransactionClosed
  <2>2. PhaseOf(t) \in {"committed", "aborted"} /\ PhaseOf(t)' = "closed" /\ lastId' = lastId
    BY <1>30, <2>1 DEF DatabaseTransactionClosed, Return, Leave, Goto
  <2>3. \A u \in Txns \ {t} : PhaseOf(u)' = PhaseOf(u)
    BY <1>30, <2>1 DEF DatabaseTransactionClosed, Return, Leave, Goto
  <2> QED
    BY <2>2, <2>3, Reports
<1>31. ASSUME NEW th \in Threads, ClearHandles(th) PROVE [Contract!Next]_(Contract!vars)
  <2>1. (\A u \in Txns : PhaseOf(u)' = PhaseOf(u)) /\ lastId' = lastId
    BY <1>31 DEF ClearHandles, Goto
  <2> QED
    BY <2>1, Stutters
<1>32. ASSUME NEW th \in Threads, ClearDatabases(th) PROVE [Contract!Next]_(Contract!vars)
  <2>1. (\A u \in Txns : PhaseOf(u)' = PhaseOf(u)) /\ lastId' = lastId
    BY <1>32 DEF ClearDatabases, Leave, Goto
  <2> QED
    BY <2>1, Stutters
<1>33. ASSUME NEW th \in Threads, NEW t \in Txns, BeginDatabaseTransaction(th, t) PROVE [Contract!Next]_(Contract!vars)
  <2>1. (\A u \in Txns : PhaseOf(u)' = PhaseOf(u)) /\ lastId' = lastId
    BY <1>33 DEF BeginDatabaseTransaction, Ask, Enter, Goto
  <2> QED
    BY <2>1, Stutters
<1> HIDE DEF OwnershipInv, TypeOK, Focus, Exclusive, Objects, Outcome, Live, Writes, Labels, NativeStates,
      BeginLabels, UseLabels, EndLabels, vars, managed, threads, nativeSt, history, PhaseOf
<1>q. QED
  BY <1>1, <1>2, <1>3, <1>4, <1>5, <1>6, <1>7, <1>8, <1>9, <1>10, <1>11, <1>12,
     <1>13, <1>14, <1>15, <1>16, <1>17, <1>18, <1>19, <1>20, <1>21, <1>22, <1>23,
     <1>24, <1>25, <1>26, <1>27, <1>28, <1>29, <1>30, <1>31, <1>32, <1>33, Kinds
     DEF Next, Call, Step, Undefined, Collected, Hangs

\* The reachable states keep the ids of writers in order.
LEMMA Outcomes == Spec => []Outcome
<1>1. Init => Outcome
  BY DEF Init, Outcome, Live
<1>2. OwnershipInv /\ Outcome /\ [Next]_vars => Outcome'
  BY OutcomeStep
<1>3. QED
  BY <1>1, <1>2, Ownership, PTL DEF Spec

\* Whatever the threads do, every transaction keeps the contract of the class: one caller takes
\* it out of service, it commits or aborts once and is reported once, and each commit moves the
\* last id by one or leaves it (Transaction.Commit and Dispose, BeginTransaction).
THEOREM Refinement == Spec => KeepsContract
<1>1. Init => Contract!Init
  BY DEF Init, Contract!Init, PhaseOf
<1>2. OwnershipInv /\ Outcome /\ OwnershipInv' /\ [Next]_vars => [Contract!Next]_(Contract!vars)
  BY ContractStep
<1>3. QED
  BY <1>1, <1>2, Ownership, Outcomes, PTL DEF Spec, KeepsContract, Contract!Spec
=============================================================================
