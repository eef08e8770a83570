------------------------- MODULE TransactionRegistry -------------------------
(***************************************************************************)
(* Top-level transactions of one LmdbEnvironment (src/Lmdb): how threads   *)
(* begin, commit, dispose, reset and renew them, the dictionary            *)
(* `transactions` in which the environment remembers them under their      *)
(* native id, and the environment's own Dispose, which walks through it    *)
(* and takes dbTxnLock on its way.                                         *)
(*                                                                         *)
(* A thread's call is cut where other threads can see or change what it    *)
(* uses: at Interlocked.Exchange, at each native call and at each access   *)
(* to the dictionary or to the lock. Of a database transaction this module *)
(* has the life and the lock; nested transactions, cursors and Database    *)
(* objects are left to other modules.                                      *)
(***************************************************************************)
EXTENDS Integers, FiniteSets

CONSTANTS
  Threads,      \* managed threads, the caller of LmdbEnvironment.Dispose among them
  Txns,         \* the Transaction objects that can be created (bounds a behaviour)
  NoTls,        \* the values of MDB_NOTLS to consider: a subset of BOOLEAN
  Modes,        \* what each of Txns may be begun as: some of "read", "write", "database"
  NoTxn,        \* "nobody holds the writer mutex"
  NoThread      \* "nobody owns the object", "nobody disposes the environment", "the lock is free"

ASSUME ConstantsAssumption ==
  /\ NoTls \subseteq BOOLEAN
  /\ Modes \in [Txns -> SUBSET {"read", "write", "database"}]
  /\ NoTxn \notin Txns
  /\ NoThread \notin Threads

VARIABLES
  noTls,        \* LmdbEnvironmentOptions.NoThreadLocalStorage, fixed when the environment opens
  env,          \* the managed field LmdbEnvironment.env is not zero
  transactions, \* the dictionary: a set of <<native id, Transaction>> with unique ids
  txn,          \* the managed field Transaction.txn: "unborn", "open" or "zero"
  mode,         \* "none", "read" (ReadOnlyTransaction), "write" or "database" (DatabaseTransaction)
  owner,        \* the thread that began the transaction
  pc, cur, key, \* per thread: where it is, the transaction it works on, the local txnId
  closer,       \* the thread whose Exchange in LmdbEnvironment.Dispose won
  sweep,        \* its enumeration of the dictionary: entries to visit, entries visited
  dbTxnLock,    \* LmdbEnvironment.dbTxnLock: the thread that is beginning a transaction under it
  mapped,       \* native: the MDB_env is allocated
  native,       \* native: state of each MDB_txn
  id,           \* native: mdb_txn_id of each MDB_txn
  lastId,       \* native: id of the last committed write transaction
  writer,       \* native: holder of the writer mutex
  overlap,      \* history: a call ran while the environment was being disposed
  shared,       \* history: a thread ended a transaction it does not own
  moved,        \* history: a Renew gave a transaction another id
  refused,      \* history: transactions refused with "same Id exists already"
  fault         \* history: a native function got a handle that was freed

managed  == <<noTls, env, transactions, txn, mode, owner>>
threads  == <<pc, cur, key, closer, sweep, dbTxnLock>>
nativeSt == <<mapped, native, id, lastId, writer>>
history  == <<overlap, shared, moved, refused, fault>>
vars     == <<managed, threads, nativeSt, history>>

NativeStates == {"none", "active", "reset", "committed", "aborted"}
Labels == {"idle", "beginDatabase", "begin", "options", "register", "discard", "commit",
           "commitNative", "abortNative", "disposed", "reset", "renew", "closing", "clearHandles",
           "closeNative", "clear", "clearDatabases", "collected"}

Live(t) == native[t] \in {"active", "reset"}
Writes(t) == mode[t] \in {"write", "database"}
Registered(t) == \E e \in transactions : e[2] = t
IdTaken(i) == \E e \in transactions : e[1] = i

\* Reader slots: with MDB_NOTLS a slot belongs to the MDB_txn, otherwise to the thread,
\* which has one, and MDB_BAD_RSLOT is returned while an active reader uses it.
SlotFree(th) ==
  noTls \/ ~\E t \in Txns : mode[t] = "read" /\ owner[t] = th /\ native[t] = "active"

Goto(th, label) == pc' = [pc EXCEPT ![th] = label]

\* A call returns or throws: its local variables are gone.
Leave(th) ==
  /\ Goto(th, "idle")
  /\ cur' = [cur EXCEPT ![th] = NoTxn]
  /\ key' = [key EXCEPT ![th] = 0]

\* A public method is entered by an idle thread.
Enter(th, label) ==
  /\ pc[th] = "idle"
  /\ Goto(th, label)
  /\ overlap' = (overlap \/ closer # NoThread)

\* Where Transaction.Dispose returns to: the sweep of LmdbEnvironment.Dispose or the program.
Return(th) ==
  IF th = closer THEN Goto(th, "closing") /\ UNCHANGED <<cur, key>> ELSE Leave(th)

Init ==
  /\ noTls \in NoTls
  /\ env = TRUE /\ mapped = TRUE
  /\ transactions = {}
  /\ txn = [t \in Txns |-> "unborn"]
  /\ mode = [t \in Txns |-> "none"]
  /\ owner = [t \in Txns |-> NoThread]
  /\ pc = [th \in Threads |-> "idle"]
  /\ cur = [th \in Threads |-> NoTxn]
  /\ key = [th \in Threads |-> 0]
  /\ closer = NoThread
  /\ sweep = [todo |-> {}, seen |-> {}]
  /\ dbTxnLock = NoThread
  /\ native = [t \in Txns |-> "none"]
  /\ id = [t \in Txns |-> 0]
  /\ lastId = 0
  /\ writer = NoTxn
  /\ overlap = FALSE /\ shared = FALSE /\ moved = FALSE
  /\ refused = {} /\ fault = FALSE

-----------------------------------------------------------------------------
(* Beginning a transaction *)

\* A thread asks for a transaction of its own. One that holds the writer mutex does not ask for
\* it again: the documentation of BeginTransaction gives a thread one transaction at a time.
Ask(th, t, m, label) ==
  /\ env
  /\ mode[t] = "none"
  /\ m # "read" => ~\E u \in Txns : Live(u) /\ Writes(u) /\ owner[u] = th
  /\ Enter(th, label)
  /\ cur' = [cur EXCEPT ![th] = t]
  /\ mode' = [mode EXCEPT ![t] = m]
  /\ owner' = [owner EXCEPT ![t] = th]
  /\ UNCHANGED <<noTls, env, transactions, txn, key, closer, sweep, dbTxnLock, nativeSt,
                 shared, moved, refused, fault>>

\* BeginTransaction / BeginReadOnlyTransaction up to CheckDisposed, which throws when env is zero.
BeginTransaction(th, t, m) == Ask(th, t, m, "begin")

\* BeginDatabaseTransaction up to its lock.
BeginDatabaseTransaction(th, t) == Ask(th, t, "database", "beginDatabase")

\* A slip: Monitor.Enter without a finally, so that the exception leaves the lock taken.
LockDatabase_Keeps(th) ==
  /\ pc[th] = "beginDatabase"
  /\ dbTxnLock = NoThread
  /\ dbTxnLock' = th
  /\ IF env THEN Goto(th, "begin") /\ UNCHANGED <<cur, key>> ELSE Leave(th)
  /\ UNCHANGED <<managed, closer, sweep, nativeSt, history>>

\* lock (dbTxnLock) and CheckDisposed, whose exception releases the lock. activeDbTxn is always
\* null: nothing assigns it the transaction that is begun here.
LockDatabase(th) ==
  /\ pc[th] = "beginDatabase"
  /\ dbTxnLock = NoThread
  /\ IF env THEN dbTxnLock' = th /\ Goto(th, "begin") /\ UNCHANGED <<cur, key>>
            ELSE Leave(th) /\ UNCHANGED dbTxnLock
  /\ UNCHANGED <<managed, closer, sweep, nativeSt, history>>

\* mdb_txn_begin for a writer waits for the writer mutex; its id follows the last commit.
BeginWrite(th) ==
  LET t == cur[th] IN
  /\ pc[th] = "begin" /\ mode[t] = "write" /\ mapped
  /\ writer = NoTxn
  /\ writer' = t
  /\ native' = [native EXCEPT ![t] = "active"]
  /\ id' = [id EXCEPT ![t] = lastId + 1]
  /\ Goto(th, "register")
  /\ UNCHANGED <<managed, cur, key, closer, sweep, dbTxnLock, mapped, lastId, history>>

\* mdb_txn_begin waits for the writer mutex with dbTxnLock held. The DatabaseTransaction is handed
\* out as the lock is released, and is in no dictionary.
BeginDatabase(th) ==
  LET t == cur[th] IN
  /\ pc[th] = "begin" /\ mode[t] = "database" /\ mapped
  /\ writer = NoTxn
  /\ writer' = t
  /\ native' = [native EXCEPT ![t] = "active"]
  /\ id' = [id EXCEPT ![t] = lastId + 1]
  /\ txn' = [txn EXCEPT ![t] = "open"]
  /\ dbTxnLock' = NoThread
  /\ Leave(th)
  /\ UNCHANGED <<noTls, env, transactions, mode, owner, closer, sweep, mapped, lastId, history>>

\* A slip: the id of the snapshot before the last commit.
BeginRead_OffByOne(th) ==
  LET t == cur[th] IN
  /\ pc[th] = "begin" /\ mode[t] = "read" /\ mapped
  /\ SlotFree(th)
  /\ native' = [native EXCEPT ![t] = "active"]
  /\ id' = [id EXCEPT ![t] = lastId - 1]
  /\ Goto(th, "options")
  /\ UNCHANGED <<managed, cur, key, closer, sweep, dbTxnLock, mapped, lastId, writer, history>>

\* mdb_txn_begin for a reader: the snapshot of the last commit gives it its id.
BeginRead(th) ==
  LET t == cur[th] IN
  /\ pc[th] = "begin" /\ mode[t] = "read" /\ mapped
  /\ SlotFree(th)
  /\ native' = [native EXCEPT ![t] = "active"]
  /\ id' = [id EXCEPT ![t] = lastId]
  /\ Goto(th, "options")
  /\ UNCHANGED <<managed, cur, key, closer, sweep, dbTxnLock, mapped, lastId, writer, history>>

\* MDB_BAD_RSLOT, or the MDB_env was freed since CheckDisposed. An exception releases the lock.
BeginFails(th) ==
  /\ pc[th] = "begin"
  /\ \/ mapped /\ mode[cur[th]] = "read" /\ ~SlotFree(th) /\ UNCHANGED fault
     \/ ~mapped /\ fault' = TRUE
  /\ dbTxnLock' = IF dbTxnLock = th THEN NoThread ELSE dbTxnLock
  /\ Leave(th)
  /\ UNCHANGED <<managed, closer, sweep, nativeSt, overlap, shared, moved, refused>>

\* GetOptions, asked for a reader only. When the environment was disposed meanwhile it
\* throws: the MDB_txn just begun is neither aborted nor known to anyone.
GetOptions(th) ==
  /\ pc[th] = "options"
  /\ IF env THEN Goto(th, "register") /\ UNCHANGED <<cur, key>> ELSE Leave(th)
  /\ UNCHANGED <<managed, closer, sweep, dbTxnLock, nativeSt, history>>

\* A slip: transactions[id] = txn in place of TryAdd.
AddTransaction_Overwrites(th) ==
  LET t == cur[th] IN
  /\ pc[th] = "register"
  /\ transactions' = {e \in transactions : e[1] # id[t]} \cup {<<id[t], t>>}
  /\ txn' = [txn EXCEPT ![t] = "open"]
  /\ Leave(th)
  /\ UNCHANGED <<noTls, env, mode, owner, closer, sweep, dbTxnLock, nativeSt, history>>

\* transactions.TryAdd finds the id free: the program gets the transaction.
AddTransaction(th) ==
  LET t == cur[th] IN
  /\ pc[th] = "register"
  /\ ~IdTaken(id[t])
  /\ transactions' = transactions \cup {<<id[t], t>>}
  /\ txn' = [txn EXCEPT ![t] = "open"]
  /\ Leave(th)
  /\ UNCHANGED <<noTls, env, mode, owner, closer, sweep, dbTxnLock, nativeSt, history>>

\* TryAdd fails and does not matter (checkConcurrent = false: a reader under MDB_NOTLS).
ReturnUntracked(th) ==
  LET t == cur[th] IN
  /\ pc[th] = "register"
  /\ IdTaken(id[t]) /\ mode[t] = "read" /\ noTls
  /\ txn' = [txn EXCEPT ![t] = "open"]
  /\ Leave(th)
  /\ UNCHANGED <<noTls, env, transactions, mode, owner, closer, sweep, dbTxnLock, nativeSt,
                 history>>

\* A slip: the exception is thrown without mdb_txn_abort.
RefuseTransaction_Leaks(th) ==
  LET t == cur[th] IN
  /\ pc[th] = "register"
  /\ IdTaken(id[t]) /\ ~(mode[t] = "read" /\ noTls)
  /\ Leave(th)
  /\ UNCHANGED <<managed, closer, sweep, dbTxnLock, nativeSt, history>>

\* TryAdd fails and matters.
RefuseTransaction(th) ==
  LET t == cur[th] IN
  /\ pc[th] = "register"
  /\ IdTaken(id[t]) /\ ~(mode[t] = "read" /\ noTls)
  /\ Goto(th, "discard")
  /\ UNCHANGED <<managed, cur, key, closer, sweep, dbTxnLock, nativeSt, history>>

\* mdb_txn_abort and "Transaction with same Id exists already".
DiscardTransaction(th) ==
  LET t == cur[th] IN
  /\ pc[th] = "discard"
  /\ native' = [native EXCEPT ![t] = "aborted"]
  /\ writer' = IF writer = t THEN NoTxn ELSE writer
  /\ fault' = (fault \/ ~mapped)
  /\ refused' = refused \cup {t}
  /\ Leave(th)
  /\ UNCHANGED <<managed, closer, sweep, dbTxnLock, mapped, id, lastId, overlap, shared, moved>>

-----------------------------------------------------------------------------
(* Ending a transaction *)

\* Commit up to CheckDisposed.
Commit(th, t) ==
  /\ txn[t] = "open"
  /\ Enter(th, "commit")
  /\ cur' = [cur EXCEPT ![th] = t]
  /\ shared' = (shared \/ owner[t] # th)
  /\ UNCHANGED <<managed, key, closer, sweep, dbTxnLock, nativeSt, moved, refused, fault>>

\* A slip: the field is read by CheckDisposed and cleared by a plain assignment.
CommitClaim_NotAtomic(th) ==
  LET t == cur[th] IN
  /\ pc[th] = "commit"
  /\ Goto(th, "commitNative")
  /\ txn' = [txn EXCEPT ![t] = "zero"]
  /\ UNCHANGED <<noTls, env, transactions, mode, owner, cur, key, closer, sweep, dbTxnLock,
                 nativeSt, history>>

\* Interlocked.Exchange in Commit: a thread that finds zero has nothing to do.
CommitClaim(th) ==
  LET t == cur[th] IN
  /\ pc[th] = "commit"
  /\ IF txn[t] = "open" THEN Goto(th, "commitNative") /\ UNCHANGED <<cur, key>> ELSE Leave(th)
  /\ txn' = [txn EXCEPT ![t] = "zero"]
  /\ UNCHANGED <<noTls, env, transactions, mode, owner, closer, sweep, dbTxnLock, nativeSt,
                 history>>

\* Interlocked.Exchange in Dispose (Abort is Dispose); on a zero field Dispose does nothing.
Dispose(th, t) ==
  /\ txn[t] = "open"
  /\ Enter(th, "abortNative")
  /\ cur' = [cur EXCEPT ![th] = t]
  /\ txn' = [txn EXCEPT ![t] = "zero"]
  /\ shared' = (shared \/ owner[t] # th)
  /\ UNCHANGED <<noTls, env, transactions, mode, owner, key, closer, sweep, dbTxnLock, nativeSt,
                 moved, refused, fault>>

\* The native end of cur[th]: the local txnId is read first, then the MDB_txn is freed and a
\* writer's mutex released. ReleaseManagedResources follows and touches cursors only.
EndNative(th, outcome) ==
  LET t == cur[th] IN
  /\ key' = [key EXCEPT ![th] = id[t]]
  /\ native' = [native EXCEPT ![t] = outcome]
  /\ writer' = IF writer = t THEN NoTxn ELSE writer
  /\ fault' = (fault \/ ~mapped \/ ~Live(t))
  /\ Goto(th, "disposed")
  /\ UNCHANGED <<managed, cur, closer, sweep, dbTxnLock, mapped, id, overlap, shared, moved,
                 refused>>

\* mdb_txn_commit succeeds; without a change to write it leaves the last id alone.
CommitNative(th) ==
  /\ pc[th] = "commitNative"
  /\ EndNative(th, "committed")
  /\ lastId' \in IF Writes(cur[th]) THEN {lastId, id[cur[th]]} ELSE {lastId}

\* mdb_txn_commit fails: it has aborted the transaction. The code goes on as after a
\* success and throws (ErrorUtil.CheckRetCode) only after the callback.
CommitFails(th) ==
  /\ pc[th] = "commitNative" /\ Writes(cur[th])
  /\ EndNative(th, "aborted")
  /\ UNCHANGED lastId

AbortNative(th) ==
  /\ pc[th] = "abortNative"
  /\ EndNative(th, "aborted")
  /\ UNCHANGED lastId

\* A slip: the callback is not made.
TransactionDisposed_Keeps(th) ==
  /\ pc[th] = "disposed" /\ mode[cur[th]] # "database"
  /\ Return(th)
  /\ UNCHANGED <<managed, closer, sweep, dbTxnLock, nativeSt, history>>

\* The callback `disposed`: whatever is registered under the id is removed.
TransactionDisposed(th) ==
  /\ pc[th] = "disposed" /\ mode[cur[th]] # "database"
  /\ transactions' = {e \in transactions : e[1] # key[th]}
  /\ Return(th)
  /\ UNCHANGED <<noTls, env, txn, mode, owner, closer, sweep, dbTxnLock, nativeSt, history>>

\* The callback `closed` of a database transaction, under the lock: there is nothing to forget.
DatabaseTransactionClosed(th) ==
  /\ pc[th] = "disposed" /\ mode[cur[th]] = "database"
  /\ dbTxnLock = NoThread
  /\ Return(th)
  /\ UNCHANGED <<managed, closer, sweep, dbTxnLock, nativeSt, history>>

-----------------------------------------------------------------------------
(* Resetting and renewing a reader, by the thread it belongs to *)

\* Reset and Renew up to CheckDisposed.
UseReader(th, t, label) ==
  /\ txn[t] = "open" /\ mode[t] = "read" /\ owner[t] = th
  /\ Enter(th, label)
  /\ cur' = [cur EXCEPT ![th] = t]
  /\ UNCHANGED <<managed, key, closer, sweep, dbTxnLock, nativeSt, shared, moved, refused, fault>>

\* mdb_txn_reset gives up the snapshot and keeps handle, id and slot.
ResetNative(th) ==
  LET t == cur[th] IN
  /\ pc[th] = "reset"
  /\ native' = IF Live(t) THEN [native EXCEPT ![t] = "reset"] ELSE native
  /\ fault' = (fault \/ ~mapped \/ ~Live(t))
  /\ Leave(th)
  /\ UNCHANGED <<managed, closer, sweep, dbTxnLock, mapped, id, lastId, writer, overlap, shared,
                 moved, refused>>

\* mdb_txn_renew takes the current snapshot, and its id. It fails with EINVAL on a handle
\* that was not reset and with MDB_BAD_RSLOT when the thread's slot is in use.
RenewNative(th) ==
  LET t == cur[th]
      renews == native[t] = "reset" /\ SlotFree(th)
  IN
  /\ pc[th] = "renew"
  /\ native' = IF renews THEN [native EXCEPT ![t] = "active"] ELSE native
  /\ id' = IF renews THEN [id EXCEPT ![t] = lastId] ELSE id
  /\ moved' = (moved \/ id' # id)
  /\ fault' = (fault \/ ~mapped \/ ~Live(t))
  /\ Leave(th)
  /\ UNCHANGED <<managed, closer, sweep, dbTxnLock, mapped, lastId, writer, overlap, shared,
                 refused>>

-----------------------------------------------------------------------------
(* Disposing the environment *)

\* Interlocked.Exchange in LmdbEnvironment.Dispose finds a handle. The enumerator of a
\* ConcurrentDictionary takes no snapshot: what is there now is visited unless it is
\* removed first, what is added later may or may not be.
DisposeEnvironment(th) ==
  /\ env
  /\ pc[th] = "idle"
  /\ Goto(th, "closing")
  /\ env' = FALSE
  /\ closer' = th
  /\ sweep' = [todo |-> {t \in Txns : Registered(t)}, seen |-> {}]
  /\ overlap' = (overlap \/ \E other \in Threads \ {th} : pc[other] # "idle")
  /\ UNCHANGED <<noTls, transactions, txn, mode, owner, cur, key, dbTxnLock, nativeSt, shared,
                 moved, refused, fault>>

\* A later Dispose finds zero: it skips to transactions.Clear().
DisposeEnvironmentAgain(th) ==
  /\ ~env
  /\ Enter(th, "clear")
  /\ UNCHANGED <<managed, cur, key, closer, sweep, dbTxnLock, nativeSt, shared, moved, refused,
                 fault>>

\* A slip: the enumeration starts anew after each transaction.
SweepNext_Restarts(th) ==
  /\ pc[th] = "closing"
  /\ \E e \in transactions :
       LET t == e[2] IN
       /\ cur' = [cur EXCEPT ![th] = t]
       /\ txn' = [txn EXCEPT ![t] = "zero"]
       /\ Goto(th, IF txn[t] = "open" THEN "abortNative" ELSE "closing")
  /\ UNCHANGED <<noTls, env, transactions, mode, owner, key, closer, sweep, dbTxnLock, nativeSt,
                 history>>

\* foreach (var txEntry in transactions) txEntry.Value.Dispose()
SweepNext(th) ==
  /\ pc[th] = "closing"
  /\ \E e \in transactions :
       LET t == e[2] IN
       /\ t \notin sweep.seen
       /\ sweep' = [todo |-> sweep.todo, seen |-> sweep.seen \cup {t}]
       /\ cur' = [cur EXCEPT ![th] = t]
       /\ txn' = [txn EXCEPT ![t] = "zero"]
       /\ Goto(th, IF txn[t] = "open" THEN "abortNative" ELSE "closing")
  /\ UNCHANGED <<noTls, env, transactions, mode, owner, key, closer, dbTxnLock, nativeSt, history>>

\* A slip: the environment is closed before the enumeration has come to its end.
SweepEnd_Early(th) ==
  /\ pc[th] = "closing"
  /\ Goto(th, "clearHandles")
  /\ UNCHANGED <<managed, cur, key, closer, sweep, dbTxnLock, nativeSt, history>>

\* The enumeration is over once nothing that was there at its start is left to visit.
SweepEnd(th) ==
  /\ pc[th] = "closing"
  /\ \A t \in sweep.todo : Registered(t) => t \in sweep.seen
  /\ Goto(th, "clearHandles")
  /\ UNCHANGED <<managed, cur, key, closer, sweep, dbTxnLock, nativeSt, history>>

\* A slip: the handles of the databases are cleared without the lock.
ClearHandles_NoLock(th) ==
  /\ pc[th] = "clearHandles"
  /\ Goto(th, "closeNative")
  /\ UNCHANGED <<managed, cur, key, closer, sweep, dbTxnLock, nativeSt, history>>

\* lock (dbTxnLock) around activeDbTxn?.Dispose(), which finds null, and the ClearHandle of every
\* database.
ClearHandles(th) ==
  /\ pc[th] = "clearHandles"
  /\ dbTxnLock = NoThread
  /\ Goto(th, "closeNative")
  /\ UNCHANGED <<managed, cur, key, closer, sweep, dbTxnLock, nativeSt, history>>

\* mdb_env_close
CloseNative(th) ==
  /\ pc[th] = "closeNative"
  /\ mapped' = FALSE
  /\ Goto(th, "clear")
  /\ UNCHANGED <<managed, cur, key, closer, sweep, dbTxnLock, native, id, lastId, writer, history>>

\* transactions.Clear()
ClearTransactions(th) ==
  /\ pc[th] = "clear"
  /\ transactions' = {}
  /\ Goto(th, "clearDatabases")
  /\ UNCHANGED <<noTls, env, txn, mode, owner, cur, key, closer, sweep, dbTxnLock, nativeSt,
                 history>>

\* lock (dbTxnLock) around databases.Clear(); Dispose returns.
ClearDatabases(th) ==
  /\ pc[th] = "clearDatabases"
  /\ dbTxnLock = NoThread
  /\ IF closer = th
     THEN closer' = NoThread /\ sweep' = [todo |-> {}, seen |-> {}]
     ELSE UNCHANGED <<closer, sweep>>
  /\ Leave(th)
  /\ UNCHANGED <<managed, dbTxnLock, nativeSt, history>>

\* ~LmdbEnvironment. The finalizer runs once the program has let go of the environment and of
\* its transactions, each of which refers to it by its callback: no call can follow. Dispose(false)
\* ends no transaction, closes the MDB_env and clears the dictionary.
FinalizeEnvironment ==
  /\ env
  /\ \A th \in Threads : pc[th] = "idle"
  /\ pc' = [th \in Threads |-> "collected"]
  /\ env' = FALSE
  /\ mapped' = FALSE
  /\ transactions' = {}
  /\ UNCHANGED <<noTls, txn, mode, owner, cur, key, closer, sweep, dbTxnLock, native, id, lastId,
                 writer, history>>

-----------------------------------------------------------------------------
\* What the program may call, and the steps of a call once it is made.
Call(th) ==
  \/ \E t \in Txns :
       \/ \E m \in Modes[t] \ {"database"} : BeginTransaction(th, t, m)
       \/ "database" \in Modes[t] /\ BeginDatabaseTransaction(th, t)
       \/ Commit(th, t)
       \/ Dispose(th, t)
       \/ \E label \in {"reset", "renew"} : UseReader(th, t, label)
  \/ DisposeEnvironment(th)
  \/ DisposeEnvironmentAgain(th)

Step(th) ==
  \/ LockDatabase(th) \/ BeginDatabase(th)
  \/ BeginWrite(th) \/ BeginRead(th) \/ BeginFails(th) \/ GetOptions(th)
  \/ AddTransaction(th) \/ ReturnUntracked(th) \/ RefuseTransaction(th)
  \/ DiscardTransaction(th)
  \/ CommitClaim(th) \/ CommitNative(th) \/ CommitFails(th) \/ AbortNative(th)
  \/ TransactionDisposed(th) \/ DatabaseTransactionClosed(th)
  \/ ResetNative(th) \/ RenewNative(th)
  \/ SweepNext(th) \/ SweepEnd(th) \/ ClearHandles(th) \/ CloseNative(th)
  \/ ClearTransactions(th) \/ ClearDatabases(th)

\* What follows a native call on a freed handle is undefined: the model says nothing more. After
\* the finalizer nothing is left to happen.
Undefined == fault /\ UNCHANGED vars
Collected == (\A th \in Threads : pc[th] = "collected") /\ UNCHANGED vars

\* Somebody waits for the writer mutex with dbTxnLock held, and the transaction that has the mutex
\* is open: nobody is ending it.
Blocked == dbTxnLock # NoThread /\ \E t \in Txns : writer = t /\ txn[t] = "open"

\* The program hangs when Dispose waits for that lock and the transaction is of its own thread.
Hangs == (\E th \in Threads : pc[th] = "clearHandles") /\ Blocked /\ UNCHANGED vars

Next ==
  \/ ~fault /\ \E th \in Threads : Call(th) \/ Step(th)
  \/ FinalizeEnvironment
  \/ Undefined \/ Collected \/ Hangs

Spec == Init /\ [][Next]_vars

\* A call that can go on does. It waits for the writer mutex, in mdb_txn_begin, and for dbTxnLock;
\* that the one or the other becomes free is not assumed. Only BeginDatabaseTransaction keeps the
\* lock for longer than a step, once for each transaction, so that weak fairness is enough.
FairSpec == Spec /\ \A th \in Threads : WF_vars(~fault /\ Step(th))

-----------------------------------------------------------------------------
(* Properties *)

EndLabels == {"commitNative", "abortNative", "disposed"}

\* Every variable has its type; ids are natural numbers, and only objects of Txns are registered.
TypeOK ==
  /\ noTls \in BOOLEAN /\ env \in BOOLEAN /\ mapped \in BOOLEAN
  /\ transactions \subseteq Nat \X Txns
  /\ txn \in [Txns -> {"unborn", "open", "zero"}]
  /\ mode \in [Txns -> {"none", "read", "write", "database"}]
  /\ owner \in [Txns -> Threads \cup {NoThread}]
  /\ pc \in [Threads -> Labels]
  /\ cur \in [Threads -> Txns \cup {NoTxn}]
  /\ key \in [Threads -> Nat]
  /\ closer \in Threads \cup {NoThread}
  /\ sweep \in [todo : SUBSET Txns, seen : SUBSET Txns]
  /\ dbTxnLock \in Threads \cup {NoThread}
  /\ native \in [Txns -> NativeStates]
  /\ id \in [Txns -> Nat]
  /\ lastId \in Nat
  /\ writer \in Txns \cup {NoTxn}
  /\ overlap \in BOOLEAN /\ shared \in BOOLEAN /\ moved \in BOOLEAN /\ fault \in BOOLEAN
  /\ refused \subseteq Txns

\* However many threads commit, abort and dispose the same transaction, and whichever of
\* them is the one disposing the environment, one thread ends its MDB_txn, while it is live
\* (Transaction.Commit and Dispose: Interlocked.Exchange).
EndedByOneThread ==
  \A th \in Threads : pc[th] \in {"commitNative", "abortNative"} =>
    /\ Live(cur[th]) /\ txn[cur[th]] = "zero"
    /\ \A other \in Threads \ {th} : cur[other] = cur[th] => pc[other] \notin EndLabels

\* While the environment is open, was not opened with MDB_NOTLS and no Renew has changed an
\* id, every transaction the program can still use is in the dictionary under its own id, database
\* transactions apart: no callback of another one that had the same id has taken it out.
RegistryComplete ==
  env /\ ~noTls /\ ~moved =>
    \A t \in Txns : txn[t] = "open" /\ mode[t] # "database" => <<id[t], t>> \in transactions

\* Unless a Renew has changed an id, an entry of the dictionary is a transaction that is open
\* or whose callback is still to come: nothing stays behind.
RegistrySound ==
  ~moved =>
    \A e \in transactions :
      /\ e[1] = id[e[2]]
      /\ txn[e[2]] = "open" \/ \E th \in Threads : cur[th] = e[2] /\ pc[th] \in EndLabels

\* mdb_env_close finds no live transaction but database transactions, which no dictionary has,
\* when the environment knows all others (no MDB_NOTLS, no Renew to another id) and no call of
\* another thread overlaps Dispose.
CloseFindsNoTransaction ==
  \A th \in Threads : pc[th] = "closeNative" =>
    overlap \/ noTls \/ moved \/ \A t \in Txns : Live(t) => mode[t] = "database"

\* A database transaction that the environment's Dispose did not find was ended after mdb_env_close.
EndedOutlived(th) == pc[th] = "disposed" /\ mode[cur[th]] = "database" /\ ~mapped

\* Under the same conditions, and when only its own thread ends a transaction, no native function
\* ever gets a freed handle, neither of a transaction nor of the environment, but the one that ends
\* a database transaction after the environment was closed.
NoUseAfterFree ==
  fault => overlap \/ shared \/ noTls \/ moved \/ \E th \in Threads : EndedOutlived(th)

\* A thread in mdb_txn_begin on behalf of BeginDatabaseTransaction finds the MDB_env there, however
\* its wait for the writer mutex and the environment's Dispose overlap: Dispose takes dbTxnLock
\* between clearing env and mdb_env_close, and BeginDatabaseTransaction reads env under it.
DatabaseBeginProtected ==
  \A th \in Threads : pc[th] = "begin" /\ mode[cur[th]] = "database" => mapped

\* Every MDB_txn has somebody to end it, its open Transaction or the thread that is beginning or
\* ending it, unless a call overlapped Dispose of the environment: one that is refused, or whose
\* end loses the race of the exchanges, is not left to hold its slot or the writer mutex.
NoNativeLeak ==
  overlap \/ \A t \in Txns : Live(t) =>
    \/ txn[t] = "open"
    \/ \E th \in Threads : /\ cur[th] = t
                          /\ pc[th] \in {"options", "register", "discard", "commitNative", "abortNative"}

\* A thread that has taken a transaction out of service gets to the end of its call; the callback of
\* a database transaction waits for ever only while the lock's holder waits for a transaction that
\* is left open for ever.
EndingCompletes ==
  \A th \in Threads :
    pc[th] \in EndLabels ~>
      pc[th] \notin EndLabels \/ fault \/ [](Blocked /\ mode[cur[th]] = "database")

\* LmdbEnvironment.Dispose comes to an end, whatever the others begin and end meanwhile, unless
\* BeginDatabaseTransaction keeps dbTxnLock for ever, waiting for a transaction that is left open
\* for ever - one of the thread in Dispose, for instance.
DisposeCompletes == closer # NoThread ~> closer = NoThread \/ fault \/ []Blocked

\* The phase of a transaction as its user can tell it.
PhaseOf(t) ==
  CASE txn[t] = "unborn" -> "none"
    [] txn[t] = "open" -> "open"
    [] OTHER -> IF Live(t) THEN "claimed"
                ELSE IF \E th \in Threads : cur[th] = t /\ pc[th] = "disposed" THEN native[t]
                ELSE "closed"

Contract == INSTANCE TransactionContract WITH phase <- [t \in Txns |-> PhaseOf(t)]

\* Every transaction keeps the contract of the class (TransactionContract).
KeepsContract == Contract!Spec

-----------------------------------------------------------------------------
(* What the documentation says and the code does not do *)

\* ReadOnlyTransaction.cs:7: "There can be multiple simultaneously active read-only
\* transactions".
ReadersCoexist == \A t \in refused : mode[t] # "read"
=============================================================================
