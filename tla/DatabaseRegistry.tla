--------------------------- MODULE DatabaseRegistry ---------------------------
(***************************************************************************)
(* Database handles of one LmdbEnvironment (src/Lmdb): how a               *)
(* DatabaseTransaction opens them, keeps them private in newDatabases      *)
(* until it ends, and hands them to the environment's dictionary           *)
(* `databases` when it commits; how Dispose and Drop close them; and the   *)
(* two locks and the native writer mutex these operations take.            *)
(*                                                                         *)
(* The program follows the documentation: a transaction is used by the     *)
(* thread that began it, a database by others only after the Commit that   *)
(* publishes it has returned, one thread closes a database, and nothing    *)
(* runs beside or after the environment's Dispose. A call is cut wherever  *)
(* it gives up the writer mutex, waits for a lock or has let another       *)
(* thread's call change what it has read.                                  *)
(***************************************************************************)
EXTENDS Integers, FiniteSets, SequencesExt

CONSTANTS
  Threads, Txns, Dbs,  \* threads, transaction and Database objects (they bound a behaviour)
  Names,               \* database names, told apart by case as LMDB does
  Fold,                \* StringComparer.OrdinalIgnoreCase: names with equal Fold are one key
  Slots,               \* native dbi values the environment has room for (maxDatabases)
  NoTxn, NoThread, NoDb, NoName

ASSUME DatabaseAssumption ==
  /\ Fold \in [Names -> Names]
  /\ Slots \subseteq Nat \ {0}
  /\ NoTxn \notin Txns /\ NoThread \notin Threads /\ NoDb \notin Dbs /\ NoName \notin Names

VARIABLES
  envOpen,      \* LmdbEnvironment.env is not yet zero
  dbTxnLock,    \* LmdbEnvironment.dbTxnLock: its holder
  databases,    \* LmdbEnvironment.databases: a set of <<folded name, Database>>
  txn,          \* "unborn", "open", or how it ended: the field Transaction.txn is zero
  kind, owner,  \* "db" (DatabaseTransaction) or "write"; the thread that began it
  newDatabases, \* DatabaseTransaction.newDatabases, in the order opened
  name, dbi,    \* Database.Name and the field Database.dbi (0 = disposed)
  creator,      \* the transaction a Database was opened in
  disposed,     \* Database.disposed: "new" (NewDatabaseDisposed) or "committed" (DatabaseDisposed)
  pc, curTxn, curDb, curName, handle,  \* per thread: where it is and its local variables
  table,        \* native: the name each dbi is open for
  fresh,        \* native: the dbis the current write transaction has opened (DB_NEW)
  writer,       \* native: holder of the writer mutex
  lapses        \* history: what has gone wrong so far, see Lapses

objects  == <<name, dbi, creator, disposed>>
txns     == <<txn, kind, owner, newDatabases>>
threads  == <<pc, curTxn, curDb, curName, handle>>
nativeSt == <<table, fresh, writer>>
vars     == <<envOpen, dbTxnLock, databases, objects, txns, threads, nativeSt, lapses>>

Labels == {"idle", "lock", "mutex", "open", "release", "closed", "ended", "committed",
           "closeDbi", "clear", "notify", "lookup"}

\* "aliased": mdb_dbi_open returned a dbi that was open already; "failed": mdb_txn_commit
\* failed; "clash": Committed threw on a taken name; "raced": a write of the dictionary was lost
\* to another thread's.
Lapses == {"aliased", "failed", "clash", "raced"}

KeyTaken(n) == \E e \in databases : e[1] = Fold[n]
Alive(d) == dbi[d] # 0
Goto(th, label) == pc' = [pc EXCEPT ![th] = label]
Leave(th) ==
  /\ Goto(th, "idle")
  /\ curTxn' = [curTxn EXCEPT ![th] = NoTxn]
  /\ curDb' = [curDb EXCEPT ![th] = NoDb]
  /\ curName' = [curName EXCEPT ![th] = NoName]
  /\ handle' = [handle EXCEPT ![th] = 0]

Init ==
  /\ envOpen = TRUE
  /\ dbTxnLock = NoThread
  /\ databases = {}
  /\ txn = [x \in Txns |-> "unborn"]
  /\ kind = [x \in Txns |-> "none"]
  /\ owner = [x \in Txns |-> NoThread]
  /\ newDatabases = [x \in Txns |-> << >>]
  /\ name = [d \in Dbs |-> NoName]
  /\ dbi = [d \in Dbs |-> 0]
  /\ creator = [d \in Dbs |-> NoTxn]
  /\ disposed = [d \in Dbs |-> "none"]
  /\ pc = [th \in Threads |-> "idle"]
  /\ curTxn = [th \in Threads |-> NoTxn]
  /\ curDb = [th \in Threads |-> NoDb]
  /\ curName = [th \in Threads |-> NoName]
  /\ handle = [th \in Threads |-> 0]
  /\ table = [s \in Slots |-> NoName]
  /\ fresh = {}
  /\ writer = NoTxn
  /\ lapses = {}

-----------------------------------------------------------------------------
(* Transactions *)

Idle(th) == envOpen /\ pc[th] = "idle"

\* A thread has one write transaction at a time.
MayBegin(th, x) ==
  /\ Idle(th) /\ kind[x] = "none"
  /\ \A y \in Txns : owner[y] = th => txn[y] \notin {"unborn", "open"}

Begin(th, x, k, label) ==
  /\ MayBegin(th, x)
  /\ kind' = [kind EXCEPT ![x] = k]
  /\ owner' = [owner EXCEPT ![x] = th]
  /\ curTxn' = [curTxn EXCEPT ![th] = x]
  /\ Goto(th, label)
  /\ UNCHANGED <<envOpen, dbTxnLock, databases, objects, txn, newDatabases, curDb, curName,
                 handle, nativeSt, lapses>>

\* BeginDatabaseTransaction takes dbTxnLock first, BeginTransaction no lock.
BeginDatabaseTransaction(th, x) == Begin(th, x, "db", "lock")
BeginWriteTransaction(th, x) == Begin(th, x, "write", "mutex")

\* lock (dbTxnLock). The test of activeDbTxn under it never fails: nothing assigns the field.
LockDbTxn(th) ==
  /\ pc[th] = "lock"
  /\ dbTxnLock = NoThread
  /\ dbTxnLock' = th
  /\ Goto(th, "mutex")
  /\ UNCHANGED <<envOpen, databases, objects, txns, curTxn, curDb, curName, handle, nativeSt,
                 lapses>>

\* mdb_txn_begin waits for the writer mutex, with dbTxnLock held for a database transaction.
BeginNative(th) ==
  LET x == curTxn[th] IN
  /\ pc[th] = "mutex"
  /\ writer = NoTxn
  /\ writer' = x
  /\ txn' = [txn EXCEPT ![x] = "open"]
  /\ dbTxnLock' = IF dbTxnLock = th THEN NoThread ELSE dbTxnLock
  /\ Leave(th)
  /\ UNCHANGED <<envOpen, databases, objects, kind, owner, newDatabases, table, fresh, lapses>>

\* The native end of a write transaction: the mutex is free, and unless the transaction has
\* committed its new dbis are closed. A database transaction has more to do, at label.
EndNative(th, x, result, label) ==
  /\ Idle(th) /\ txn[x] = "open" /\ owner[x] = th
  /\ txn' = [txn EXCEPT ![x] = result]
  /\ table' = IF result = "committed" THEN table
              ELSE [s \in Slots |-> IF s \in fresh THEN NoName ELSE table[s]]
  /\ fresh' = {}
  /\ writer' = NoTxn
  /\ IF kind[x] = "db" THEN curTxn' = [curTxn EXCEPT ![th] = x] /\ Goto(th, label)
                       ELSE UNCHANGED <<curTxn, pc>>
  /\ UNCHANGED <<envOpen, dbTxnLock, databases, objects, kind, owner, newDatabases, curDb,
                 curName, handle>>

\* Commit. ReleaseManagedResources(true) does not touch newDatabases, whatever the result.
Commit(th, x) == EndNative(th, x, "committed", "closed") /\ UNCHANGED lapses
CommitFails(th, x) == EndNative(th, x, "failed", "ended") /\ lapses' = lapses \cup {"failed"}

\* Dispose, Abort.
Dispose(th, x) == EndNative(th, x, "aborted", "release") /\ UNCHANGED lapses

\* A slip: the private databases keep their handles.
ReleaseManagedResources_KeepsHandles(th) ==
  LET x == curTxn[th] IN
  /\ pc[th] = "release"
  /\ newDatabases' = [newDatabases EXCEPT ![x] = << >>]
  /\ Goto(th, "ended")
  /\ UNCHANGED <<envOpen, dbTxnLock, databases, objects, txn, kind, owner, curTxn, curDb,
                 curName, handle, nativeSt, lapses>>

\* ReleaseManagedResources(false): the handles of the private databases are cleared.
ReleaseManagedResources(th) ==
  LET x == curTxn[th] IN
  /\ pc[th] = "release"
  /\ dbi' = [d \in Dbs |-> IF d \in ToSet(newDatabases[x]) THEN 0 ELSE dbi[d]]
  /\ newDatabases' = [newDatabases EXCEPT ![x] = << >>]
  /\ Goto(th, "ended")
  /\ UNCHANGED <<envOpen, dbTxnLock, databases, name, creator, disposed, txn, kind, owner,
                 curTxn, curDb, curName, handle, nativeSt, lapses>>

\* DatabaseTransactionClosed: waits for dbTxnLock to clear activeDbTxn, which is null anyway.
\* After an abort, or a failed commit, which now throws, nothing is left to do.
DatabaseTransactionClosed(th) ==
  /\ dbTxnLock = NoThread
  /\ \/ /\ pc[th] = "closed"
        /\ Goto(th, "committed")
        /\ UNCHANGED <<curTxn, curDb, curName, handle>>
     \/ pc[th] = "ended" /\ Leave(th)
  /\ UNCHANGED <<envOpen, dbTxnLock, databases, objects, txns, nativeSt, lapses>>

\* Committed uses the dictionary without dbTxnLock: another thread writes it at the same time.
Racing(th) ==
  \E t \in Threads \ {th} : \/ pc[t] = "committed"
                            \/ pc[t] = "notify" /\ disposed[curDb[t]] = "committed"

\* Dictionary.Add throws on a name that was there already, or before it in the list.
Clashes(news, i) ==
  \/ KeyTaken(name[news[i]])
  \/ \E j \in 1..(i - 1) : Fold[name[news[j]]] = Fold[name[news[i]]]

\* The databases before the first that clashes.
Added(news) ==
  {news[i] : i \in {k \in DOMAIN news : \A j \in 1..k : ~Clashes(news, j)}}

\* A slip: a dictionary without OrdinalIgnoreCase.
Entry_CaseSensitive(d) == <<name[d], d>>

\* What the dictionary holds for a Database: its key ignores case.
Entry(d) == <<Fold[name[d]], d>>

\* A slip: `committedDatabases[name] = newDb` instead of Add.
Committed_Overwrites(th) ==
  LET x == curTxn[th]
      news == ToSet(newDatabases[x])
      kept == {e \in databases : \A d \in news : e[1] # Fold[name[d]]}
  IN
  /\ pc[th] = "committed"
  /\ databases' = kept \cup {Entry(d) : d \in news}
  /\ disposed' = [d \in Dbs |-> IF d \in news THEN "committed" ELSE disposed[d]]
  /\ newDatabases' = [newDatabases EXCEPT ![x] = << >>]
  /\ Leave(th)
  /\ UNCHANGED <<envOpen, dbTxnLock, name, dbi, creator, txn, kind, owner, nativeSt, lapses>>

\* A slip: the new databases keep the transaction's callback.
Committed_KeepsCallback(th) ==
  LET x == curTxn[th] IN
  /\ pc[th] = "committed"
  /\ databases' = databases \cup {Entry(d) : d \in ToSet(newDatabases[x])}
  /\ newDatabases' = [newDatabases EXCEPT ![x] = << >>]
  /\ Leave(th)
  /\ UNCHANGED <<envOpen, dbTxnLock, objects, txn, kind, owner, nativeSt, lapses>>

\* A slip: TryAdd in place of Add, and what it refuses is passed over.
Committed_SkipsTaken(th) ==
  LET x == curTxn[th]
      added == Added(newDatabases[x])
  IN
  /\ pc[th] = "committed"
  /\ databases' = databases \cup {Entry(d) : d \in added}
  /\ disposed' = [d \in Dbs |-> IF d \in added THEN "committed" ELSE disposed[d]]
  /\ newDatabases' = [newDatabases EXCEPT ![x] = << >>]
  /\ Leave(th)
  /\ UNCHANGED <<envOpen, dbTxnLock, name, dbi, creator, txn, kind, owner, nativeSt, lapses>>

\* Committed: each new database goes into the dictionary and gets the environment's callback,
\* up to the first that clashes; newDatabases is emptied when none did. An unsynchronised write
\* of the dictionary may be lost to another one.
Committed(th) ==
  LET x == curTxn[th]
      added == Added(newDatabases[x])
      clash == added # ToSet(newDatabases[x])
  IN
  /\ pc[th] = "committed"
  /\ \E lost \in IF Racing(th) THEN SUBSET added ELSE {{}} :
       /\ databases' = databases \cup {Entry(d) : d \in added \ lost}
       /\ lapses' = lapses \cup {l \in {"clash"} : clash} \cup {l \in {"raced"} : lost # {}}
  /\ disposed' = [d \in Dbs |-> IF d \in added THEN "committed" ELSE disposed[d]]
  /\ newDatabases' = IF clash THEN newDatabases ELSE [newDatabases EXCEPT ![x] = << >>]
  /\ Leave(th)
  /\ UNCHANGED <<envOpen, dbTxnLock, name, dbi, creator, txn, kind, owner, nativeSt>>

-----------------------------------------------------------------------------
(* Databases *)

\* OpenDatabase, under dbLock: throws when the dictionary has the name. Another thread's Commit
\* may still add it before the next step.
OpenDatabase(th, x, n) ==
  /\ Idle(th) /\ kind[x] = "db" /\ txn[x] = "open" /\ owner[x] = th
  /\ ~KeyTaken(n)
  /\ curTxn' = [curTxn EXCEPT ![th] = x]
  /\ curName' = [curName EXCEPT ![th] = n]
  /\ Goto(th, "open")
  /\ UNCHANGED <<envOpen, dbTxnLock, databases, objects, txns, curDb, handle, nativeSt, lapses>>

\* mdb_dbi_open: the dbi already open for the name, or the lowest free one.
DbiFor(n) ==
  LET opened == {s \in Slots : table[s] = n}
      free == {s \in Slots : table[s] = NoName}
  IN  IF opened # {} THEN opened ELSE {s \in free : \A r \in free : s <= r}

\* mdb_dbi_open and the rest of OpenDatabase: a new Database, private to the transaction.
OpenNative(th, d) ==
  LET x == curTxn[th]
      n == curName[th]
  IN
  /\ pc[th] = "open"
  /\ name[d] = NoName
  /\ \E s \in DbiFor(n) :
       /\ table' = [table EXCEPT ![s] = n]
       /\ fresh' = IF table[s] = n THEN fresh ELSE fresh \cup {s}
       /\ dbi' = [dbi EXCEPT ![d] = s]
       /\ lapses' = lapses \cup {l \in {"aliased"} : table[s] = n}
  /\ name' = [name EXCEPT ![d] = n]
  /\ creator' = [creator EXCEPT ![d] = x]
  /\ disposed' = [disposed EXCEPT ![d] = "new"]
  /\ newDatabases' = [newDatabases EXCEPT ![x] = Append(@, d)]
  /\ Leave(th)
  /\ UNCHANGED <<envOpen, dbTxnLock, databases, txn, kind, owner, writer>>

\* MDB_DBS_FULL, or any other error of mdb_dbi_open: it throws, and dbLock is released.
OpenFails(th) ==
  /\ pc[th] = "open"
  /\ Leave(th)
  /\ UNCHANGED <<envOpen, dbTxnLock, databases, objects, txns, nativeSt, lapses>>

\* What the documentation lets th close: its own transaction's private databases, and published
\* ones no other thread is closing.
MayClose(th, d) ==
  /\ Idle(th) /\ Alive(d)
  /\ \A t \in Threads : curDb[t] # d
  /\ IF disposed[d] = "new" THEN owner[creator[d]] = th
                            ELSE \A t \in Threads : curTxn[t] # creator[d]

\* Database.Dispose: the Exchange.
DisposeDatabase(th, d) ==
  /\ MayClose(th, d)
  /\ handle' = [handle EXCEPT ![th] = dbi[d]]
  /\ dbi' = [dbi EXCEPT ![d] = 0]
  /\ curDb' = [curDb EXCEPT ![th] = d]
  /\ Goto(th, "closeDbi")
  /\ UNCHANGED <<envOpen, dbTxnLock, databases, name, creator, disposed, txns, curTxn, curName,
                 nativeSt, lapses>>

\* mdb_dbi_close: nothing happens when the dbi is free already.
CloseDbi(th) ==
  /\ pc[th] = "closeDbi"
  /\ table' = [table EXCEPT ![handle[th]] = NoName]
  /\ handle' = [handle EXCEPT ![th] = 0]
  /\ Goto(th, "notify")
  /\ UNCHANGED <<envOpen, dbTxnLock, databases, objects, txns, curTxn, curDb, curName, fresh,
                 writer, lapses>>

\* Database.Drop in a write transaction: mdb_drop deletes the database and closes its dbi.
Drop(th, x, d) ==
  /\ MayClose(th, d)
  /\ txn[x] = "open" /\ owner[x] = th
  /\ table' = [table EXCEPT ![dbi[d]] = NoName]
  /\ fresh' = fresh \ {dbi[d]}
  /\ curDb' = [curDb EXCEPT ![th] = d]
  /\ Goto(th, "clear")
  /\ UNCHANGED <<envOpen, dbTxnLock, databases, objects, txns, curTxn, curName, handle, writer,
                 lapses>>

\* A slip: Drop notifies but leaves the handle.
ClearHandle_Forgotten(th) ==
  /\ pc[th] = "clear"
  /\ Goto(th, "notify")
  /\ UNCHANGED <<envOpen, dbTxnLock, databases, objects, txns, curTxn, curDb, curName, handle,
                 nativeSt, lapses>>

\* SetDisposed: ClearHandle, then the callback.
ClearHandle(th) ==
  /\ pc[th] = "clear"
  /\ dbi' = [dbi EXCEPT ![curDb[th]] = 0]
  /\ Goto(th, "notify")
  /\ UNCHANGED <<envOpen, dbTxnLock, databases, name, creator, disposed, txns, curTxn, curDb,
                 curName, handle, nativeSt, lapses>>

\* List.Remove.
Without(s, d) == IF d \in ToSet(s) THEN RemoveAt(s, CHOOSE i \in DOMAIN s : s[i] = d) ELSE s

\* The callback of a private database, under the transaction's dbLock.
NewDatabaseDisposed(th) ==
  LET d == curDb[th] IN
  /\ pc[th] = "notify" /\ disposed[d] = "new"
  /\ newDatabases' = [newDatabases EXCEPT ![creator[d]] = Without(@, d)]
  /\ Leave(th)
  /\ UNCHANGED <<envOpen, dbTxnLock, databases, objects, txn, kind, owner, nativeSt, lapses>>

\* The callback of a committed one waits for dbTxnLock and removes the name, whoever has it.
\* Against a Committed that runs at the same time the removal may be lost.
DatabaseDisposed(th) ==
  LET d == curDb[th]
      left == {e \in databases : e[1] # Fold[name[d]]}
  IN
  /\ pc[th] = "notify" /\ disposed[d] = "committed"
  /\ dbTxnLock = NoThread
  /\ \/ databases' = left /\ UNCHANGED lapses
     \/ Racing(th) /\ UNCHANGED databases /\ lapses' = lapses \cup {"raced"}
  /\ Leave(th)
  /\ UNCHANGED <<envOpen, dbTxnLock, objects, txns, nativeSt>>

\* LmdbEnvironment's indexer and Databases: they wait for dbTxnLock and change nothing.
Lookup(th) ==
  /\ Idle(th)
  /\ Goto(th, "lookup")
  /\ UNCHANGED <<envOpen, dbTxnLock, databases, objects, txns, curTxn, curDb, curName, handle,
                 nativeSt, lapses>>

LookupEnds(th) ==
  /\ pc[th] = "lookup"
  /\ dbTxnLock = NoThread
  /\ Leave(th)
  /\ UNCHANGED <<envOpen, dbTxnLock, databases, objects, txns, nativeSt, lapses>>

\* A slip: Dispose empties the dictionary first.
DisposeEnvironment_ClearsFirst(th) ==
  /\ \A t \in Threads : Idle(t)
  /\ envOpen' = FALSE
  /\ txn' = [x \in Txns |-> IF txn[x] = "open" /\ kind[x] = "write" THEN "aborted" ELSE txn[x]]
  /\ databases' = {}
  /\ table' = [s \in Slots |-> NoName]
  /\ fresh' = {}
  /\ writer' = NoTxn
  /\ UNCHANGED <<dbTxnLock, objects, kind, owner, newDatabases, threads, lapses>>

\* LmdbEnvironment.Dispose(true) with no other call running: the plain transactions are
\* aborted (TransactionRegistry has that part), a database transaction is not since
\* activeDbTxn is null; the handles of the dictionary's databases are cleared.
DisposeEnvironment(th) ==
  /\ \A t \in Threads : Idle(t)
  /\ envOpen' = FALSE
  /\ txn' = [x \in Txns |-> IF txn[x] = "open" /\ kind[x] = "write" THEN "aborted" ELSE txn[x]]
  /\ dbi' = [d \in Dbs |-> IF \E e \in databases : e[2] = d THEN 0 ELSE dbi[d]]
  /\ databases' = {}
  /\ table' = [s \in Slots |-> NoName]
  /\ fresh' = {}
  /\ writer' = NoTxn
  /\ UNCHANGED <<dbTxnLock, name, creator, disposed, kind, owner, newDatabases, threads, lapses>>

-----------------------------------------------------------------------------
(* Specification *)

Transaction(th) ==
  \/ \E x \in Txns : \/ BeginDatabaseTransaction(th, x) \/ BeginWriteTransaction(th, x)
                     \/ Commit(th, x) \/ CommitFails(th, x) \/ Dispose(th, x)
  \/ LockDbTxn(th) \/ BeginNative(th) \/ ReleaseManagedResources(th)
  \/ DatabaseTransactionClosed(th) \/ Committed(th)

Database(th) ==
  \/ \E x \in Txns, n \in Names : OpenDatabase(th, x, n)
  \/ \E d \in Dbs : OpenNative(th, d)
  \/ OpenFails(th)
  \/ \E d \in Dbs : DisposeDatabase(th, d)
  \/ \E x \in Txns, d \in Dbs : Drop(th, x, d)
  \/ CloseDbi(th) \/ ClearHandle(th) \/ NewDatabaseDisposed(th) \/ DatabaseDisposed(th)
  \/ Lookup(th) \/ LookupEnds(th)

Next == \E th \in Threads : Transaction(th) \/ Database(th) \/ DisposeEnvironment(th)

Spec == Init /\ [][Next]_vars

-----------------------------------------------------------------------------
(* Properties *)

\* Every variable has its type.
TypeOK ==
  /\ envOpen \in BOOLEAN
  /\ dbTxnLock \in Threads \cup {NoThread}
  /\ databases \subseteq {Fold[n] : n \in Names} \X Dbs
  /\ txn \in [Txns -> {"unborn", "open", "committed", "failed", "aborted"}]
  /\ kind \in [Txns -> {"none", "db", "write"}]
  /\ owner \in [Txns -> Threads \cup {NoThread}]
  /\ newDatabases \in [Txns -> Seq(Dbs)]
  /\ name \in [Dbs -> Names \cup {NoName}]
  /\ dbi \in [Dbs -> Slots \cup {0}]
  /\ creator \in [Dbs -> Txns \cup {NoTxn}]
  /\ disposed \in [Dbs -> {"none", "new", "committed"}]
  /\ pc \in [Threads -> Labels]
  /\ curTxn \in [Threads -> Txns \cup {NoTxn}]
  /\ curDb \in [Threads -> Dbs \cup {NoDb}]
  /\ curName \in [Threads -> Names \cup {NoName}]
  /\ handle \in [Threads -> Slots \cup {0}]
  /\ table \in [Slots -> Names \cup {NoName}]
  /\ fresh \subseteq Slots
  /\ writer \in Txns \cup {NoTxn}
  /\ lapses \subseteq Lapses

At(label, x) == \E th \in Threads : pc[th] = label /\ curTxn[th] = x
Closing(d) == \E th \in Threads : curDb[th] = d

\* A Database that is not disposed refers to the native handle of its own name, except inside
\* the Drop or the abort that is closing it: the order of close, ClearHandle and callback never
\* lets a thread operate on another database through a reused dbi. A failed commit and a dbi
\* opened twice break this, see the README.
HandlesMatch ==
  lapses \cap {"aliased", "failed"} = {} =>
    \A d \in Dbs : (envOpen /\ Alive(d)) =>
      table[dbi[d]] = name[d] \/ Closing(d) \/ At("release", creator[d])

\* Once Commit has returned, every database it published and nobody has closed is found by
\* name in the environment's dictionary.
CommittedRegistered ==
  lapses = {} =>
    \A d \in Dbs : /\ envOpen /\ Alive(d) /\ ~Closing(d) /\ txn[creator[d]] = "committed"
                   /\ \A th \in Threads : curTxn[th] # creator[d]
                  => Entry(d) \in databases

\* Everything in the dictionary is a committed database that is usable or being closed by a
\* thread that has not yet removed it.
RegistryAlive ==
  "raced" \notin lapses =>
    \A e \in databases : /\ e = Entry(e[2]) /\ txn[creator[e[2]]] = "committed"
                         /\ Alive(e[2]) \/ Closing(e[2])

\* After the abort of a database transaction has returned, none of its databases is usable.
AbortedUnusable ==
  \A d \in Dbs : Alive(d) /\ txn[creator[d]] = "aborted" => At("release", creator[d])

\* No entry is removed, while the environment is open, for the sake of another database of the
\* same name: what leaves the dictionary has been disposed.
RemovedOnlyDisposed ==
  [][(lapses = {} /\ envOpen') => \A e \in databases \ databases' : ~Alive(e[2])]_vars

\* After the environment's Dispose, the only databases that still seem usable are private to a
\* database transaction (LmdbEnvironment.cs 416: "we just set the database handle to 0 ...").
DisposeClearsHandles ==
  (~envOpen /\ lapses = {}) => \A d \in Dbs : Alive(d) => txn[creator[d]] = "open"

Contract == INSTANCE DatabaseContract WITH
  Keys <- {Fold[n] : n \in Names},
  opened <- {d \in Dbs : name[d] # NoName},
  usable <- {d \in Dbs : Alive(d)},
  private <- [x \in Txns |-> ToSet(newDatabases[x])],
  public <- databases,
  broken <- lapses \cap {"clash", "raced"} # {}

\* The environment keeps its promise about databases (DatabaseContract), until Committed throws on
\* a name or loses a write: a commit publishes all of a transaction's databases or none, and only
\* a close takes one out, however the steps of two threads lie.
KeepsContract == Contract!Spec

\* DatabaseTransaction.cs 35: "we won't allow database name conflicts, even before the new
\* database is committed". Two usable databases never share a name. The code violates this.
NoNameConflict ==
  \A d, e \in Dbs : d # e /\ Alive(d) /\ Alive(e) => Fold[name[d]] # Fold[name[e]]

\* Transaction.cs 14: further attempts to begin a write transaction "will block until the first
\* one is committed or aborted". The first one can always get there: its thread never waits for
\* a lock that a thread waiting for its end holds. The code violates this.
NoCircularWait ==
  \A th, t \in Threads :
    ~ /\ pc[th] = "mutex" /\ dbTxnLock = th
      /\ writer # NoTxn /\ owner[writer] = t
      /\ pc[t] = "lookup" \/ (pc[t] = "notify" /\ disposed[curDb[t]] = "committed")

=============================================================================
