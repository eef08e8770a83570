------------------------- MODULE NestedTransactions -------------------------
(***************************************************************************)
(* Nested write transactions of one LmdbEnvironment (src/Lmdb): plain ones *)
(* (BeginTransaction) and database transactions (BeginDatabaseTransaction) *)
(* that begin one inside the other, end in any order, and hand the         *)
(* databases they opened to the environment.                               *)
(*                                                                         *)
(* A write transaction and the ones nested in it belong to one thread, so  *)
(* a call is one action here; TransactionRegistry and DatabaseRegistry     *)
(* have the interleavings of several threads. What is hard is the shape of *)
(* the tree: LMDB ends a nested MDB_txn with its parent, gives all of a    *)
(* tree one id, and takes back a nested commit when the parent aborts; the *)
(* managed Transaction knows its parent but not its children.              *)
(***************************************************************************)
EXTENDS Integers, FiniteSets

CONSTANTS
  Txns, Dbs,   \* Transaction and Database objects (they bound a behaviour)
  Names,       \* database names
  Slots,       \* native dbi values
  NoTxn, NoName

ASSUME NestedAssumption ==
  /\ Slots \subseteq Nat \ {0}
  /\ NoTxn \notin Txns /\ NoName \notin Names

VARIABLES
  envOpen,       \* LmdbEnvironment.env is not yet zero
  transactions,  \* LmdbEnvironment.transactions: a set of <<native id, Transaction>>
  databases,     \* LmdbEnvironment.databases: a set of <<name, Database>>
  txn,           \* the field Transaction.txn: "unborn", "open" or "zero"
  kind,          \* "none", "plain" (Transaction) or "db" (DatabaseTransaction)
  parent,        \* Transaction.parent
  newDatabases,  \* DatabaseTransaction.newDatabases
  name, dbi,     \* Database.Name and the field Database.dbi (0 = disposed)
  live,          \* native: the transactions whose MDB_txn is allocated
  above,         \* native: the MDB_txns an MDB_txn is nested in
  id, lastId,    \* native: mdb_txn_id, and the id of the last top-level commit that wrote
  table,         \* native: the name each dbi is open for
  fresh,         \* native: the dbis an MDB_txn would close if it aborted (DB_NEW)
  refused,       \* history: transactions refused with "same Id exists already"
  lapses,        \* history: what the program or the disk has done so far, see Lapses
  fault          \* history: a native function got a freed handle

managed  == <<envOpen, transactions, databases, txn, kind, parent, newDatabases, name, dbi>>
nativeSt == <<live, above, id, lastId, table, fresh>>
vars     == <<managed, nativeSt, refused, lapses, fault>>

\* "orphaned": a transaction was ended before one nested in it; "withdrawn": a transaction was
\* aborted after a database transaction nested in it had published; "failed": mdb_txn_commit
\* failed; "outlived": the environment was disposed with a database transaction open.
Lapses == {"orphaned", "withdrawn", "failed", "outlived"}

IdTaken(i) == \E e \in transactions : e[1] = i
NameTaken(n) == \E e \in databases : e[1] = n
Alive(d) == dbi[d] # 0
HasChild(x) == \E c \in live : x \in above[c]

Init ==
  /\ envOpen = TRUE
  /\ transactions = {} /\ databases = {}
  /\ txn = [x \in Txns |-> "unborn"]
  /\ kind = [x \in Txns |-> "none"]
  /\ parent = [x \in Txns |-> NoTxn]
  /\ newDatabases = [x \in Txns |-> {}]
  /\ name = [d \in Dbs |-> NoName]
  /\ dbi = [d \in Dbs |-> 0]
  /\ live = {}
  /\ above = [x \in Txns |-> {}]
  /\ id = [x \in Txns |-> 0]
  /\ lastId = 0
  /\ table = [s \in Slots |-> NoName]
  /\ fresh = [x \in Txns |-> {}]
  /\ refused = {} /\ lapses = {} /\ fault = FALSE

-----------------------------------------------------------------------------
(* Beginning a transaction *)

\* BeginTransactionInternal passes parent?.Handle: the handle of a parent that has ended is
\* zero, and the new transaction is then no nested one.
Handle(p) == IF p # NoTxn /\ txn[p] = "open" THEN p ELSE NoTxn

\* A slip: the id of the snapshot before the last commit.
NativeId_OffByOne(h) == IF h = NoTxn THEN lastId - 1 ELSE id[h]

\* A nested MDB_txn has its parent's id.
NativeId(h) == IF h = NoTxn THEN lastId + 1 ELSE id[h]

\* mdb_txn_begin: a parent has one child at a time, and a top-level transaction waits for the
\* writer mutex, which the thread must not hold itself.
BeginTransactionInternal(x, k, p) ==
  LET h == Handle(p) IN
  /\ envOpen /\ kind[x] = "none"
  /\ p # NoTxn => kind[p] # "none" /\ p \notin refused
  /\ IF h = NoTxn THEN live = {} ELSE h \in live /\ ~HasChild(h)
  /\ kind' = [kind EXCEPT ![x] = k]
  /\ parent' = [parent EXCEPT ![x] = p]
  /\ above' = [above EXCEPT ![x] = IF h = NoTxn THEN {} ELSE {h} \cup above[h]]
  /\ id' = [id EXCEPT ![x] = NativeId(h)]
  /\ UNCHANGED <<envOpen, databases, newDatabases, name, dbi, lastId, table, fresh, lapses, fault>>

\* BeginTransaction: TryAdd finds the id free.
BeginTransaction(x, p) ==
  /\ BeginTransactionInternal(x, "plain", p)
  /\ ~IdTaken(id'[x])
  /\ transactions' = transactions \cup {<<id'[x], x>>}
  /\ txn' = [txn EXCEPT ![x] = "open"]
  /\ live' = live \cup {x}
  /\ UNCHANGED refused

\* A slip: the transaction is refused by its own Dispose, callback included.
RefuseTransaction_Disposes(x, p) ==
  /\ BeginTransactionInternal(x, "plain", p)
  /\ IdTaken(id'[x])
  /\ txn' = [txn EXCEPT ![x] = "zero"]
  /\ transactions' = {e \in transactions : e[1] # id'[x]}
  /\ refused' = refused \cup {x}
  /\ UNCHANGED live

\* BeginTransaction: TryAdd fails, mdb_txn_abort, "Transaction with same Id exists already".
RefuseTransaction(x, p) ==
  /\ BeginTransactionInternal(x, "plain", p)
  /\ IdTaken(id'[x])
  /\ refused' = refused \cup {x}
  /\ UNCHANGED <<transactions, txn, live>>

\* BeginDatabaseTransaction registers the transaction nowhere.
BeginDatabaseTransaction(x, p) ==
  /\ BeginTransactionInternal(x, "db", p)
  /\ txn' = [txn EXCEPT ![x] = "open"]
  /\ live' = live \cup {x}
  /\ UNCHANGED <<transactions, refused>>

-----------------------------------------------------------------------------
(* Ending a transaction *)

\* The MDB_txns that end with x, and the dbis they have opened.
Under(x) == {x} \cup {c \in live : x \in above[c]}
Opened(x) == UNION {fresh[c] : c \in Under(x)}

\* A slip: the callback is left out.
Unregister_Nothing(x) == UNCHANGED transactions

\* The callback: TransactionDisposed removes the id, DatabaseTransactionClosed clears
\* activeDbTxn, which is null anyway.
Unregister(x) ==
  transactions' = IF kind[x] = "db" THEN transactions
                  ELSE {e \in transactions : e[1] # id[x]}

\* A slip: the handle is read and not cleared.
End_KeepsHandle(x) ==
  /\ txn[x] = "open" /\ x \in live
  /\ live' = live \ Under(x)
  /\ Unregister(x)
  /\ UNCHANGED <<envOpen, txn, kind, parent, name, above, id, refused, fault>>

\* What Commit and Dispose have in common: the exchange, the native end of x and of what is
\* nested in it, and the callback. No managed child is told.
End(x) ==
  /\ txn[x] = "open" /\ x \in live
  /\ txn' = [txn EXCEPT ![x] = "zero"]
  /\ live' = live \ Under(x)
  /\ Unregister(x)
  /\ UNCHANGED <<envOpen, kind, parent, name, above, id, refused, fault>>

Orphaned(x) == {l \in {"orphaned"} : \E c \in Under(x) \ {x} : txn[c] = "open"}

\* A slip: a nested transaction leaves it to its parent to publish, and forgets.
Committed_TopLevelOnly(x) ==
  /\ databases' = databases \cup {<<name[d], d>> : d \in IF above[x] = {} THEN newDatabases[x] ELSE {}}
  /\ newDatabases' = [newDatabases EXCEPT ![x] = {}]

\* DatabaseTransaction.Committed: the new databases go to the environment's dictionary.
Committed(x) ==
  /\ databases' = databases \cup {<<name[d], d>> : d \in newDatabases[x]}
  /\ newDatabases' = [newDatabases EXCEPT ![x] = {}]

\* Commit. A nested one hands its pages and its new dbis to its parent, a top-level one to the
\* environment, where it may have had nothing to write.
Commit(x) ==
  /\ End(x)
  /\ Committed(x)
  /\ lastId' \in IF above[x] = {} THEN {lastId, id[x]} ELSE {lastId}
  /\ fresh' = [y \in Txns |-> IF y \in Under(x) THEN {}
                              ELSE IF above[x] # {} /\ y = parent[x] THEN fresh[y] \cup Opened(x)
                              ELSE fresh[y]]
  /\ lapses' = lapses \cup Orphaned(x)
  /\ UNCHANGED <<dbi, table>>

\* What an abort does to the dbis opened in x and in what was committed into it.
CloseOpened(x) ==
  /\ table' = [s \in Slots |-> IF s \in Opened(x) THEN NoName ELSE table[s]]
  /\ fresh' = [y \in Txns |-> IF y \in Under(x) THEN {} ELSE fresh[y]]

Withdrawn(x) ==
  {l \in {"withdrawn"} : \E e \in databases : Alive(e[2]) /\ dbi[e[2]] \in Opened(x)}

\* mdb_txn_commit fails and has aborted: ReleaseManagedResources(true) leaves newDatabases, and
\* Commit throws before Committed.
CommitFails(x) ==
  /\ End(x)
  /\ CloseOpened(x)
  /\ lapses' = lapses \cup Orphaned(x) \cup Withdrawn(x) \cup {"failed"}
  /\ UNCHANGED <<databases, newDatabases, dbi, lastId>>

\* A slip: as after a commit, the new databases keep their handles.
Dispose_KeepsHandles(x) ==
  /\ End(x)
  /\ CloseOpened(x)
  /\ newDatabases' = [newDatabases EXCEPT ![x] = {}]
  /\ lapses' = lapses \cup Orphaned(x) \cup Withdrawn(x)
  /\ UNCHANGED <<databases, dbi, lastId>>

\* Dispose and Abort: ReleaseManagedResources clears the handles of x's own new databases.
Dispose(x) ==
  /\ End(x)
  /\ CloseOpened(x)
  /\ dbi' = [d \in Dbs |-> IF d \in newDatabases[x] THEN 0 ELSE dbi[d]]
  /\ newDatabases' = [newDatabases EXCEPT ![x] = {}]
  /\ lapses' = lapses \cup Orphaned(x) \cup Withdrawn(x)
  /\ UNCHANGED <<databases, lastId>>

\* Commit, Dispose, OpenDatabase or a nested begin with a handle that LMDB has freed.
UseFreed(x) ==
  /\ txn[x] = "open" /\ x \notin live
  /\ fault' = TRUE
  /\ UNCHANGED <<managed, nativeSt, refused, lapses>>

-----------------------------------------------------------------------------
(* Databases *)

\* mdb_dbi_open: the dbi already open for the name, or the lowest free one.
DbiFor(n) ==
  LET free == {s \in Slots : table[s] = NoName} IN
  IF \E s \in Slots : table[s] = n THEN {s \in Slots : table[s] = n}
                                   ELSE {s \in free : \A r \in free : s <= r}

\* OpenDatabase in a transaction without an active child (MDB_BAD_TXN otherwise), under a name
\* no usable Database has; DatabaseRegistry has the conflicts of names.
OpenDatabase(x, d, n) ==
  /\ txn[x] = "open" /\ kind[x] = "db" /\ x \in live /\ ~HasChild(x)
  /\ name[d] = NoName /\ ~NameTaken(n)
  /\ \A e \in Dbs : name[e] = n => ~Alive(e)
  /\ \E s \in DbiFor(n) :
       /\ table' = [table EXCEPT ![s] = n]
       /\ fresh' = [fresh EXCEPT ![x] = IF table[s] = n THEN @ ELSE @ \cup {s}]
       /\ dbi' = [dbi EXCEPT ![d] = s]
  /\ name' = [name EXCEPT ![d] = n]
  /\ newDatabases' = [newDatabases EXCEPT ![x] = @ \cup {d}]
  /\ UNCHANGED <<envOpen, transactions, databases, txn, kind, parent, live, above, id, lastId,
                 refused, lapses, fault>>

\* Database.Dispose with its callback: NewDatabaseDisposed of the transaction that opened it, or
\* DatabaseDisposed, which removes the name.
DisposeDatabase(d) ==
  /\ envOpen /\ Alive(d)
  /\ dbi' = [dbi EXCEPT ![d] = 0]
  /\ table' = [table EXCEPT ![dbi[d]] = NoName]
  /\ newDatabases' = [x \in Txns |-> newDatabases[x] \ {d}]
  /\ databases' = IF \E x \in Txns : d \in newDatabases[x] THEN databases
                  ELSE {e \in databases : e[1] # name[d]}
  /\ UNCHANGED <<envOpen, transactions, txn, kind, parent, name, live, above, id, lastId, fresh,
                 refused, lapses, fault>>

\* LmdbEnvironment.Dispose: the registered transactions are disposed, the databases of the
\* dictionary lose their handles, and mdb_env_close frees everything else. A registered
\* transaction that LMDB has freed already is handed to it again.
DisposeEnvironment ==
  LET swept == {e[2] : e \in transactions} IN
  /\ envOpen
  /\ envOpen' = FALSE
  /\ txn' = [x \in Txns |-> IF x \in swept THEN "zero" ELSE txn[x]]
  /\ dbi' = [d \in Dbs |-> IF \E e \in databases : e[2] = d THEN 0 ELSE dbi[d]]
  /\ transactions' = {} /\ databases' = {}
  /\ live' = {}
  /\ table' = [s \in Slots |-> NoName]
  /\ fresh' = [x \in Txns |-> {}]
  /\ lapses' = lapses \cup {l \in {"outlived"} : \E x \in Txns \ swept : txn[x] = "open"}
  /\ fault' = \E x \in swept : x \notin live
  /\ UNCHANGED <<kind, parent, newDatabases, name, above, id, lastId, refused>>

-----------------------------------------------------------------------------
(* Specification *)

\* After a native call on a freed handle anything may happen: the model stops.
Next ==
  /\ ~fault
  /\ \/ \E x \in Txns, p \in Txns \cup {NoTxn} :
          BeginTransaction(x, p) \/ RefuseTransaction(x, p) \/ BeginDatabaseTransaction(x, p)
     \/ \E x \in Txns : Commit(x) \/ CommitFails(x) \/ Dispose(x) \/ UseFreed(x)
     \/ \E x \in Txns, d \in Dbs, n \in Names : OpenDatabase(x, d, n)
     \/ \E d \in Dbs : DisposeDatabase(d)
     \/ DisposeEnvironment

Spec == Init /\ [][Next]_vars

-----------------------------------------------------------------------------
(* Properties *)

\* Every variable has its type.
TypeOK ==
  /\ envOpen \in BOOLEAN /\ fault \in BOOLEAN
  /\ transactions \subseteq Nat \X Txns
  /\ databases \subseteq Names \X Dbs
  /\ txn \in [Txns -> {"unborn", "open", "zero"}]
  /\ kind \in [Txns -> {"none", "plain", "db"}]
  /\ parent \in [Txns -> Txns \cup {NoTxn}]
  /\ newDatabases \in [Txns -> SUBSET Dbs]
  /\ name \in [Dbs -> Names \cup {NoName}]
  /\ dbi \in [Dbs -> Slots \cup {0}]
  /\ live \subseteq Txns
  /\ above \in [Txns -> SUBSET Txns]
  /\ id \in [Txns -> Nat] /\ lastId \in Nat
  /\ table \in [Slots -> Names \cup {NoName}]
  /\ fresh \in [Txns -> SUBSET Slots]
  /\ refused \subseteq Txns
  /\ lapses \subseteq Lapses

\* A transaction keeps its entry in `transactions` until its own end: neither the refusal of a
\* transaction nested in it, which has the same id, nor the end of a nested database transaction
\* takes it out.
ParentStaysRegistered ==
  \A x \in Txns : txn[x] = "open" /\ kind[x] = "plain" => <<id[x], x>> \in transactions

\* A transaction is refused for the sake of one it is nested in, or of one that LMDB has ended
\* with its parent and the program has not disposed: what has been disposed or committed leaves
\* no id behind that would refuse a later transaction.
RefusedForAncestor ==
  [][\A x \in refused' \ refused :
       \E e \in transactions : /\ e[1] = id'[x] /\ txn[e[2]] = "open"
                               /\ e[2] \in above'[x] \/ e[2] \notin live]_vars

\* As long as nested transactions end before the ones they are nested in, and database
\* transactions before the environment, no handle outlives its MDB_txn.
NoUseAfterFree == fault => lapses \cap {"orphaned", "outlived"} # {}

\* The life of a database handle follows the nesting: until a nested commit is taken back, a
\* commit fails or a parent ends first, every usable Database refers to the dbi of its own name
\* and nobody else's, across any nesting of commits and aborts.
HandlesMatch ==
  lapses \cap {"orphaned", "withdrawn", "failed"} = {} /\ envOpen =>
    \A d \in Dbs : Alive(d) => table[dbi[d]] = name[d]

\* A usable Database is found in one place: it is private to a transaction the program still has
\* open or it is in the dictionary under its name, never both, and never in neither unless a
\* commit has failed: no order of nested commits and aborts loses one or publishes it twice.
OnePlace ==
  \A d \in Dbs : envOpen /\ Alive(d) =>
    LET private == \E x \in Txns : txn[x] = "open" /\ d \in newDatabases[x]
        public  == <<name[d], d>> \in databases
    IN  /\ ~(private /\ public)
        /\ private \/ public \/ "failed" \in lapses

Contract == INSTANCE DatabaseContract WITH
  Keys <- Names,
  opened <- {d \in Dbs : name[d] # NoName},
  usable <- {d \in Dbs : Alive(d)},
  private <- newDatabases,
  public <- databases,
  broken <- FALSE

\* Nesting keeps the promise about databases (DatabaseContract): each commit publishes all that
\* the transaction itself has opened, at whatever depth, and only a close or the environment's
\* Dispose takes a database out of the dictionary.
KeepsContract == Contract!Spec

\* LmdbEnvironment.cs 302: "Transactions may be nested to any level." None is refused for its
\* parent's sake. The code violates this.
NestedToAnyLevel == \A x \in refused : parent[x] = NoTxn
=============================================================================
