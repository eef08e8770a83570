------------------------ MODULE NestedTransactionsProofs ------------------------
(***************************************************************************)
(* Proofs about NestedTransactions, for any number of transactions,        *)
(* databases, names and slots: a parent stays registered, every usable     *)
(* Database is in one place and refers to its own dbi, and no handle is    *)
(* used after it was freed as long as children end before their parents.   *)
(***************************************************************************)
EXTENDS NestedTransactions, TLAPS

Calm == lapses \cap {"orphaned", "withdrawn", "failed"} = {} /\ envOpen

\* The dictionary holds open plain transactions under their ids, one per id.
Registry ==
  /\ \A e \in transactions :
       /\ e[1] = id[e[2]] /\ txn[e[2]] = "open" /\ kind[e[2]] = "plain"
       /\ \A f \in transactions : e[1] = f[1] => e = f

\* Live MDB_txns have an open Transaction, and the other way round until a parent ends first or
\* the environment does.
Handles ==
  /\ \A x \in Txns : kind[x] = "none" => txn[x] = "unborn"
  /\ \A x \in live : txn[x] = "open"
  /\ ~envOpen => live = {}
  /\ lapses \cap {"orphaned", "outlived"} = {} => \A x \in Txns : txn[x] = "open" => x \in live

\* The live MDB_txns are nested in one another: one chain, along which `parent` goes up.
Tree ==
  /\ \A y \in live :
       /\ above[y] \subseteq live /\ y \notin above[y]
       /\ \A x \in above[y] : above[x] \subseteq above[y]
       /\ above[y] # {} => parent[y] \in above[y] /\ above[y] = {parent[y]} \cup above[parent[y]]
       /\ \A z \in live : y = z \/ y \in above[z] \/ z \in above[y]

\* A Database is in one list or in the dictionary, and names tell usable databases apart.
Places ==
  /\ \A d \in Dbs : name[d] = NoName => dbi[d] = 0
  /\ \A x \in Txns, d \in Dbs : d \in newDatabases[x] =>
       /\ name[d] # NoName /\ txn[x] # "unborn" /\ kind[x] = "db"
       /\ \A e \in databases : e[2] # d
       /\ \A y \in Txns : d \in newDatabases[y] => x = y
  /\ \A e \in databases : e[1] = name[e[2]]
  /\ \A d, e \in Dbs : Alive(d) /\ Alive(e) /\ name[d] = name[e] => d = e

\* Every open dbi is the one of a usable Database; a transaction that has not ended would close
\* the dbis of its own databases, and nobody but those it is nested in would close them too.
DbiOwners ==
  /\ \A x \in Txns : fresh[x] # {} => x \in live
  /\ Calm =>
       /\ \A s \in Slots : table[s] # NoName => \E d \in Dbs : Alive(d) /\ dbi[d] = s
       /\ \A y \in Txns, d \in Dbs : d \in newDatabases[y] /\ Alive(d) =>
            /\ dbi[d] \in fresh[y]
            /\ \A z \in Txns : dbi[d] \in fresh[z] => z \in {y} \cup above[y]

NestedInv ==
  /\ TypeOK /\ Registry /\ Handles /\ Tree /\ Places /\ DbiOwners
  /\ ParentStaysRegistered /\ NoUseAfterFree /\ OnePlace /\ HandlesMatch

-----------------------------------------------------------------------------
\* A step keeps the types.
LEMMA TypeNext == NestedInv /\ [Next]_vars => TypeOK'
<1> SUFFICES ASSUME NestedInv, [Next]_vars PROVE TypeOK'
  OBVIOUS
<1> USE NestedAssumption DEF TypeOK
<1>a. TypeOK /\ Places
  BY DEF NestedInv
<1>1. ASSUME NEW x \in Txns, NEW p \in Txns \cup {NoTxn}, BeginTransaction(x, p) PROVE TypeOK'
  BY <1>1, <1>a DEF BeginTransaction, BeginTransactionInternal, Handle, NativeId, IdTaken
<1>2. ASSUME NEW x \in Txns, NEW p \in Txns \cup {NoTxn}, RefuseTransaction(x, p) PROVE TypeOK'
  BY <1>2, <1>a DEF RefuseTransaction, BeginTransactionInternal, Handle, NativeId
<1>3. ASSUME NEW x \in Txns, NEW p \in Txns \cup {NoTxn}, BeginDatabaseTransaction(x, p)
      PROVE  TypeOK'
  BY <1>3, <1>a DEF BeginDatabaseTransaction, BeginTransactionInternal, Handle, NativeId
<1>4. ASSUME NEW x \in Txns, Commit(x) PROVE TypeOK'
  <2>1. \A d \in newDatabases[x] : d \in Dbs /\ name[d] \in Names
    BY <1>a DEF Places
  <2>2. databases' \subseteq Names \X Dbs /\ newDatabases' \in [Txns -> SUBSET Dbs]
    BY <1>4, <1>a, <2>1 DEF Commit, Committed
  <2>3. Opened(x) \subseteq Slots
    BY <1>a DEF Opened, Under
  <2>4. fresh' \in [Txns -> SUBSET Slots]
    BY <1>4, <1>a, <2>3 DEF Commit
  <2>5. lapses' \subseteq Lapses
    BY <1>4, <1>a DEF Commit, Orphaned, Lapses
  <2>6. QED
    BY <1>4, <1>a, <2>2, <2>4, <2>5 DEF Commit, End, Unregister
<1>5. ASSUME NEW x \in Txns, CommitFails(x) PROVE TypeOK'
  BY <1>5, <1>a DEF CommitFails, End, CloseOpened, Unregister, Under, Opened, Orphaned,
     Withdrawn, Lapses
<1>6. ASSUME NEW x \in Txns, Dispose(x) PROVE TypeOK'
  BY <1>6, <1>a DEF Dispose, End, CloseOpened, Unregister, Under, Opened, Orphaned,
     Withdrawn, Lapses
<1>7. ASSUME NEW x \in Txns, UseFreed(x) PROVE TypeOK'
  BY <1>7, <1>a DEF UseFreed, managed, nativeSt
<1>8. ASSUME NEW x \in Txns, NEW d \in Dbs, NEW n \in Names, OpenDatabase(x, d, n) PROVE TypeOK'
  BY <1>8, <1>a DEF OpenDatabase, NameTaken, DbiFor, Lapses
<1>9. ASSUME NEW d \in Dbs, DisposeDatabase(d) PROVE TypeOK'
  BY <1>9, <1>a DEF DisposeDatabase
<1>10. ASSUME DisposeEnvironment PROVE TypeOK'
  BY <1>10, <1>a DEF DisposeEnvironment, Lapses
<1>11. CASE UNCHANGED vars
  BY <1>11, <1>a DEF vars, managed, nativeSt
<1>12. QED
  BY <1>1, <1>2, <1>3, <1>4, <1>5, <1>6, <1>7, <1>8, <1>9, <1>10, <1>11 DEF Next

\* A step keeps the dictionary of transactions exact.
LEMMA RegistryNext == NestedInv /\ [Next]_vars => Registry'
<1> SUFFICES ASSUME NestedInv, [Next]_vars PROVE Registry'
  OBVIOUS
<1> USE NestedAssumption DEF TypeOK, Registry, Handles
<1>a. TypeOK /\ Registry /\ Handles
  BY DEF NestedInv
<1>1. ASSUME NEW x \in Txns, NEW p \in Txns \cup {NoTxn}, BeginTransaction(x, p) PROVE Registry'
  BY <1>1, <1>a DEF BeginTransaction, BeginTransactionInternal, Handle, NativeId, IdTaken
<1>2. ASSUME NEW x \in Txns, NEW p \in Txns \cup {NoTxn}, RefuseTransaction(x, p)
      PROVE  Registry'
  BY <1>2, <1>a DEF RefuseTransaction, BeginTransactionInternal, Handle, NativeId
<1>3. ASSUME NEW x \in Txns, NEW p \in Txns \cup {NoTxn}, BeginDatabaseTransaction(x, p)
      PROVE  Registry'
  BY <1>3, <1>a DEF BeginDatabaseTransaction, BeginTransactionInternal, Handle, NativeId
<1>4. ASSUME NEW x \in Txns, Commit(x) PROVE Registry'
  BY <1>4, <1>a DEF Commit, End, Committed, Unregister
<1>5. ASSUME NEW x \in Txns, CommitFails(x) PROVE Registry'
  BY <1>5, <1>a DEF CommitFails, End, CloseOpened, Unregister
<1>6. ASSUME NEW x \in Txns, Dispose(x) PROVE Registry'
  BY <1>6, <1>a DEF Dispose, End, CloseOpened, Unregister
<1>7. ASSUME NEW x \in Txns, UseFreed(x) PROVE Registry'
  BY <1>7, <1>a DEF UseFreed, managed, nativeSt
<1>8. ASSUME NEW x \in Txns, NEW d \in Dbs, NEW n \in Names, OpenDatabase(x, d, n)
      PROVE  Registry'
  BY <1>8, <1>a DEF OpenDatabase, NameTaken, DbiFor
<1>9. ASSUME NEW d \in Dbs, DisposeDatabase(d) PROVE Registry'
  BY <1>9, <1>a DEF DisposeDatabase
<1>10. ASSUME DisposeEnvironment PROVE Registry'
  BY <1>10, <1>a DEF DisposeEnvironment
<1>11. CASE UNCHANGED vars
  BY <1>11, <1>a DEF vars, managed, nativeSt
<1>12. QED
  BY <1>1, <1>2, <1>3, <1>4, <1>5, <1>6, <1>7, <1>8, <1>9, <1>10, <1>11 DEF Next

\* A step takes nobody's entry but the one of the transaction that ends.
LEMMA ParentNext == NestedInv /\ [Next]_vars => ParentStaysRegistered'
<1> SUFFICES ASSUME NestedInv, [Next]_vars PROVE ParentStaysRegistered'
  OBVIOUS
<1> USE NestedAssumption DEF TypeOK, Registry, Handles, ParentStaysRegistered
<1>a. TypeOK /\ Registry /\ Handles /\ ParentStaysRegistered
  BY DEF NestedInv
<1>b. \A x \in Txns : txn[x] = "open" => kind[x] \in {"plain", "db"}
  BY <1>a
<1>1. ASSUME NEW x \in Txns, NEW p \in Txns \cup {NoTxn}, BeginTransaction(x, p)
      PROVE  ParentStaysRegistered'
  BY <1>1, <1>a DEF BeginTransaction, BeginTransactionInternal, Handle, NativeId, IdTaken
<1>2. ASSUME NEW x \in Txns, NEW p \in Txns \cup {NoTxn}, RefuseTransaction(x, p)
      PROVE  ParentStaysRegistered'
  BY <1>2, <1>a DEF RefuseTransaction, BeginTransactionInternal, Handle, NativeId
<1>3. ASSUME NEW x \in Txns, NEW p \in Txns \cup {NoTxn}, BeginDatabaseTransaction(x, p)
      PROVE  ParentStaysRegistered'
  BY <1>3, <1>a DEF BeginDatabaseTransaction, BeginTransactionInternal, Handle, NativeId
<1>4. ASSUME NEW x \in Txns, Commit(x) PROVE ParentStaysRegistered'
  <2> SUFFICES ASSUME NEW u \in Txns, txn'[u] = "open", kind'[u] = "plain"
               PROVE  <<id'[u], u>> \in transactions'
    OBVIOUS
  <2>1. /\ u # x /\ txn[u] = "open" /\ kind[u] = "plain" /\ txn[x] = "open"
        /\ Unregister(x) /\ UNCHANGED <<id, kind>>
    BY <1>4, <1>a DEF Commit, End
  <2>2. <<id[u], u>> \in transactions
    BY <2>1, <1>a
  <2>3. kind[x] # "db" => <<id[x], x>> \in transactions
    BY <2>1, <1>b, <1>a
  <2>4. kind[x] # "db" => id[u] # id[x]
    BY <2>1, <2>2, <2>3, <1>a
  <2>5. QED
    BY <2>1, <2>2, <2>4 DEF Unregister
<1>5. ASSUME NEW x \in Txns, CommitFails(x) PROVE ParentStaysRegistered'
  <2> SUFFICES ASSUME NEW u \in Txns, txn'[u] = "open", kind'[u] = "plain"
               PROVE  <<id'[u], u>> \in transactions'
    OBVIOUS
  <2>1. /\ u # x /\ txn[u] = "open" /\ kind[u] = "plain" /\ txn[x] = "open"
        /\ Unregister(x) /\ UNCHANGED <<id, kind>>
    BY <1>5, <1>a DEF CommitFails, End
  <2>2. <<id[u], u>> \in transactions
    BY <2>1, <1>a
  <2>3. kind[x] # "db" => <<id[x], x>> \in transactions
    BY <2>1, <1>b, <1>a
  <2>4. kind[x] # "db" => id[u] # id[x]
    BY <2>1, <2>2, <2>3, <1>a
  <2>5. QED
    BY <2>1, <2>2, <2>4 DEF Unregister
<1>6. ASSUME NEW x \in Txns, Dispose(x) PROVE ParentStaysRegistered'
  <2> SUFFICES ASSUME NEW u \in Txns, txn'[u] = "open", kind'[u] = "plain"
               PROVE  <<id'[u], u>> \in transactions'
    OBVIOUS
  <2>1. /\ u # x /\ txn[u] = "open" /\ kind[u] = "plain" /\ txn[x] = "open"
        /\ Unregister(x) /\ UNCHANGED <<id, kind>>
    BY <1>6, <1>a DEF Dispose, End
  <2>2. <<id[u], u>> \in transactions
    BY <2>1, <1>a
  <2>3. kind[x] # "db" => <<id[x], x>> \in transactions
    BY <2>1, <1>b, <1>a
  <2>4. kind[x] # "db" => id[u] # id[x]
    BY <2>1, <2>2, <2>3, <1>a
  <2>5. QED
    BY <2>1, <2>2, <2>4 DEF Unregister
<1>7. ASSUME NEW x \in Txns, UseFreed(x) PROVE ParentStaysRegistered'
  BY <1>7, <1>a DEF UseFreed, managed, nativeSt
<1>8. ASSUME NEW x \in Txns, NEW d \in Dbs, NEW n \in Names, OpenDatabase(x, d, n)
      PROVE  ParentStaysRegistered'
  BY <1>8, <1>a DEF OpenDatabase, NameTaken, DbiFor
<1>9. ASSUME NEW d \in Dbs, DisposeDatabase(d) PROVE ParentStaysRegistered'
  BY <1>9, <1>a DEF DisposeDatabase
<1>10. ASSUME DisposeEnvironment PROVE ParentStaysRegistered'
  <2> SUFFICES ASSUME NEW u \in Txns, txn'[u] = "open", kind'[u] = "plain"  PROVE FALSE
    BY <1>10, <1>a
  <2>1. txn[u] = "open" /\ kind[u] = "plain" /\ u \notin {e[2] : e \in transactions}
    BY <1>10, <1>a DEF DisposeEnvironment
  <2>2. <<id[u], u>> \in transactions
    BY <2>1, <1>a
  <2>3. QED
    BY <2>1, <2>2
<1>11. CASE UNCHANGED vars
  BY <1>11, <1>a DEF vars, managed, nativeSt
<1>12. QED
  BY <1>1, <1>2, <1>3, <1>4, <1>5, <1>6, <1>7, <1>8, <1>9, <1>10, <1>11 DEF Next

\* A step ends no MDB_txn under an open Transaction without being recorded.
LEMMA HandlesNext == NestedInv /\ [Next]_vars => Handles'
<1> SUFFICES ASSUME NestedInv, [Next]_vars PROVE Handles'
  OBVIOUS
<1> USE NestedAssumption DEF TypeOK, Handles, Registry
<1>a. TypeOK /\ Handles /\ Registry /\ ParentStaysRegistered
  BY DEF NestedInv
<1>1. ASSUME NEW x \in Txns, NEW p \in Txns \cup {NoTxn}, BeginTransaction(x, p) PROVE Handles'
  BY <1>1, <1>a DEF BeginTransaction, BeginTransactionInternal, Handle, NativeId, IdTaken
<1>2. ASSUME NEW x \in Txns, NEW p \in Txns \cup {NoTxn}, RefuseTransaction(x, p) PROVE Handles'
  BY <1>2, <1>a DEF RefuseTransaction, BeginTransactionInternal, Handle, NativeId
<1>3. ASSUME NEW x \in Txns, NEW p \in Txns \cup {NoTxn}, BeginDatabaseTransaction(x, p)
      PROVE  Handles'
  BY <1>3, <1>a DEF BeginDatabaseTransaction, BeginTransactionInternal, Handle, NativeId
<1>4. ASSUME NEW x \in Txns, Commit(x) PROVE Handles'
  BY <1>4, <1>a DEF Commit, End, Committed, Unregister, Under, Orphaned
<1>5. ASSUME NEW x \in Txns, CommitFails(x) PROVE Handles'
  BY <1>5, <1>a DEF CommitFails, End, CloseOpened, Unregister, Under, Orphaned
<1>6. ASSUME NEW x \in Txns, Dispose(x) PROVE Handles'
  BY <1>6, <1>a DEF Dispose, End, CloseOpened, Unregister, Under, Orphaned
<1>7. ASSUME NEW x \in Txns, UseFreed(x) PROVE Handles'
  BY <1>7, <1>a DEF UseFreed, managed, nativeSt
<1>8. ASSUME NEW x \in Txns, NEW d \in Dbs, NEW n \in Names, OpenDatabase(x, d, n)
      PROVE  Handles'
  BY <1>8, <1>a DEF OpenDatabase, NameTaken, DbiFor
<1>9. ASSUME NEW d \in Dbs, DisposeDatabase(d) PROVE Handles'
  BY <1>9, <1>a DEF DisposeDatabase
<1>10. ASSUME DisposeEnvironment PROVE Handles'
  <2> DEFINE swept == {e[2] : e \in transactions}
  <2>1. /\ live' = {} /\ kind' = kind
        /\ txn' = [x \in Txns |-> IF x \in swept THEN "zero" ELSE txn[x]]
        /\ lapses' = lapses \cup {l \in {"outlived"} : \E x \in Txns \ swept : txn[x] = "open"}
    BY <1>10 DEF DisposeEnvironment
  <2>2. ASSUME NEW x \in Txns, kind'[x] = "none" PROVE txn'[x] = "unborn"
    <3>1. txn[x] = "unborn" /\ x \notin swept
      BY <2>1, <2>2, <1>a
    <3>2. QED
      BY <3>1, <2>1
  <2>3. ASSUME NEW x \in Txns, txn'[x] = "open" PROVE "outlived" \in lapses'
    BY <2>1, <2>3
  <2>4. QED
    BY <2>1, <2>2, <2>3
<1>11. CASE UNCHANGED vars
  BY <1>11, <1>a DEF vars, managed, nativeSt
<1>12. QED
  BY <1>1, <1>2, <1>3, <1>4, <1>5, <1>6, <1>7, <1>8, <1>9, <1>10, <1>11 DEF Next

\* A freed handle is used only after a parent, or the environment, has ended first.
LEMMA FreeNext == NestedInv /\ [Next]_vars => NoUseAfterFree'
<1> SUFFICES ASSUME NestedInv, [Next]_vars PROVE NoUseAfterFree'
  OBVIOUS
<1> USE NestedAssumption DEF TypeOK, Handles, Registry, NoUseAfterFree
<1>a. TypeOK /\ Handles /\ Registry /\ NoUseAfterFree
  BY DEF NestedInv
<1>1. ASSUME NEW x \in Txns, NEW p \in Txns \cup {NoTxn}, BeginTransaction(x, p)
      PROVE  NoUseAfterFree'
  BY <1>1, <1>a DEF BeginTransaction, BeginTransactionInternal, Handle, NativeId, IdTaken
<1>2. ASSUME NEW x \in Txns, NEW p \in Txns \cup {NoTxn}, RefuseTransaction(x, p)
      PROVE  NoUseAfterFree'
  BY <1>2, <1>a DEF RefuseTransaction, BeginTransactionInternal, Handle, NativeId
<1>3. ASSUME NEW x \in Txns, NEW p \in Txns \cup {NoTxn}, BeginDatabaseTransaction(x, p)
      PROVE  NoUseAfterFree'
  BY <1>3, <1>a DEF BeginDatabaseTransaction, BeginTransactionInternal, Handle, NativeId
<1>4. ASSUME NEW x \in Txns, Commit(x) PROVE NoUseAfterFree'
  BY <1>4, <1>a DEF Commit, End, Committed, Unregister
<1>5. ASSUME NEW x \in Txns, CommitFails(x) PROVE NoUseAfterFree'
  BY <1>5, <1>a DEF CommitFails, End, CloseOpened, Unregister
<1>6. ASSUME NEW x \in Txns, Dispose(x) PROVE NoUseAfterFree'
  BY <1>6, <1>a DEF Dispose, End, CloseOpened, Unregister
<1>7. ASSUME NEW x \in Txns, UseFreed(x) PROVE NoUseAfterFree'
  BY <1>7, <1>a DEF UseFreed, managed, nativeSt
<1>8. ASSUME NEW x \in Txns, NEW d \in Dbs, NEW n \in Names, OpenDatabase(x, d, n)
      PROVE  NoUseAfterFree'
  BY <1>8, <1>a DEF OpenDatabase, NameTaken, DbiFor
<1>9. ASSUME NEW d \in Dbs, DisposeDatabase(d) PROVE NoUseAfterFree'
  BY <1>9, <1>a DEF DisposeDatabase
<1>10. ASSUME DisposeEnvironment PROVE NoUseAfterFree'
  <2>1. /\ fault' => \E e \in transactions : e[2] \notin live
        /\ lapses \subseteq lapses'
    BY <1>10 DEF DisposeEnvironment
  <2>2. \A e \in transactions : e[2] \in Txns /\ txn[e[2]] = "open"
    BY <1>a
  <2>3. ASSUME NEW e \in transactions, e[2] \notin live
        PROVE  lapses \cap {"orphaned", "outlived"} # {}
    <3>1. e[2] \in Txns /\ txn[e[2]] = "open"
      BY <2>2
    <3>2. QED
      BY <3>1, <2>3, <1>a
  <2>4. QED
    BY <2>1, <2>3, <1>a
<1>11. CASE UNCHANGED vars
  BY <1>11, <1>a DEF vars, managed, nativeSt
<1>12. QED
  BY <1>1, <1>2, <1>3, <1>4, <1>5, <1>6, <1>7, <1>8, <1>9, <1>10, <1>11 DEF Next

\* A step keeps the live MDB_txns one chain.
LEMMA TreeNext == NestedInv /\ [Next]_vars => Tree'
<1> SUFFICES ASSUME NestedInv, [Next]_vars PROVE Tree'
  OBVIOUS
<1> USE NestedAssumption DEF TypeOK, Handles, Tree
<1>a. TypeOK /\ Handles /\ Tree
  BY DEF NestedInv
<1>1. ASSUME NEW x \in Txns, NEW p \in Txns \cup {NoTxn}, BeginTransaction(x, p) PROVE Tree'
  BY <1>1, <1>a DEF BeginTransaction, BeginTransactionInternal, Handle, NativeId, IdTaken,
     HasChild
<1>2. ASSUME NEW x \in Txns, NEW p \in Txns \cup {NoTxn}, RefuseTransaction(x, p) PROVE Tree'
  BY <1>2, <1>a DEF RefuseTransaction, BeginTransactionInternal, Handle, NativeId
<1>3. ASSUME NEW x \in Txns, NEW p \in Txns \cup {NoTxn}, BeginDatabaseTransaction(x, p)
      PROVE  Tree'
  BY <1>3, <1>a DEF BeginDatabaseTransaction, BeginTransactionInternal, Handle, NativeId,
     HasChild
<1>4. ASSUME NEW x \in Txns, Commit(x) PROVE Tree'
  BY <1>4, <1>a DEF Commit, End, Committed, Unregister, Under
<1>5. ASSUME NEW x \in Txns, CommitFails(x) PROVE Tree'
  BY <1>5, <1>a DEF CommitFails, End, CloseOpened, Unregister, Under
<1>6. ASSUME NEW x \in Txns, Dispose(x) PROVE Tree'
  BY <1>6, <1>a DEF Dispose, End, CloseOpened, Unregister, Under
<1>7. ASSUME NEW x \in Txns, UseFreed(x) PROVE Tree'
  BY <1>7, <1>a DEF UseFreed, managed, nativeSt
<1>8. ASSUME NEW x \in Txns, NEW d \in Dbs, NEW n \in Names, OpenDatabase(x, d, n) PROVE Tree'
  BY <1>8, <1>a DEF OpenDatabase, NameTaken, DbiFor
<1>9. ASSUME NEW d \in Dbs, DisposeDatabase(d) PROVE Tree'
  BY <1>9, <1>a DEF DisposeDatabase
<1>10. ASSUME DisposeEnvironment PROVE Tree'
  BY <1>10, <1>a DEF DisposeEnvironment
<1>11. CASE UNCHANGED vars
  BY <1>11, <1>a DEF vars, managed, nativeSt
<1>12. QED
  BY <1>1, <1>2, <1>3, <1>4, <1>5, <1>6, <1>7, <1>8, <1>9, <1>10, <1>11 DEF Next

\* A step keeps a Database in one list or in the dictionary.
LEMMA PlacesNext == NestedInv /\ [Next]_vars => Places'
<1> SUFFICES ASSUME NestedInv, [Next]_vars PROVE Places'
  OBVIOUS
<1> USE NestedAssumption DEF TypeOK, Handles, Places, Alive
<1>a. TypeOK /\ Handles /\ Places
  BY DEF NestedInv
<1>1. ASSUME NEW x \in Txns, NEW p \in Txns \cup {NoTxn}, BeginTransaction(x, p) PROVE Places'
  BY <1>1, <1>a DEF BeginTransaction, BeginTransactionInternal, Handle, NativeId, IdTaken
<1>2. ASSUME NEW x \in Txns, NEW p \in Txns \cup {NoTxn}, RefuseTransaction(x, p) PROVE Places'
  BY <1>2, <1>a DEF RefuseTransaction, BeginTransactionInternal, Handle, NativeId
<1>3. ASSUME NEW x \in Txns, NEW p \in Txns \cup {NoTxn}, BeginDatabaseTransaction(x, p)
      PROVE  Places'
  BY <1>3, <1>a DEF BeginDatabaseTransaction, BeginTransactionInternal, Handle, NativeId
<1>4. ASSUME NEW x \in Txns, Commit(x) PROVE Places'
  BY <1>4, <1>a DEF Commit, End, Committed, Unregister
<1>5. ASSUME NEW x \in Txns, CommitFails(x) PROVE Places'
  BY <1>5, <1>a DEF CommitFails, End, CloseOpened, Unregister
<1>6. ASSUME NEW x \in Txns, Dispose(x) PROVE Places'
  BY <1>6, <1>a DEF Dispose, End, CloseOpened, Unregister
<1>7. ASSUME NEW x \in Txns, UseFreed(x) PROVE Places'
  BY <1>7, <1>a DEF UseFreed, managed, nativeSt
<1>8. ASSUME NEW x \in Txns, NEW d \in Dbs, NEW n \in Names, OpenDatabase(x, d, n) PROVE Places'
  BY <1>8, <1>a DEF OpenDatabase, NameTaken, DbiFor
<1>9. ASSUME NEW d \in Dbs, DisposeDatabase(d) PROVE Places'
  BY <1>9, <1>a DEF DisposeDatabase
<1>10. ASSUME DisposeEnvironment PROVE Places'
  BY <1>10, <1>a DEF DisposeEnvironment
<1>11. CASE UNCHANGED vars
  BY <1>11, <1>a DEF vars, managed, nativeSt
<1>12. QED
  BY <1>1, <1>2, <1>3, <1>4, <1>5, <1>6, <1>7, <1>8, <1>9, <1>10, <1>11 DEF Next

\* A step moves a Database to the dictionary or leaves it where it is.
LEMMA OnePlaceNext == NestedInv /\ [Next]_vars => OnePlace'
<1> SUFFICES ASSUME NestedInv, [Next]_vars PROVE OnePlace'
  OBVIOUS
<1> USE NestedAssumption DEF TypeOK, Handles, Places, Alive, OnePlace
<1>a. TypeOK /\ Handles /\ Places /\ OnePlace
  BY DEF NestedInv
<1>1. ASSUME NEW x \in Txns, NEW p \in Txns \cup {NoTxn}, BeginTransaction(x, p) PROVE OnePlace'
  BY <1>1, <1>a DEF BeginTransaction, BeginTransactionInternal, Handle, NativeId, IdTaken
<1>2. ASSUME NEW x \in Txns, NEW p \in Txns \cup {NoTxn}, RefuseTransaction(x, p)
      PROVE  OnePlace'
  BY <1>2, <1>a DEF RefuseTransaction, BeginTransactionInternal, Handle, NativeId
<1>3. ASSUME NEW x \in Txns, NEW p \in Txns \cup {NoTxn}, BeginDatabaseTransaction(x, p)
      PROVE  OnePlace'
  BY <1>3, <1>a DEF BeginDatabaseTransaction, BeginTransactionInternal, Handle, NativeId
<1>4. ASSUME NEW x \in Txns, Commit(x) PROVE OnePlace'
  BY <1>4, <1>a DEF Commit, End, Committed, Unregister
<1>5. ASSUME NEW x \in Txns, CommitFails(x) PROVE OnePlace'
  BY <1>5, <1>a DEF CommitFails, End, CloseOpened, Unregister
<1>6. ASSUME NEW x \in Txns, Dispose(x) PROVE OnePlace'
  BY <1>6, <1>a DEF Dispose, End, CloseOpened, Unregister
<1>7. ASSUME NEW x \in Txns, UseFreed(x) PROVE OnePlace'
  BY <1>7, <1>a DEF UseFreed, managed, nativeSt
<1>8. ASSUME NEW x \in Txns, NEW d \in Dbs, NEW n \in Names, OpenDatabase(x, d, n)
      PROVE  OnePlace'
  BY <1>8, <1>a DEF OpenDatabase, NameTaken, DbiFor
<1>9. ASSUME NEW d \in Dbs, DisposeDatabase(d) PROVE OnePlace'
  BY <1>9, <1>a DEF DisposeDatabase
<1>10. ASSUME DisposeEnvironment PROVE OnePlace'
  BY <1>10, <1>a DEF DisposeEnvironment
<1>11. CASE UNCHANGED vars
  BY <1>11, <1>a DEF vars, managed, nativeSt
<1>12. QED
  BY <1>1, <1>2, <1>3, <1>4, <1>5, <1>6, <1>7, <1>8, <1>9, <1>10, <1>11 DEF Next

\* A transaction that ends without leaving an orphan ends alone.
LEMMA EndsAlone ==
  ASSUME NestedInv, NEW x \in Txns, Commit(x) \/ Dispose(x), "orphaned" \notin lapses'
  PROVE  Under(x) = {x} /\ Opened(x) = fresh[x]
<1>1. Orphaned(x) \subseteq lapses'
  BY DEF Commit, Dispose
<1>2. \A c \in Under(x) \ {x} : txn[c] # "open"
  BY <1>1 DEF Orphaned
<1>3. \A c \in live : x \in above[c] => c = x
  BY <1>2 DEF Under, NestedInv, Handles
<1>4. Under(x) = {x}
  BY <1>3 DEF Under
<1>5. QED
  BY <1>4 DEF Opened

\* As long as nothing has gone wrong, an abort closes exactly the dbis of its own databases.
LEMMA ClosesOwn ==
  ASSUME NestedInv, NEW x \in Txns, Dispose(x), Calm'
  PROVE  /\ Calm
         /\ \A d \in Dbs : Alive(d) => (d \in newDatabases[x] <=> dbi[d] \in fresh[x])
<1> USE DEF NestedInv
<1>1. Calm /\ "orphaned" \notin lapses' /\ Withdrawn(x) = {} /\ x \in live
  BY DEF Dispose, End, Calm, Withdrawn
<1>2. Under(x) = {x} /\ Opened(x) = fresh[x]
  BY <1>1, EndsAlone
<1>3. ASSUME NEW d \in Dbs, Alive(d), dbi[d] \in fresh[x] PROVE d \in newDatabases[x]
  <2>1. <<name[d], d>> \notin databases
    <3>1. SUFFICES ASSUME <<name[d], d>> \in databases PROVE FALSE
      OBVIOUS
    <3>2. \E e \in databases : Alive(e[2]) /\ dbi[e[2]] \in Opened(x)
      <4>1. <<name[d], d>>[2] = d
        OBVIOUS
      <4>2. QED
        BY <1>2, <1>3, <3>1, <4>1
    <3>3. QED
      BY <1>1, <3>2 DEF Withdrawn
  <2>2. PICK y \in Txns : txn[y] = "open" /\ d \in newDatabases[y]
    BY <1>1, <1>3, <2>1 DEF OnePlace, Calm
  <2>3. x \in {y} \cup above[y]
    BY <1>1, <1>3, <2>2 DEF DbiOwners
  <2>4. y \in live \/ "outlived" \in lapses
    BY <1>1, <2>2 DEF Handles, Calm
  <2>5. fresh[y] # {}
    BY <1>1, <1>3, <2>2 DEF DbiOwners
  <2>6. y \in live
    BY <2>5 DEF DbiOwners
  <2>7. QED
    BY <1>2, <2>2, <2>3, <2>6 DEF Under
<1>4. \A d \in newDatabases[x] : d \in Dbs /\ (Alive(d) => dbi[d] \in fresh[x])
  BY <1>1 DEF DbiOwners, TypeOK
<1>5. QED
  BY <1>1, <1>3, <1>4

\* A step leaves every open dbi with its owner.
LEMMA OwnersNext == NestedInv /\ [Next]_vars => DbiOwners'
<1> SUFFICES ASSUME NestedInv, [Next]_vars PROVE DbiOwners'
  OBVIOUS
<1> USE NestedAssumption DEF TypeOK, Alive, Calm, DbiOwners
<1>a. TypeOK /\ Handles /\ Tree /\ Places /\ DbiOwners /\ HandlesMatch /\ OnePlace
  BY DEF NestedInv
<1>1. ASSUME NEW x \in Txns, NEW p \in Txns \cup {NoTxn}, BeginTransaction(x, p)
      PROVE  DbiOwners'
  BY <1>1, <1>a DEF BeginTransaction, BeginTransactionInternal, Handle, NativeId, IdTaken,
     Handles
<1>2. ASSUME NEW x \in Txns, NEW p \in Txns \cup {NoTxn}, RefuseTransaction(x, p)
      PROVE  DbiOwners'
  BY <1>2, <1>a DEF RefuseTransaction, BeginTransactionInternal, Handle, NativeId, Handles
<1>3. ASSUME NEW x \in Txns, NEW p \in Txns \cup {NoTxn}, BeginDatabaseTransaction(x, p)
      PROVE  DbiOwners'
  BY <1>3, <1>a DEF BeginDatabaseTransaction, BeginTransactionInternal, Handle, NativeId,
     Handles
<1>4. ASSUME NEW x \in Txns, Commit(x) PROVE DbiOwners'
  <2>1. ASSUME NEW y \in Txns, fresh'[y] # {} PROVE y \in live'
    <3>1. CASE y # parent[x] \/ above[x] = {}
      BY <1>4, <1>a, <2>1, <3>1 DEF Commit, End, Under
    <3>2. CASE y = parent[x] /\ above[x] # {}
      BY <1>4, <1>a, <3>2 DEF Commit, End, Under, Tree
    <3>3. QED
      BY <3>1, <3>2
  <2>2. ASSUME Calm'
        PROVE  /\ \A s \in Slots : table'[s] # NoName => \E d \in Dbs : Alive(d)' /\ dbi'[d] = s
               /\ \A y \in Txns, d \in Dbs : d \in newDatabases'[y] /\ Alive(d)' =>
                    /\ dbi'[d] \in fresh'[y]
                    /\ \A z \in Txns : dbi'[d] \in fresh'[z] => z \in {y} \cup above'[y]
    <3>1. Calm /\ x \in live /\ UNCHANGED <<dbi, table, above>>
          /\ newDatabases' = [newDatabases EXCEPT ![x] = {}]
      BY <1>4, <2>2 DEF Commit, Committed, End
    <3>2. Under(x) = {x} /\ Opened(x) = fresh[x]
      BY <1>4, <2>2, EndsAlone
    <3>3. fresh' = [y \in Txns |-> IF y = x THEN {}
                                  ELSE IF above[x] # {} /\ y = parent[x] THEN fresh[y] \cup fresh[x]
                                  ELSE fresh[y]]
      BY <1>4, <3>2 DEF Commit
    <3>4. ASSUME NEW y \in Txns, NEW d \in Dbs, d \in newDatabases'[y], Alive(d)'
          PROVE  /\ dbi[d] \in fresh'[y]
                 /\ \A z \in Txns : dbi[d] \in fresh'[z] => z \in {y} \cup above[y]
      <4>1. y # x /\ d \in newDatabases[y] /\ Alive(d) /\ dbi[d] \in fresh[y] /\ y \in live
        BY <3>1, <3>4, <1>a
      <4>2. dbi[d] \notin fresh[x]
        <5>1. dbi[d] \in fresh[x] => x \in {y} \cup above[y]
          BY <3>1, <4>1, <1>a
        <5>2. QED
          BY <3>2, <4>1, <5>1 DEF Under
      <4>3. \A z \in Txns : dbi[d] \in fresh'[z] => dbi[d] \in fresh[z]
        BY <3>3, <4>2, <1>a
      <4>4. QED
        BY <3>1, <3>3, <4>1, <4>3, <1>a
    <3>5. QED
      BY <3>1, <3>4, <1>a
  <2>3. QED
    BY <2>1, <2>2
<1>5. ASSUME NEW x \in Txns, CommitFails(x) PROVE DbiOwners'
  BY <1>5, <1>a DEF CommitFails, End, CloseOpened, Unregister, Under, Opened, Orphaned, Handles
<1>6. ASSUME NEW x \in Txns, Dispose(x) PROVE DbiOwners'
  <2>1. ASSUME NEW y \in Txns, fresh'[y] # {} PROVE y \in live'
    BY <1>6, <1>a, <2>1 DEF Dispose, End, CloseOpened, Under
  <2>2. ASSUME Calm'
        PROVE  /\ \A s \in Slots : table'[s] # NoName => \E d \in Dbs : Alive(d)' /\ dbi'[d] = s
               /\ \A y \in Txns, d \in Dbs : d \in newDatabases'[y] /\ Alive(d)' =>
                    /\ dbi'[d] \in fresh'[y]
                    /\ \A z \in Txns : dbi'[d] \in fresh'[z] => z \in {y} \cup above'[y]
    <3>1. /\ Calm
          /\ \A d \in Dbs : Alive(d) => (d \in newDatabases[x] <=> dbi[d] \in fresh[x])
      BY <1>6, <2>2, ClosesOwn
    <3>2. Under(x) = {x} /\ Opened(x) = fresh[x]
      BY <1>6, <2>2, EndsAlone
    <3>3. /\ table' = [s \in Slots |-> IF s \in fresh[x] THEN NoName ELSE table[s]]
          /\ fresh' = [y \in Txns |-> IF y = x THEN {} ELSE fresh[y]]
          /\ dbi' = [d \in Dbs |-> IF d \in newDatabases[x] THEN 0 ELSE dbi[d]]
          /\ newDatabases' = [newDatabases EXCEPT ![x] = {}] /\ above' = above
      BY <1>6, <3>2 DEF Dispose, End, CloseOpened
    <3>4. QED
      BY <3>1, <3>3, <1>a
  <2>3. QED
    BY <2>1, <2>2
<1>7. ASSUME NEW x \in Txns, UseFreed(x) PROVE DbiOwners'
  BY <1>7, <1>a DEF UseFreed, managed, nativeSt, vars
<1>8. ASSUME NEW x \in Txns, NEW d \in Dbs, NEW n \in Names, OpenDatabase(x, d, n)
      PROVE  DbiOwners'
  BY <1>8, <1>a DEF OpenDatabase, NameTaken, DbiFor, Handles, Tree, HasChild, Places,
     HandlesMatch
<1>9. ASSUME NEW d \in Dbs, DisposeDatabase(d) PROVE DbiOwners'
  BY <1>9, <1>a DEF DisposeDatabase, Places, HandlesMatch
<1>10. ASSUME DisposeEnvironment PROVE DbiOwners'
  BY <1>10, <1>a DEF DisposeEnvironment
<1>11. CASE UNCHANGED vars
  BY <1>11, <1>a DEF vars, managed, nativeSt
<1>12. QED
  BY <1>1, <1>2, <1>3, <1>4, <1>5, <1>6, <1>7, <1>8, <1>9, <1>10, <1>11 DEF Next

\* A step closes no dbi under a usable Database and opens none twice.
LEMMA MatchNext == NestedInv /\ [Next]_vars => HandlesMatch'
<1> SUFFICES ASSUME NestedInv, [Next]_vars PROVE HandlesMatch'
  OBVIOUS
<1> USE NestedAssumption DEF TypeOK, Alive, Calm, HandlesMatch
<1>a. TypeOK /\ Handles /\ Tree /\ Places /\ DbiOwners /\ HandlesMatch /\ OnePlace
  BY DEF NestedInv
<1>1. ASSUME NEW x \in Txns, NEW p \in Txns \cup {NoTxn}, BeginTransaction(x, p)
      PROVE  HandlesMatch'
  BY <1>1, <1>a DEF BeginTransaction, BeginTransactionInternal, Handle, NativeId, IdTaken
<1>2. ASSUME NEW x \in Txns, NEW p \in Txns \cup {NoTxn}, RefuseTransaction(x, p)
      PROVE  HandlesMatch'
  BY <1>2, <1>a DEF RefuseTransaction, BeginTransactionInternal, Handle, NativeId
<1>3. ASSUME NEW x \in Txns, NEW p \in Txns \cup {NoTxn}, BeginDatabaseTransaction(x, p)
      PROVE  HandlesMatch'
  BY <1>3, <1>a DEF BeginDatabaseTransaction, BeginTransactionInternal, Handle, NativeId
<1>4. ASSUME NEW x \in Txns, Commit(x) PROVE HandlesMatch'
  BY <1>4, <1>a DEF Commit, End, Committed, Unregister, Under, Opened, Orphaned, Handles, Tree
<1>5. ASSUME NEW x \in Txns, CommitFails(x) PROVE HandlesMatch'
  BY <1>5, <1>a DEF CommitFails, End, CloseOpened, Unregister, Under, Opened, Orphaned, Handles
<1>6. ASSUME NEW x \in Txns, Dispose(x) PROVE HandlesMatch'
  <2> SUFFICES ASSUME Calm' PROVE \A d \in Dbs : Alive(d)' => table'[dbi'[d]] = name'[d]
    OBVIOUS
  <2>1. /\ Calm
        /\ \A d \in Dbs : Alive(d) => (d \in newDatabases[x] <=> dbi[d] \in fresh[x])
    BY <1>6, ClosesOwn
  <2>2. Opened(x) = fresh[x]
    BY <1>6, EndsAlone
  <2>3. /\ table' = [s \in Slots |-> IF s \in fresh[x] THEN NoName ELSE table[s]]
        /\ dbi' = [d \in Dbs |-> IF d \in newDatabases[x] THEN 0 ELSE dbi[d]] /\ name' = name
    BY <1>6, <2>2 DEF Dispose, End, CloseOpened
  <2>4. QED
    BY <2>1, <2>3, <1>a
<1>7. ASSUME NEW x \in Txns, UseFreed(x) PROVE HandlesMatch'
  BY <1>7, <1>a DEF UseFreed, managed, nativeSt
<1>8. ASSUME NEW x \in Txns, NEW d \in Dbs, NEW n \in Names, OpenDatabase(x, d, n)
      PROVE  HandlesMatch'
  BY <1>8, <1>a DEF OpenDatabase, NameTaken, DbiFor, Places, DbiOwners
<1>9. ASSUME NEW d \in Dbs, DisposeDatabase(d) PROVE HandlesMatch'
  BY <1>9, <1>a DEF DisposeDatabase, Places
<1>10. ASSUME DisposeEnvironment PROVE HandlesMatch'
  BY <1>10, <1>a DEF DisposeEnvironment
<1>11. CASE UNCHANGED vars
  BY <1>11, <1>a DEF vars, managed, nativeSt
<1>12. QED
  BY <1>1, <1>2, <1>3, <1>4, <1>5, <1>6, <1>7, <1>8, <1>9, <1>10, <1>11 DEF Next

\* The invariant holds initially.
LEMMA NestedInit == Init => NestedInv
<1> SUFFICES ASSUME Init PROVE NestedInv
  OBVIOUS
<1> USE NestedAssumption DEF Init
<1>1. TypeOK
  BY DEF TypeOK
<1>2. Registry /\ Handles /\ Tree
  BY DEF Registry, Handles, Tree
<1>3. Places /\ DbiOwners
  BY DEF Places, DbiOwners, Alive, Calm
<1>4. ParentStaysRegistered /\ NoUseAfterFree /\ OnePlace /\ HandlesMatch
  BY DEF ParentStaysRegistered, NoUseAfterFree, OnePlace, HandlesMatch, Alive
<1>5. QED
  BY <1>1, <1>2, <1>3, <1>4 DEF NestedInv

\* Every step preserves it.
LEMMA NestedNext == NestedInv /\ [Next]_vars => NestedInv'
  BY TypeNext, RegistryNext, ParentNext, HandlesNext, FreeNext, TreeNext, PlacesNext,
     OnePlaceNext, OwnersNext, MatchNext DEF NestedInv

\* The invariant behind the theorems below.
THEOREM NestingInvariant == Spec => []NestedInv
  BY NestedInit, NestedNext, PTL DEF Spec

\* Type correctness.
THEOREM NestedTypeCorrect == Spec => []TypeOK
<1>1. NestedInv => TypeOK
  BY DEF NestedInv
<1>2. QED
  BY <1>1, NestingInvariant, PTL

\* An open plain transaction is registered under its own id, whatever is nested in it, refused or
\* ended (LmdbEnvironment.BeginTransaction, TransactionDisposed).
THEOREM ParentKeepsEntry == Spec => []ParentStaysRegistered
<1>1. NestedInv => ParentStaysRegistered
  BY DEF NestedInv
<1>2. QED
  BY <1>1, NestingInvariant, PTL

\* While children end before their parents and database transactions before the environment, no
\* native function gets a freed handle.
THEOREM NestedNoUseAfterFree == Spec => []NoUseAfterFree
<1>1. NestedInv => NoUseAfterFree
  BY DEF NestedInv
<1>2. QED
  BY <1>1, NestingInvariant, PTL

\* A usable Database is private to an open transaction or in the dictionary, never both
\* (DatabaseTransaction.Committed, ReleaseManagedResources).
THEOREM DatabaseInOnePlace == Spec => []OnePlace
<1>1. NestedInv => OnePlace
  BY DEF NestedInv
<1>2. QED
  BY <1>1, NestingInvariant, PTL

\* Across any nesting of commits and aborts in order, a usable Database refers to the dbi of its
\* own name.
THEOREM NestedHandlesMatch == Spec => []HandlesMatch
<1>1. NestedInv => HandlesMatch
  BY DEF NestedInv
<1>2. QED
  BY <1>1, NestingInvariant, PTL

\* A transaction is refused only for one it is nested in, or for an orphan still registered
\* (LmdbEnvironment.BeginTransaction, TryAdd).
THEOREM RefusedOnlyForAncestor == Spec => RefusedForAncestor
<1>1. ASSUME NestedInv, [Next]_vars
      PROVE  \A x \in refused' \ refused :
               \E e \in transactions : /\ e[1] = id'[x] /\ txn[e[2]] = "open"
                                       /\ e[2] \in above'[x] \/ e[2] \notin live
  <2> SUFFICES ASSUME NEW x \in refused' \ refused
               PROVE  \E e \in transactions : /\ e[1] = id'[x] /\ txn[e[2]] = "open"
                                              /\ e[2] \in above'[x] \/ e[2] \notin live
    OBVIOUS
  <2>1. PICK y \in Txns, p \in Txns \cup {NoTxn} : RefuseTransaction(y, p)
    BY <1>1 DEF Next, vars, BeginTransaction, BeginDatabaseTransaction, Commit, CommitFails,
       Dispose, End, UseFreed, OpenDatabase, DisposeDatabase, DisposeEnvironment
  <2>2. x = y
    BY <1>1, <2>1 DEF RefuseTransaction
  <2>3. PICK e \in transactions : e[1] = id'[x]
    BY <2>1, <2>2 DEF RefuseTransaction, IdTaken
  <2>4. txn[e[2]] = "open" /\ e[2] \in Txns
    BY <1>1 DEF NestedInv, Registry, TypeOK
  <2>5. e[2] \in live => e[2] \in above'[x]
    BY <1>1, <2>1, <2>2, <2>4 DEF RefuseTransaction, BeginTransactionInternal, HasChild,
       NestedInv, Tree, TypeOK
  <2>6. QED
    BY <2>3, <2>4, <2>5
<1>2. NestedInv /\ [Next]_vars =>
        [\A x \in refused' \ refused :
           \E e \in transactions : /\ e[1] = id'[x] /\ txn[e[2]] = "open"
                                   /\ e[2] \in above'[x] \/ e[2] \notin live]_vars
  BY <1>1
<1>3. QED
  BY <1>2, NestingInvariant, PTL DEF Spec, RefusedForAncestor

-----------------------------------------------------------------------------
(* The promise about databases *)

\* What is private to a transaction or in the dictionary is usable.
InUse ==
  /\ \A x \in Txns, d \in Dbs : d \in newDatabases[x] => Alive(d)
  /\ \A e \in databases : Alive(e[2])

\* A step keeps it: the handles an abort or a close clears are taken out where they are.
LEMMA InUseNext == NestedInv /\ InUse /\ [Next]_vars => InUse'
<1> SUFFICES ASSUME NestedInv, InUse, [Next]_vars PROVE InUse'
  OBVIOUS
<1> USE NestedAssumption DEF TypeOK, Places, Alive, InUse
<1>a. TypeOK /\ Places
  BY DEF NestedInv
<1>1. ASSUME NEW x \in Txns, NEW p \in Txns \cup {NoTxn},
             BeginTransaction(x, p) \/ RefuseTransaction(x, p) \/ BeginDatabaseTransaction(x, p)
      PROVE  InUse'
  BY <1>1 DEF BeginTransaction, RefuseTransaction, BeginDatabaseTransaction,
     BeginTransactionInternal
<1>2. ASSUME NEW x \in Txns, Commit(x) PROVE InUse'
  BY <1>2, <1>a DEF Commit, End, Committed
<1>3. ASSUME NEW x \in Txns, CommitFails(x) PROVE InUse'
  BY <1>3, <1>a DEF CommitFails, End
<1>4. ASSUME NEW x \in Txns, Dispose(x) PROVE InUse'
  BY <1>4, <1>a DEF Dispose, End
<1>5. ASSUME NEW x \in Txns, UseFreed(x) PROVE InUse'
  BY <1>5 DEF UseFreed, managed
<1>6. ASSUME NEW x \in Txns, NEW d \in Dbs, NEW n \in Names, OpenDatabase(x, d, n) PROVE InUse'
  BY <1>6, <1>a DEF OpenDatabase, DbiFor
<1>7. ASSUME NEW d \in Dbs, DisposeDatabase(d) PROVE InUse'
  BY <1>7, <1>a DEF DisposeDatabase
<1>8. ASSUME DisposeEnvironment PROVE InUse'
  BY <1>8, <1>a DEF DisposeEnvironment
<1>9. CASE UNCHANGED vars
  BY <1>9 DEF vars, managed
<1>10. QED
  BY <1>1, <1>2, <1>3, <1>4, <1>5, <1>6, <1>7, <1>8, <1>9 DEF Next

\* A commit publishes: names tell the databases of a transaction apart, and from the public ones.
LEMMA CommitPublishes ==
  ASSUME NestedInv, InUse, NEW x \in Txns, Commit(x)
  PROVE  Contract!Next \/ UNCHANGED Contract!vars
<1> USE DEF TypeOK
<1>a. TypeOK /\ Places
  BY DEF NestedInv
<1>1. /\ databases' = databases \cup {<<name[d], d>> : d \in newDatabases[x]}
      /\ newDatabases' = [newDatabases EXCEPT ![x] = {}]
      /\ UNCHANGED <<name, dbi>>
  BY DEF Commit, End, Committed
<1>2. CASE newDatabases[x] = {}
  <2>1. UNCHANGED <<databases, newDatabases, name, dbi>>
    BY <1>1, <1>2, <1>a
  <2>2. QED
    BY <2>1 DEF Contract!vars, Alive
<1>3. CASE newDatabases[x] # {}
  <2>1. PICK n \in Names : TRUE
    BY <1>3, <1>a DEF Places
  <2> DEFINE key == [d \in Dbs |-> IF name[d] = NoName THEN n ELSE name[d]]
  <2>2. key \in [Dbs -> Names]
    BY <2>1, <1>a
  <2>3. \A d \in newDatabases[x] : d \in Dbs /\ key[d] = name[d] /\ name[d] \in Names
    BY <1>a DEF Places
  <2>4. \A d, e \in newDatabases[x] : d # e => key[d] # key[e]
    BY <2>3, <1>a DEF Places, InUse
  <2>5. \A d \in newDatabases[x] : \A e \in databases : e[1] # key[d]
    BY <2>3, <1>a DEF Places, InUse
  <2>6. databases' = databases \cup {<<key[d], d>> : d \in newDatabases[x]}
    BY <1>1, <2>3
  <2> HIDE DEF key
  <2>7. Contract!Publish(x, key)
    BY <2>4, <2>5, <2>6, <1>1 DEF Contract!Publish, Alive
  <2>8. QED
    BY <2>2, <2>7 DEF Contract!Next, Contract!Promised
<1>4. QED
  BY <1>2, <1>3

\* The steps that close databases: an abort withdraws, a Dispose forgets, the environment's
\* Dispose shuts down.
LEMMA ClosingKeepsPromise ==
  ASSUME NestedInv, InUse
  PROVE  /\ \A x \in Txns : Dispose(x) => Contract!Withdraw(x)
         /\ \A d \in Dbs : DisposeDatabase(d) => Contract!Forget(d)
         /\ DisposeEnvironment => Contract!Shutdown
<1> USE DEF TypeOK, Alive
<1>a. TypeOK /\ Places
  BY DEF NestedInv
<1>1. ASSUME NEW x \in Txns, Dispose(x) PROVE Contract!Withdraw(x)
  BY <1>1, <1>a DEF Dispose, End, Contract!Withdraw
<1>2. ASSUME NEW d \in Dbs, DisposeDatabase(d) PROVE Contract!Forget(d)
  <2>1. {e \in databases : e[1] # name[d]} = {e \in databases : e[2] # d}
    BY <1>2, <1>a DEF DisposeDatabase, Places, InUse
  <2>2. (\E x \in Txns : d \in newDatabases[x]) => databases = {e \in databases : e[2] # d}
    BY <1>a DEF Places
  <2>3. databases' = {e \in databases : e[2] # d}
    BY <1>2, <2>1, <2>2 DEF DisposeDatabase
  <2>4. newDatabases' = [x \in Txns |-> newDatabases[x] \ {d}] /\ UNCHANGED name
    BY <1>2 DEF DisposeDatabase
  <2>5. {c \in Dbs : dbi'[c] # 0} = {c \in Dbs : dbi[c] # 0} \ {d}
    BY <1>2, <1>a DEF DisposeDatabase
  <2>6. QED
    BY <2>3, <2>4, <2>5 DEF Contract!Forget
<1>3. ASSUME DisposeEnvironment PROVE Contract!Shutdown
  <2>1. {c \in Dbs : dbi'[c] # 0} = {c \in Dbs : dbi[c] # 0} \ {e[2] : e \in databases}
    BY <1>3, <1>a DEF DisposeEnvironment
  <2>2. databases' = {} /\ UNCHANGED <<name, newDatabases>>
    BY <1>3 DEF DisposeEnvironment
  <2>3. QED
    BY <2>1, <2>2 DEF Contract!Shutdown
<1>4. QED
  BY <1>1, <1>2, <1>3

\* A database is opened once.
LEMMA OpeningKeepsPromise ==
  ASSUME NestedInv, NEW x \in Txns, NEW d \in Dbs, NEW n \in Names, OpenDatabase(x, d, n)
  PROVE  Contract!Open(x, d)
<1> USE NestedAssumption DEF TypeOK, Alive
<1>a. TypeOK /\ Places
  BY DEF NestedInv
<1>1. PICK s \in Slots : dbi' = [dbi EXCEPT ![d] = s]
  BY DEF OpenDatabase, DbiFor
<1>2. {c \in Dbs : dbi'[c] # 0} = {c \in Dbs : dbi[c] # 0} \cup {d}
  BY <1>1, <1>a
<1>3. name[d] = NoName /\ name' = [name EXCEPT ![d] = n] /\ UNCHANGED databases
      /\ newDatabases' = [newDatabases EXCEPT ![x] = @ \cup {d}]
  BY DEF OpenDatabase
<1>4. {c \in Dbs : name'[c] # NoName} = {c \in Dbs : name[c] # NoName} \cup {d}
  BY <1>3, <1>a
<1>5. d \notin {c \in Dbs : name[c] # NoName}
  BY <1>3
<1>6. QED
  BY <1>2, <1>3, <1>4, <1>5 DEF Contract!Open

\* Every step of nested transactions is a step of DatabaseContract or changes nothing of it.
LEMMA ContractNext == NestedInv /\ InUse /\ [Next]_vars => [Contract!Next]_(Contract!vars)
<1> SUFFICES ASSUME NestedInv, InUse, [Next]_vars
             PROVE  Contract!Next \/ UNCHANGED Contract!vars
  OBVIOUS
<1>1. ASSUME UNCHANGED <<databases, newDatabases, name, dbi>> PROVE UNCHANGED Contract!vars
  BY <1>1 DEF Contract!vars, Alive
<1>2. ASSUME NEW x \in Txns, NEW p \in Txns \cup {NoTxn},
             BeginTransaction(x, p) \/ RefuseTransaction(x, p) \/ BeginDatabaseTransaction(x, p)
      PROVE  UNCHANGED Contract!vars
  BY <1>1, <1>2 DEF BeginTransaction, RefuseTransaction, BeginDatabaseTransaction,
     BeginTransactionInternal
<1>3. ASSUME NEW x \in Txns, CommitFails(x) \/ UseFreed(x) PROVE UNCHANGED Contract!vars
  BY <1>1, <1>3 DEF CommitFails, End, UseFreed, managed
<1>4. ASSUME NEW x \in Txns, Dispose(x) PROVE Contract!Next
  BY <1>4, ClosingKeepsPromise DEF Contract!Next, Contract!Promised
<1>5. ASSUME NEW x \in Txns, NEW d \in Dbs, NEW n \in Names, OpenDatabase(x, d, n)
      PROVE  Contract!Next
  BY <1>5, OpeningKeepsPromise DEF Contract!Next, Contract!Promised
<1>6. ASSUME NEW d \in Dbs, DisposeDatabase(d) PROVE Contract!Next
  BY <1>6, ClosingKeepsPromise DEF Contract!Next, Contract!Promised
<1>7. CASE DisposeEnvironment
  BY <1>7, ClosingKeepsPromise DEF Contract!Next, Contract!Promised
<1>8. CASE UNCHANGED vars
  BY <1>1, <1>8 DEF vars, managed
<1>9. QED
  BY <1>2, <1>3, <1>4, <1>5, <1>6, <1>7, <1>8, CommitPublishes DEF Next

\* Nested transactions implement DatabaseContract: every commit publishes all its databases at
\* once under free names, an abort none, and nothing published leaves the dictionary but by a close
\* (DatabaseTransaction.Committed, ReleaseManagedResources, Database.Dispose).
THEOREM NestedKeepsContract == Spec => KeepsContract
<1>1. Init => Contract!Init /\ InUse
  BY DEF Init, Contract!Init, InUse, Alive
<1>2. Spec => []InUse
  BY <1>1, InUseNext, NestingInvariant, PTL DEF Spec
<1>3. QED
  BY <1>1, <1>2, ContractNext, NestingInvariant, PTL DEF Spec, KeepsContract, Contract!Spec

=============================================================================
