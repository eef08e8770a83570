# KdSoft.Lmdb: a verification project

KdSoft.Lmdb is a .NET wrapper of the LMDB key-value store (`src/Lmdb`, 4272 lines of C#). LMDB
itself is a native library that is not in the repository. What the wrapper adds, and what is
verified here, is the ownership of native objects: an environment owns transactions and database
handles, a transaction owns cursors, each managed object holds a native pointer that must be used
while the native object lives and freed once, and several threads call all of them.

Line numbers below are of the files in `src/Lmdb`.

## 1. Inventory

| Component | State | Operations | Talks to |
|---|---|---|---|
| `LmdbEnvironment` | `env` (native pointer), `transactions` (ConcurrentDictionary from `mdb_txn_id`), `databases` (Dictionary by name, ignoring case), `dbTxnLock`, `activeDbTxn` | begin transactions, look databases up, `Dispose`, `Close`, finalizer | gives transactions and databases callbacks into itself |
| `Transaction`, `ReadOnlyTransaction` | `txn`, `cursors` under `cursorLock` | `Commit`, `Abort`, `Dispose`, `Reset`, `Renew` | environment (callback `disposed`), its cursors |
| `DatabaseTransaction` | `newDatabases` under `dbLock` | `OpenDatabase` (three kinds), `Commit`, `Dispose` | hands databases to the environment in `Committed` |
| `Database` and its multi-value kinds | `dbi`, callback `disposed` | `Dispose`, `Drop`, `Truncate`, `OpenCursor`, record access | transaction's or environment's callback |
| `Cursor`, `MultiValueCursor` | `cur`, callback `disposed`; the native cursor's position | moves, `Put`, `Delete`, `Renew`, `Dispose`, 18 iterators | the transaction's set of cursors |
| `FixedMultiValueCursor` | item size `DataSize` | `PutMultiple`, page-wise moves and iterators | native cursor, the caller's buffers |
| `interop` | - | P/Invoke declarations, marshalling, return codes | native library |
| configuration, options, statistics | immutable records | - | - |

What is hard, and where it is listed: the full list of hazards, each at its line, is in
`PROJECT.json`. In short:

* *Concurrency.* Fields that hold native pointers are claimed with `Interlocked.Exchange`; two
  dictionaries, one concurrent and one guarded by a lock that not everyone takes, are changed by
  callbacks that run after the native object is gone.
* *Identity.* Transactions are registered under `mdb_txn_id`, which is neither unique among
  readers nor constant under `Renew`; database handles (`dbi`) are small numbers LMDB reuses.
* *Locks.* `dbTxnLock` is held while LMDB's writer mutex is waited for.
* *Failure.* A commit that fails aborts; `Dictionary.Add` may throw half-way through `Committed`.
* *Order.* Environment `Dispose` against the transactions it enumerates; transaction end against
  its cursors; a native cursor shared by nested `foreach` loops.
* *Nesting.* LMDB ends a nested transaction with its parent, gives both one id and takes a nested
  commit back when the parent aborts; the managed child knows its parent, the parent nobody.
* *Arithmetic.* `PutMultiple` compares a product of two `int`s with the length of a buffer.

What makes each component correct: a transaction ends once and is forgotten once
(`TransactionContract`); the environment knows exactly the open transactions; a database object
refers to the native handle of its own name; the dictionary of databases has the committed ones
and no others (`DatabaseContract`), also when transactions are nested; no cursor is freed twice,
used after its transaction, or lost (`CursorContract`); a loop visits what its iterator promises,
whatever its body does with the cursor they share (`IterationContract`); LMDB stays inside the
caller's buffer.

## 2. The modules

| Module | Models | Lines of code it stands for |
|---|---|---|
| `TransactionRegistry` | top-level transactions, the dictionary `transactions`, `dbTxnLock`, environment `Dispose` and finalizer | `LmdbEnvironment.cs` 28-53, 246-359, 384-458; `Transaction.cs`; `ReadOnlyTransaction.cs` |
| `TransactionContract` | what a `Transaction` promises, as an abstract machine | (specification) |
| `TransactionRegistryProofs`, `TransactionContractProofs`, `TransactionSafetyProofs` | proofs about the two | |
| `DatabaseRegistry` | database transactions, `Database` objects, `dbTxnLock`, writer mutex, the `dbi` table, on several threads | `DatabaseTransaction.cs`; `Database.cs`; `LmdbEnvironment.cs` 252-283, 338-359, 405-441 |
| `NestedTransactions` | plain and database transactions nested in one another, and their databases, on one thread | `LmdbEnvironment.cs` 252-359, 405-441; `Transaction.cs`; `DatabaseTransaction.cs`; `Database.cs` |
| `DatabaseContract` | what an environment promises about its databases, as an abstract machine | (specification) |
| `DatabaseRegistryProofs`, `NestedTransactionsProofs` | proofs about these three | |
| `CursorLifecycle` | opening, renewing, using and closing cursors, against the end of transactions and of the environment | `Cursor.cs` 14-68, 319-399; `Transaction.cs` 84-124, 160-203; `Database.cs` 231-256; `LmdbEnvironment.cs` 405-441 |
| `CursorContract` | what cursors and transactions promise about native cursors, as an abstract machine | (specification) |
| `CursorLifecycleProofs` | proofs about these two | |
| `CursorNavigation` | positions, iterators, enumerators, `Put` and `Delete` | `Cursor.cs` 199-313, 403-587; `MultiValueCursor.cs`; `interop/DbCursorOp.cs` |
| `FixedMultiValueCursor` | `CursorNavigation` with pages of duplicates and `PutMultiple` added | `FixedMultiValueCursor.cs` |
| `FixedItems` | the arithmetic of `PutMultiple`'s check | `FixedMultiValueCursor.cs` 62-83 |
| `IterationContract` | what a `foreach` over a cursor promises, as an abstract machine | (specification) |
| `CursorNavigationProofs`, `FixedMultiValueCursorProofs` | proofs about loops, pages and `PutMultiple` | |
| `MC...` | instances for TLC | |

`PROJECT.json` maps every definition to its lines. Conventions common to all modules:

* A variable with the name of a C# field is that field. Native state (`native`, `table`, `writer`,
  `nativeCur`, ...) belongs to LMDB; it is modelled from how the callers depend on it.
* A call of a thread is a sequence of actions; `pc`, `cur`, `key`, ... are its position and local
  variables. It is cut where other threads can interfere with what it has read: at each exchange,
  lock, dictionary access and native call. What has no such point inside is one action.
* A method that throws before it has changed anything is a disabled action, a method that fails
  half-way is an action of its own (`...Fails`, `RefuseTransaction`).
* *History variables* record that something happened which the documentation excludes or the code
  is known not to survive. A property that names one holds in all behaviours up to that event.
* An operator with a suffix (`Dispose_NoExchange`) is a slip somebody could make in the code. It
  is used nowhere in the specification; replacing the real operator by it makes the property that
  is paired with it in `PROJECT.json` fail, which shows that the property says something about
  that code.

### TransactionRegistry

`BeginTransaction` -> `BeginWrite`/`BeginRead`/`BeginFails` -> `GetOptions` -> `AddTransaction` /
`ReturnUntracked` / `RefuseTransaction` -> `DiscardTransaction` is
`LmdbEnvironment.BeginTransaction` from its `CheckDisposed` to `TryAdd`. `BeginDatabaseTransaction`
-> `LockDatabase` -> `BeginDatabase`/`BeginFails` is `LmdbEnvironment.BeginDatabaseTransaction`: the
thread that has got past `LockDatabase` holds `dbTxnLock` for as long as `mdb_txn_begin` waits for
the writer mutex. `Commit` -> `CommitClaim` -> `CommitNative`/`CommitFails` -> `TransactionDisposed`
is `Transaction.Commit`, `Dispose` -> `AbortNative` -> `TransactionDisposed` is
`Transaction.Dispose`; for a database transaction the last step is `DatabaseTransactionClosed`,
which takes the lock.

`DisposeEnvironment`, the sweep, `ClearHandles`, `CloseNative`, `ClearTransactions` and
`ClearDatabases` are `LmdbEnvironment.Dispose(true)`; the enumerator of a ConcurrentDictionary takes
no snapshot, so entries added meanwhile may or may not be visited. Each transaction the sweep visits
goes through the same steps as in a program's own `Dispose`. `ClearHandles` (418-426) and
`ClearDatabases` (437-440) take `dbTxnLock`, and so wait while a `BeginDatabaseTransaction` has it. A
database transaction is in no dictionary and `activeDbTxn` is never assigned, so the sweep does not
find it: when the thread in `Dispose` has one open itself and another thread waits for the writer
mutex in `BeginDatabaseTransaction`, `Dispose` never returns (`Hangs`). What does hold is
`DatabaseBeginProtected`: whatever overlaps, `mdb_env_close` never comes while somebody waits in
`mdb_txn_begin` with the lock. `FinalizeEnvironment` is the finalizer; it ends no transaction, although
lines 19-20 say that it "can clean up all resources it owns (databases, transactions, cursors)".

`dbTxnLock` has other users (the indexer, `Databases`, `DatabaseDisposed`, lines 252-283). They hold
it for a moment, wait for nothing inside and are left out here; `DatabaseRegistry` has them.

Native facts used: a write transaction has the last committed id plus one and holds the writer
mutex to its end; a commit with nothing to write leaves the last id alone; a reader has the id of
its snapshot; a failed commit aborts; without `MDB_NOTLS` a thread has one reader slot;
`mdb_txn_renew` takes a new snapshot and fails on a reader that was not reset. After a native
function got a freed handle (`fault`), the model stops: the behaviour of the process is undefined.

The documentation gives a thread one transaction at a time and a transaction to one thread; the
model is more liberal where the code tries to be: any thread may `Commit` or `Dispose` any
transaction (history `shared`), and every call may overlap the environment's `Dispose` (history
`overlap`). Only a thread that already holds the writer mutex does not ask for it again.

### DatabaseRegistry

Here the program follows the documentation: a transaction stays on its thread, a database is used
by others after the `Commit` that publishes it has returned, one thread closes a database, and
nothing overlaps the environment's `Dispose`. What remains is hard enough. `Committed` runs after
the native commit has released the writer mutex and takes `dbLock` of its own transaction only, so
two of them, or one and a `DatabaseDisposed`, write the plain dictionary `databases` at the same
time. The data race is a nondeterministic choice: writes may be lost.

`lapses` records four events after which the code does not keep its promises: `aliased`
(`mdb_dbi_open` returned a handle that another `Database` object has), `failed` (a commit failed:
`ReleaseManagedResources(true)` leaves the new databases their handles), `clash` (`Committed`
threw on a name that was taken, with the databases before it published and the list kept), `raced`
(a write was lost). Each property names the lapses it excludes; `RegistryAlive`, for one, holds
through all of them but `raced`. How `aliased` comes about: a
transaction opens a name twice; or `OpenDatabase` tests a name before the `Committed` of the
previous transaction has added it. LMDB then returns the same `dbi`, and whichever `Database` is
closed first closes it under the other.

`DatabaseContract` has the databases of each transaction, the dictionary and what is usable.
`Committed` is its `Publish`, `ReleaseManagedResources` its `Withdraw`, the exchange in `Dispose`
and `ClearHandle` its `Close`, the callbacks its `Forget`, `OpenNative` its `Open`; every other
step is a stutter. It promises nothing after a clash or a lost write.

### NestedTransactions

A write transaction and all that is nested in it are used by one thread, so a call is one action.
`above` is LMDB's tree; `parent` is the field. `BeginTransactionInternal` passes `parent?.Handle`,
which is zero for a parent that has ended: the new transaction is then a top-level one, unless the
thread has another one open, in which case it waits for itself (a disabled action). An end takes
all `MDB_txn`s below with it (`Under`) and tells no managed child; a child that is used afterwards
is `UseFreed`. A commit hands the `dbi`s it has opened to the parent (`fresh`), which closes them
when it aborts, whereas `Committed` has published the databases for good.

`lapses` has `orphaned` (a parent ended before a child), `withdrawn` (a parent aborted what a
child had published), `failed` and `outlived` (the environment was disposed with a database
transaction open, which `Dispose` does not find because nothing assigns `activeDbTxn`).

### CursorLifecycle

LMDB frees the cursors of a write transaction when it ends and leaves those of a read-only
transaction. `Release` is `ReleaseManagedResources` under `cursorLock`. One thread uses a write
transaction; a reader and its cursors may move between threads, and a read-only cursor may be
closed beside anything but its own use - two `Dispose` calls of one cursor, or a `Dispose` against
the end of its transaction, included. `Renew` re-binds a cursor to another reader while it stays
in the set of the first one.

`End` is open to every thread, because `LmdbEnvironment.Dispose` ends the transactions of all: it
may come in the middle of an `OpenCursor`, a `Dispose` or a use of a cursor (`overlap` records
for which transactions it did). The sharpest case is `OpenCursor`, which reads the handle, opens
the native cursor and adds it to the set in three steps: `AddCursor` takes the lock but does not
look whether the transaction is still open, and a cursor that comes `late` is missed by
`ReleaseManagedResources`. `WriteCursorsCleared` states that these are the only ones missed.
`Reset` and `Renew` of a transaction, and `Renew` of a cursor, are not overlapped.

`CursorContract` has a phase for each cursor: `open`, `claimed` by a caller that closes it,
`dangling` when LMDB has freed it and its object still has the handle, `closed`. `PhaseOf` reads it
off the handle and the native cursor. The exchange in `Cursor.Dispose` is its `Claim`,
`mdb_cursor_close` its `Close`, the native end of a transaction its `Finish`,
`ReleaseManagedResources` its `Clear`, `Renew` its `Rebind`. Three things deviate from one owner per
cursor, and the contract allows each only for a transaction in `met` (`overlap`): a claim that comes
too late, an end that takes a cursor in the middle of its close, and a cursor that `Clear` misses.

### CursorNavigation

The database is a set of (key, value) pairs. `Find` and `Search` give the record each
`MDB_cursor_op` lands on, after `interop/DbCursorOp.cs`. `ItemsIterators` and `ValuesIterators`
are the tables of first and next operations; `MoveNext` is the `MoveNext` of all four enumerators.
`Promise` says what each iterator documents, as a set of records made from the database and the
position at the start and independently of the operations; `Goes` is the order in which it promises
them. Loops over values run inside loops over keys, and the body of a loop may delete the record it
has got, or all its duplicates.

`IterationContract` is a `foreach` over a list: it takes the first record off the list, ends when
the list is empty, and only a deletion in its body strikes records out. The list is no field of an
enumerator; `Left` is what follows from `Current` alone and the operation `MoveNext` repeats
(`OuterLeft`, `InnerLeft`). The two loops are two instances of the contract, and in each the moves
of the other are stutters. That the list made at the start is the promised one is `LoopVisitsAll`.

### FixedMultiValueCursor

How LMDB cuts the duplicates of a key into pages is its choice: a loop over pages takes any set of
cuts (`breaks`) and keeps it. `GetMultiple` returns the page the cursor is on, whole, and leaves
the cursor on its last record; `PREV_MULTIPLE` returns the one before. The loop over pages runs
where a loop over values may, on its own or inside a loop over keys, and shares the position. Both
are for keys with several values (`HasDuplicates`): nothing in the repository reads a page of a key
with one value, or says what LMDB returns for it.

`PagesPromise` is what the documentation says of both iterators, the duplicates "from the current
position on", from `pagesStart`, the position at the start. The code yields these and the rest of
the page it starts on: `PagesExpected`, which `PagesLoopVisitsAll` states exactly, no record more and
none less. The difference between the two is the finding `pages_from_position`.

`PutMultiple` passes the check `DataSize * itemCount > data.Length` in 32-bit arithmetic
(`FixedItems!TooManyItems`). A count whose product wraps, or a negative one, gets past the check,
and LMDB reads beyond the buffer (`overread`); the model stops there. `ReadsWithinBuffer` is what
the check does guarantee: a positive count whose size in bytes an `int` can hold. LMDB may store
fewer items than asked and fail.

## 3. What is checked

| Run | What it shows | States | Time |
|---|---|---|---|
| `txn_registry` | `EndedByOneThread`, `RegistryComplete`, `RegistrySound`, `CloseFindsNoTransaction`, `NoUseAfterFree`, `NoNativeLeak`, `DatabaseBeginProtected`; refinement of `TransactionContract` | 770 000 | 60-180 s |
| `txn_liveness` | `EndingCompletes`, `DisposeCompletes` | 131 000 | 70-100 s |
| `db_registry` | `HandlesMatch`, `CommittedRegistered`, `RegistryAlive`, `AbortedUnusable`, `DisposeClearsHandles`, `RemovedOnlyDisposed`; refinement of `DatabaseContract` | 942 000 | 100 s |
| `nested_transactions` | `ParentStaysRegistered`, `NoUseAfterFree`, `HandlesMatch`, `OnePlace`, `RefusedForAncestor`; refinement of `DatabaseContract` | 1 043 000 | 130 s |
| `cursor_lifecycle` | `NoUseAfterFree`, `WriteCursorsCleared`, `NativeReachable`, `TrackedNotClosed`; refinement of `CursorContract` | 766 000 | 85 s |
| `cursor_navigation` | `LoopVisitsAll`, `ValuesLoopVisitsAll`, `BodyStaysOnKey`, `PagesLoopVisitsAll`, `ReadsWithinBuffer`, `RoundsProgress`; refinement of `IterationContract` | 186 000 | 80 s |

(Each of them also checks the module's `TypeOK`, but for `txn_liveness`.)

Six more runs each show one statement of the documentation, or of a comment, that the code does
not keep:

* `readers_coexist` - "There can be multiple simultaneously active read-only transactions"
  (`ReadOnlyTransaction.cs` 7): two readers of one snapshot have one id, and without `MDB_NOTLS`
  the second is refused. The test fixture opens its environment with `MDB_NOTLS`, which hides
  this.
* `db_name_conflict` - "we won't allow database name conflicts, even before the new database is
  committed" (`DatabaseTransaction.cs` 35): one transaction may open a name twice, and spellings
  that differ in case are told apart by LMDB but not by the dictionary.
* `db_circular_wait` - beginning a write transaction "will block until the first one is committed
  or aborted" (`Transaction.cs` 14-15): a writer that looks a database up, or disposes one, waits
  for `dbTxnLock`, whose holder waits for the writer.
* `reverse_by_key` - `ReverseByKey` "Retrieves each key's first duplicate record"
  (`MultiValueCursor.cs` 137): it gets the last one.
* `pages_from_position` - `ForwardMultiple` and `ReverseMultiple` iterate "from the current position
  on" (`FixedMultiValueCursor.cs` 97, 103): the first page has what is on the other side of it too.
* `nested_to_any_level` - "Transactions may be nested to any level" (`LmdbEnvironment.cs` 302): a
  child has its parent's `mdb_txn_id`, `TryAdd` finds it taken and `BeginTransaction` throws.
  Database transactions are not registered and nest; so do plain ones in database ones.

### Bounds

There are no counters to cap: every behaviour is finite because objects are not reused, so the
bounds are the sizes of the constants.

* *TransactionRegistry*: two threads and three transactions. The races are between two calls on
  one transaction, or one call and the sweep; the third transaction is needed for "a callback
  removes the entry of a new transaction with the same id", and for a writer beside two readers.
  For the safety properties that are proved the bound does not matter. In `txn_registry` each
  transaction may be of any kind (`AnyMode`). The liveness run has two transactions, without
  symmetry: one of any kind beside a database transaction (`MixedModes`). Two database transactions
  are what `Dispose` takes to block for ever. `EndingCompletes` has an exception, a callback that waits for a
  lock that is never released: it takes a third thread, so in this run, with two, no behaviour needs
  it. `VIEW Distinct` merges states that differ only in what became of
  transactions nobody can reach any more, or in history that no property of the run reads.
* *DatabaseRegistry*: two threads, three transactions, two `Database` objects, three names (two of
  which are equal but for case), two native slots. Two database objects are what a clash or a
  reused slot takes; three transactions let a third one act after two whose commits overlapped.
* *NestedTransactions*: four transactions, two databases, two names, two native slots, with
  symmetry. A chain of three levels with a sibling, or a parent that is replaced after its end, is
  what a confused id or an adopted `dbi` takes.
* *CursorLifecycle*: two threads, one write and two read-only transactions, two cursors: a cursor
  renewed from one reader to another, beside one of the writer.
* *CursorNavigation*, *FixedMultiValueCursor*: all databases over three keys with up to two, three
  and one value; three keys give a first, a middle and a last one, two values make the first and the
  last duplicate differ, three allow pages of different lengths. As every subset of the records is a
  database, each of the keys with duplicates is also the first, or the last, in some of them. Items of three
  bytes, buffers of up to two items and `int`s of five bits (`Half = 16`) make the product wrap to
  every kind of value; the theorems have no such bound.

`CHECK_DEADLOCK FALSE` is set for `DatabaseRegistry` and `NestedTransactions` only: with all
objects used up the program stops, and the circular wait is one of the findings. In the other
specifications every state has a successor: a call on an object that is disposed, or one that the
model lets go on forever after a fault.

### Fairness

`FairSpec` has weak fairness for each thread's steps within a call and none for making a call: a
program need not end a transaction it has begun. The code waits for two things, the writer mutex in
`mdb_txn_begin` and `dbTxnLock`. Neither is assumed to become free; a step that has to wait is
disabled, and weak fairness asks nothing of it meanwhile. `ConcurrentDictionary` does not block.

The environment's `Dispose` and the callback of a database transaction wait for the lock, and
`BeginDatabaseTransaction` may keep it for ever. `DisposeCompletes` therefore says that `Dispose` ends
or that from some point on (`[]Blocked`) the lock is held by a thread that waits for the writer mutex
while the transaction that has it stays open with nobody ending it. TLC's behaviours do include that
end (`Hangs`). Nothing else may stop `Dispose`: not the transactions that begin and end while it
enumerates, nor a lock somebody has forgotten to release. `EndingCompletes` has the same exception for
the callback of a database transaction; the end of any other transaction waits for nobody.

Weak fairness is the operating system's promise to run every thread. For the lock it also needs that a
waiting thread is not overtaken for ever: in these models that cannot happen, because the lock is kept
for longer than a step only by `BeginDatabaseTransaction`, once for each of finitely many transactions.
A program that begins database transactions without end while it disposes the environment is not
covered; once `env` is zero, though, `LockDatabase` throws and keeps nothing.

## 4. What is proved

For any sets of threads and transactions, with `ConstantsAssumption` (the placeholders `NoTxn` and
`NoThread` are no transaction and no thread, `NoTls` is a set of Booleans, `Modes` gives each
transaction a set of kinds):

| Theorem | States |
|---|---|
| `TypeCorrect` | `Spec => []TypeOK` |
| `OneEnd` | `Spec => []EndedByOneThread` |
| `AllOpenRegistered` | `Spec => []RegistryComplete` |
| `NothingLeftBehind` | `Spec => []RegistrySound` |
| `Refinement` | `Spec => KeepsContract`: `TransactionRegistry` implements `TransactionContract` |
| `NothingLeaks` | `Spec => []NoNativeLeak` |
| `DisposeEndsAll` | `Spec => []CloseFindsNoTransaction` |
| `NoFreedHandleUsed` | `Spec => []NoUseAfterFree` |
| `DatabaseBeginSafe` | `Spec => []DatabaseBeginProtected` |

For any sets of threads, transactions, databases, names and `dbi` slots, with `DatabaseAssumption`
(`Fold` maps names to names, slots are positive, the placeholders are none of the objects), in
`DatabaseRegistryProofs`:

| Theorem | States |
|---|---|
| `DatabaseTypeCorrect` | `Spec => []TypeOK` |
| `DatabaseHandlesMatch` | `Spec => []HandlesMatch` |
| `CommittedStayRegistered` | `Spec => []CommittedRegistered` |
| `DictionaryAlive` | `Spec => []RegistryAlive` |
| `AbortLeavesNothingUsable` | `Spec => []AbortedUnusable` |
| `DisposeLeavesNoHandle` | `Spec => []DisposeClearsHandles` |
| `OnlyDisposedRemoved` | `Spec => RemovedOnlyDisposed` |
| `EnvironmentKeepsContract` | `Spec => KeepsContract`: `DatabaseRegistry` implements `DatabaseContract` |

For any sets of transactions, databases, names and slots, with `NestedAssumption` (slots are
positive, the placeholders are none of the objects), in `NestedTransactionsProofs`:

| Theorem | States |
|---|---|
| `NestedTypeCorrect` | `Spec => []TypeOK` |
| `ParentKeepsEntry` | `Spec => []ParentStaysRegistered` |
| `NestedNoUseAfterFree` | `Spec => []NoUseAfterFree` |
| `DatabaseInOnePlace` | `Spec => []OnePlace` |
| `NestedHandlesMatch` | `Spec => []HandlesMatch` |
| `RefusedOnlyForAncestor` | `Spec => RefusedForAncestor` |
| `NestedKeepsContract` | `Spec => KeepsContract`: `NestedTransactions` implements `DatabaseContract` |

For any sets of threads, transactions and cursors, with `CursorAssumption` (read-only transactions
are transactions, and the placeholders are none of the objects), in `CursorLifecycleProofs`:

| Theorem | States |
|---|---|
| `CursorTypeCorrect` | `Spec => []TypeOK` |
| `NoFreedCursorUsed` | `Spec => []NoUseAfterFree` |
| `NoHandleOutlivesWriter` | `Spec => []WriteCursorsCleared` |
| `NoCursorLost` | `Spec => []NativeReachable` |
| `NoClosedCursorTracked` | `Spec => []TrackedNotClosed` |
| `CursorsKeepContract` | `Spec => KeepsContract`: `CursorLifecycle` implements `CursorContract` |

For any finite set of records, with `NavigationAssumption` (keys and values are natural numbers,
which stand for any two orders LMDB compares by, and `NoRecord` is no record), in
`CursorNavigationProofs`:

| Theorem | States |
|---|---|
| `CursorTypesCorrect` | `Spec => []TypeOK` |
| `LoopsVisitAll` | `Spec => []LoopVisitsAll` |
| `ValuesLoopsVisitAll` | `Spec => []ValuesLoopVisitsAll` |
| `CursorStaysOnKey` | `Spec => []BodyStaysOnKey` |
| `LoopsKeepContract` | `Spec => KeepsContract`: `CursorNavigation` implements `IterationContract` |
| `RoundsShorten` | `Spec => RoundsProgress` |

The same for a `FixedMultiValueCursor`, whose loops over pages and `PutMultiple` are further steps,
for any item size, buffer length, counts and width of `int`, with `FixedItemsAssumption` and
`FixedCursorAssumption` (sizes are positive, a buffer's length is an `int`, a count is an `int`
other than zero), in `FixedMultiValueCursorProofs`:

| Theorem | States |
|---|---|
| `FixedTypesCorrect` | `FixedSpec => []TypeOK` |
| `FixedLoopsVisitAll` | `FixedSpec => []LoopVisitsAll` |
| `FixedValuesLoopsVisitAll` | `FixedSpec => []ValuesLoopVisitsAll` |
| `FixedCursorStaysOnKey` | `FixedSpec => []BodyStaysOnKey` |
| `FixedLoopsKeepContract` | `FixedSpec => KeepsContract` |
| `FixedRoundsShorten` | `FixedSpec => RoundsProgress` |
| `PagesLoopsVisitAll` | `FixedSpec => []PagesLoopVisitsAll`, wherever LMDB cuts the pages |
| `BufferRespected` | a count that passes the check, and whose size fits, is at most the buffer's |
| `BufferNeverOverread` | `FixedSpec => []ReadsWithinBuffer` |

*Ownership.* `EndedByOneThread` is not inductive: it needs to know where a thread can come from.
`OwnershipInv` adds `Focus` (what a thread in the middle of a call may assume of its transaction:
while it begins one, the managed object has not been handed out; from the exchange to the callback
the field is zero and, before the native end, the `MDB_txn` is live), `Exclusive` (no two threads
begin, or end, one transaction) and `Objects` (an open object has a live `MDB_txn`). The heart is
the exchange: it is the only step into the ending labels, and it leaves the field zero.

*Registry.* `RegistryInv` adds `Keys` (ids are unique keys and, until a `Renew` changes one, an
entry's key is its transaction's id) and `Tracked` (a transaction stays registered until its own
callback). A callback removes an id; by `Keys` and `Tracked` the entry under it is the
transaction's own, so no other one loses its entry. This is where `~noTls` and `~moved` are
needed, and the runs have counterexamples without them.

*Refinement.* `PhaseOf` maps a transaction to its phase. Each action is shown to move one
transaction along the contract or to change no phase. That a commit moves `lastId` by at most one
needs `Outcome`: the writer mutex makes the id of the live write transaction the successor of the
last one.

*Safety of `Dispose`.* `SafetyInv` adds to `RegistryInv` how far the environment is (`Phases`), that
the thread that disposes it is alone unless a call overlapped (`Quiet`), that what is live is
registered and still to be visited or just being ended (`Swept`), and that a thread about to use
its own transaction finds it open (`Discipline`). `Swept` is the invariant of the enumeration: with
it the sweep that ends has left nothing live but database transactions. `Locked` says that who waits
in `mdb_txn_begin` for a database transaction holds `dbTxnLock`, that the `MDB_env` is there, and that
nobody stands between the lock of line 418 and `mdb_env_close`. It is inductive because each side
takes the lock: `BeginDatabaseTransaction` tests `env` under it, and `Dispose` has cleared `env` before
it asks for it; `DatabaseBeginProtected` is its second part.

*Cursors.* The five properties are inductive only together with four more facts (`CursorInv`).
`Focus` says what a thread inside a call may assume (a cursor being closed has no handle any more
and its native cursor is still open, unless its transaction's end overlapped), `Exclusive` that
calls that share a transaction are recorded in `overlap` and a cursor has one closer - again the
exchange -, `Handles` that a handle stands for an open native cursor unless its write transaction
is gone, and `Membership` that a write cursor stays in the set of the transaction that opened it.
`Membership` is what makes `ReleaseManagedResources` reach every cursor LMDB has freed; that
`Renew` is for read-only cursors only is what keeps it true. The invariant was model-checked with
the constants of `cursor_lifecycle` before it was proved.

The refinement of `CursorContract` rests on the same invariant: each action moves one cursor along
its phases, or those of one transaction at its end. `Handles` gives that a claimed cursor has been
open, which makes the exchange a `Claim`; `WriteCursorsCleared` and `Exclusive` that a `Claim` of a
dangling cursor, or an end that meets a claimed one, is recorded in `overlap`; `Membership` that
`Clear` reaches all cursors that were not late.

*Databases.* `DatabaseInv` says where a thread is and what it knows (`Focus`), how transactions and
databases hang together (`Objects`), that a usable unpublished database is in the list of its own
transaction, once (`Lists`, `Distinct`), that the dictionary has published databases each under
its own key and, until a write is lost, all that are usable (`Registered`), that the writer mutex
belongs to the open transaction, which alone has new `dbi`s (`Writing`), and the key to
`HandlesMatch`: a native `dbi` that is open belongs to one `Database`, or to the `Dispose` that is
about to close it (`Owned`). That is false once a `dbi` is opened twice or a commit fails, which is
why `HandlesMatch` excludes these two lapses. The refinement rests on the same
invariant: a key that `Committed` finds free is free in the contract, and the name a callback
removes is its own database's.

*Nesting.* `NestedInv` has the dictionary (`Registry`), that a live `MDB_txn` has an open
`Transaction` (`Handles`), that the live `MDB_txn`s form one chain along `parent` (`Tree`), that a
database is in one list or in the dictionary (`Places`), and who would close a `dbi` (`DbiOwners`:
its database's own transaction or one that this is nested in). `Tree` is why a refused transaction
has met an ancestor, `DbiOwners` why an abort that takes nothing published back leaves all other
handles alone.

*Loops.* `LoopVisitsAll` compares what was yielded with the promise and says nothing of what comes
next. The invariant `NavigationInv` adds that the promise is what was yielded and what is left
(`Progress`), where what is left follows from `Current` alone (`OuterLeft`); and that in a body the
cursor is on `Current` itself, or at least on its key if the loop goes by keys. Then each `MoveNext`
finds the first of what is left and leaves the others (`Takes`), because the operation goes from the
position as it would from `Current`. A deletion takes the same records off the promise as off what
is left, a keyed operation from a record that is gone included. That a finite set of records has a
first and a last one (`FirstExists`) comes from the well-foundedness of the strict subsets of a
finite set: `Least` and `Greatest` choose a record, so nothing recursive is unfolded.
`RoundsProgress` follows from `Takes`: no round leaves the list as long as it was, so a `foreach`
ends after at most as many rounds as there are records - what the code needs for the loop to end,
without the fairness that says the program goes on with it.
`NavigationInv` and `FixedInv` were model-checked with the constants of `cursor_navigation` before
they were proved.

*Pages.* `FixedInv` adds to `NavigationInv` what is left of a loop over pages (`PagesLeft`) and
that its body finds the cursor on the last record of a page. Two duplicates are on one page when no
cut lies between them, so pages lie apart (`PagesApart`), and the duplicate after the last of a page
is the first of the next. What was yielded and what is left make up `PagesExpected` at every moment,
which at the end of the loop is the equality of `PagesLoopVisitsAll`. A loop over pages stays on its key, and so leaves the list of the
`foreach` by keys around it alone, which is the step the refinement needs beyond those of
`CursorNavigation`.

*Buffer.* `BufferRespected` is the arithmetic: a value that fits is not changed by wrapping, and
multiplication by a positive size is monotonic. `BufferNeverOverread` carries it to the
specification: `PutMultiple` is the only step that changes `overread`.

Left to TLC: the two liveness properties, `EndingCompletes` and `DisposeCompletes`, as fairness and
ENABLED are beyond the prover, and the six violations, which are TLC's counterexamples. Every
invariant and every action property of the passing runs, and every refinement, is proved.

## 5. What is not modelled

* *Of nested transactions*: nested read-only ones, which LMDB refuses; `Drop` and cursors in them;
  name conflicts (a name is opened only when no usable database has it; `DatabaseRegistry` has the
  conflicts); and the call that waits for its own thread.
* *Calls that overlap the environment's `Dispose`*, for databases. The documentation forbids them;
  `TransactionRegistry` and `CursorLifecycle` have them for transactions and cursors.
* *Opening and configuring the environment* (`Open`, `SetMapSize`, `Sync`, ...): one native call
  after `CheckDisposed` each.
* *`mdb_set_compare` failing* in `OpenDatabaseInternal`: LMDB fails only on a handle that is not
  open. `Drop` failing changes nothing.
* *`Delete` inside a loop over values*: LMDB's position in a page of duplicates after
  `mdb_cursor_del` cannot be read from the callers.
* *Moves and writes other than `Delete` in the body of a loop*: they move the position from which the
  next `MoveNext` goes on, and what is left is then whatever lies behind. The iterators document
  nothing for it.
* *Pages of a key with one value* (`GetMultiple` and the loops over pages): neither the code nor its
  tests show what LMDB returns there.
* *`PutMultiple` with a count of zero*: what LMDB does with it cannot be read from its caller.
* *Records without a cursor* (`Database.Get`, `Put`, `Delete`, `Truncate`, `Compare`): one native
  call after `CheckDisposed` each, with no state of the wrapper's. The cursor operations with the
  same meaning are in `CursorNavigation`; what they do to the position of another open cursor is
  LMDB's and cannot be read from the callers.
* *Memory* the program holds: the span `Database.Get` returns (`Database.cs` 133) points into the
  memory map and is dead after the next update or the end of the transaction. No code of the
  wrapper runs at that point; it is a hazard for the program alone.
* *Garbage collection* of comparison delegates. LMDB keeps a pointer to the delegate
  `mdb_set_compare` got (`DatabaseTransaction.cs` 46, 53), and the `Database`'s `Config` keeps it
  alive. A `dbi` that is opened twice (`aliased`) calls the second delegate on behalf of the first
  `Database`; `HandlesMatch` is about when that can be.
* *Crashes.* The wrapper persists nothing itself; recovery is LMDB's.
* *The scripts of the documentation site* (`src/Docs/_site/styles`): DocFX's theme and the search
  library lunr, generated or vendored, the only JavaScript in the repository. They call nothing of
  the library.

## 6. Plan

Done: the transaction core with its contract, its safety and its liveness; databases with their
contract; nested transactions; the cursor life cycle against the end of transactions and of the
environment, with its contract; navigation, pages and `PutMultiple`, with the contract of a loop;
proofs of all safety properties and of all refinements.

Left, in the order of what it would show:

1. `DatabaseRegistry` with calls that overlap the environment's `Dispose`: `ClearHandle` against a
   `Dispose` or `Drop` of the same database, `databases.Clear()` against `Committed`.
2. Comparison delegates: whose function LMDB calls for a `dbi`, as a variable beside `table`, and
   that a usable `Database` keeps it alive.
