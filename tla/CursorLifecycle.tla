---------------------------- MODULE CursorLifecycle ----------------------------
(***************************************************************************)
(* The life of cursors (src/Lmdb): Database.OpenCursor, the set of cursors *)
(* each Transaction keeps, Cursor.Dispose and Renew, and what the end of a *)
(* transaction does to them. LMDB frees a write transaction's cursors when *)
(* the transaction ends, whatever the result, and leaves those of a        *)
(* read-only transaction for Cursor.Dispose; the managed objects have to   *)
(* follow. The calls of several threads interleave at each exchange, each  *)
(* lock and each native call.                                              *)
(*                                                                         *)
(* The program follows the documentation: one thread uses a write          *)
(* transaction and its cursors; a read-only transaction may move between   *)
(* threads (MDB_NOTLS) but serves one call at a time, and its cursors are  *)
(* closed from anywhere when they are not in use. The exception is         *)
(* LmdbEnvironment.Dispose, which ends the transactions of every thread,   *)
(* in the middle of a call or not.                                         *)
(***************************************************************************)
EXTENDS Naturals

CONSTANTS
  Threads, Txns, Cursors,  \* the objects a behaviour may create
  ReadOnly,                \* the transactions that are ReadOnlyTransaction
  NoThread, NoTxn, NoCursor

ASSUME CursorAssumption ==
  /\ ReadOnly \subseteq Txns
  /\ NoThread \notin Threads /\ NoTxn \notin Txns /\ NoCursor \notin Cursors

VARIABLES
  owner,      \* the thread that began a transaction
  txn,        \* Transaction.txn: "unborn", "open" or "zero"
  cursors,    \* Transaction.cursors
  cur,        \* Cursor.cur: "unborn", "open" or "zero"
  isReadOnly, \* Cursor.IsReadOnly
  disposed,   \* Cursor.disposed: the transaction whose CursorDisposed it is
  pc, curTxn, curCursor,  \* per thread: where it is and its local variables
  nativeTxn,  \* native: "none", "live", "reset" or "freed"
  nativeCur,  \* native: "none", "open" or "freed"
  boundTo,    \* native: the transaction a cursor reads
  fault,      \* a freed native object was used or freed again
  overlap,    \* history: the transactions whose end met another call on them or their cursors
  late        \* history: the cursors AddCursor was given after the exchange that ended theirs

managed  == <<owner, txn, cursors, cur, isReadOnly, disposed>>
threads  == <<pc, curTxn, curCursor>>
nativeSt == <<nativeTxn, nativeCur, boundTo>>
history  == <<overlap, late>>
vars     == <<managed, threads, nativeSt, fault, history>>

Goto(th, label) == pc' = [pc EXCEPT ![th] = label]
Enter(th, label, x, c) ==
  /\ Goto(th, label)
  /\ curTxn' = [curTxn EXCEPT ![th] = x]
  /\ curCursor' = [curCursor EXCEPT ![th] = c]
Leave(th) == Enter(th, "idle", NoTxn, NoCursor)

\* Nothing can be said of a program after it has used freed memory.
Idle(th) == pc[th] = "idle" /\ ~fault
Running(th, label) == pc[th] = label /\ ~fault

Init ==
  /\ owner = [x \in Txns |-> NoThread]
  /\ txn = [x \in Txns |-> "unborn"]
  /\ cursors = [x \in Txns |-> {}]
  /\ cur = [c \in Cursors |-> "unborn"]
  /\ isReadOnly = [c \in Cursors |-> FALSE]
  /\ disposed = [c \in Cursors |-> NoTxn]
  /\ pc = [th \in Threads |-> "idle"]
  /\ curTxn = [th \in Threads |-> NoTxn]
  /\ curCursor = [th \in Threads |-> NoCursor]
  /\ nativeTxn = [x \in Txns |-> "none"]
  /\ nativeCur = [c \in Cursors |-> "none"]
  /\ boundTo = [c \in Cursors |-> NoTxn]
  /\ fault = FALSE
  /\ overlap = {} /\ late = {}

\* Whether th may call into transaction x now.
MayUse(th, x) ==
  /\ x \notin ReadOnly => owner[x] = th
  /\ \A t \in Threads \ {th} : curTxn[t] # x

Ending(t) == pc[t] \in {"end", "release"}

\* A call that may meet the end of x: its own discipline is the same, but it does not know of an
\* environment that is being disposed.
MayMeetEnd(th, x) ==
  /\ x \notin ReadOnly => owner[x] = th
  /\ \A t \in Threads \ {th} : curTxn[t] = x => Ending(t)

\* A call on x starts while another one has not returned.
Meeting(th, x) == overlap' = overlap \cup {y \in {x} : \E t \in Threads \ {th} : curTxn[t] = y}

-----------------------------------------------------------------------------
(* Transactions *)

\* BeginTransaction, BeginReadOnlyTransaction. There is one write transaction at a time.
Begin(th, x) ==
  /\ Idle(th) /\ txn[x] = "unborn"
  /\ x \notin ReadOnly => \A y \in Txns \ ReadOnly : nativeTxn[y] # "live"
  /\ owner' = [owner EXCEPT ![x] = th]
  /\ txn' = [txn EXCEPT ![x] = "open"]
  /\ nativeTxn' = [nativeTxn EXCEPT ![x] = "live"]
  /\ UNCHANGED <<cursors, cur, isReadOnly, disposed, threads, nativeCur, boundTo, fault, history>>

\* ReadOnlyTransaction.Reset and Renew; renewing one that is live fails.
Reset(th, x) ==
  /\ Idle(th) /\ MayUse(th, x) /\ x \in ReadOnly /\ txn[x] = "open"
  /\ nativeTxn' = [nativeTxn EXCEPT ![x] = "reset"]
  /\ UNCHANGED <<managed, threads, nativeCur, boundTo, fault, history>>

Renew(th, x) ==
  /\ Idle(th) /\ MayUse(th, x) /\ x \in ReadOnly /\ txn[x] = "open" /\ nativeTxn[x] = "reset"
  /\ nativeTxn' = [nativeTxn EXCEPT ![x] = "live"]
  /\ UNCHANGED <<managed, threads, nativeCur, boundTo, fault, history>>

\* Commit, Abort and Dispose alike: the exchange of the handle; the loser does nothing. The
\* environment's Dispose makes this call for every open transaction, whoever uses it.
End(th, x) ==
  /\ Idle(th) /\ txn[x] = "open"
  /\ txn' = [txn EXCEPT ![x] = "zero"]
  /\ Enter(th, "end", x, NoCursor)
  /\ Meeting(th, x)
  /\ UNCHANGED <<owner, cursors, cur, isReadOnly, disposed, nativeSt, fault, late>>

\* mdb_txn_commit, successful or not, and mdb_txn_abort free a write transaction's cursors.
EndNative(th) ==
  LET x == curTxn[th] IN
  /\ Running(th, "end")
  /\ nativeTxn' = [nativeTxn EXCEPT ![x] = "freed"]
  /\ nativeCur' = [c \in Cursors |-> IF boundTo[c] = x /\ x \notin ReadOnly
                                     THEN "freed" ELSE nativeCur[c]]
  /\ Goto(th, "release")
  /\ UNCHANGED <<managed, curTxn, curCursor, boundTo, fault, history>>

\* The handles in `cleared` become zero and the set is emptied.
Release(th, cleared) ==
  /\ Running(th, "release")
  /\ cur' = [c \in Cursors |-> IF c \in cleared THEN "zero" ELSE cur[c]]
  /\ cursors' = [cursors EXCEPT ![curTxn[th]] = {}]
  /\ Leave(th)
  /\ UNCHANGED <<owner, txn, isReadOnly, disposed, nativeSt, fault, history>>

\* Slips: the test of IsReadOnly is inverted, or forgotten.
ReleaseManagedResources_Inverted(th) == Release(th, {c \in cursors[curTxn[th]] : isReadOnly[c]})
ReleaseManagedResources_All(th) == Release(th, cursors[curTxn[th]])

\* Under cursorLock: read-only cursors stay usable, the others are gone with the transaction.
ReleaseManagedResources(th) == Release(th, {c \in cursors[curTxn[th]] : ~isReadOnly[c]})

-----------------------------------------------------------------------------
(* Cursors *)

\* Database.OpenCursor has read transaction.Handle; zero would make mdb_cursor_open fail.
OpenCursor(th, x) ==
  /\ Idle(th) /\ MayMeetEnd(th, x) /\ txn[x] = "open"
  /\ Enter(th, "open", x, NoCursor)
  /\ UNCHANGED <<managed, nativeSt, fault, history>>

\* mdb_cursor_open, refused by a transaction that is reset, and the Cursor object.
OpenNative(th, c) ==
  LET x == curTxn[th] IN
  /\ Running(th, "open") /\ cur[c] = "unborn" /\ nativeTxn[x] = "live"
  /\ nativeCur' = [nativeCur EXCEPT ![c] = "open"]
  /\ boundTo' = [boundTo EXCEPT ![c] = x]
  /\ cur' = [cur EXCEPT ![c] = "open"]
  /\ isReadOnly' = [isReadOnly EXCEPT ![c] = x \in ReadOnly]
  /\ Enter(th, "add", x, c)
  /\ UNCHANGED <<owner, txn, cursors, disposed, nativeTxn, fault, history>>

\* It fails; on the memory of a transaction that has ended, anything could happen.
OpenFails(th) ==
  /\ Running(th, "open")
  /\ fault' = (nativeTxn[curTxn[th]] = "freed")
  /\ Leave(th)
  /\ UNCHANGED <<managed, nativeSt, history>>

\* A slip: the cursor is not told whom to notify.
AddCursor_NoCallback(th) ==
  /\ Running(th, "add")
  /\ cursors' = [cursors EXCEPT ![curTxn[th]] = @ \cup {curCursor[th]}]
  /\ Leave(th)
  /\ UNCHANGED <<owner, txn, cur, isReadOnly, disposed, nativeSt, fault, history>>

\* Transaction.AddCursor, under cursorLock, which does not look whether the transaction is open.
AddCursor(th) ==
  LET x == curTxn[th]
      c == curCursor[th]
  IN
  /\ Running(th, "add")
  /\ disposed' = [disposed EXCEPT ![c] = x]
  /\ cursors' = [cursors EXCEPT ![x] = @ \cup {c}]
  /\ late' = IF txn[x] = "zero" THEN late \cup {c} ELSE late
  /\ Leave(th)
  /\ UNCHANGED <<owner, txn, cur, isReadOnly, nativeSt, fault, overlap>>

\* The program has a cursor once OpenCursor has returned it.
Has(c) == cur[c] = "open" /\ \A t \in Threads : pc[t] = "add" => curCursor[t] # c

\* A read-only cursor may be closed beside anything but its own use, another Dispose included.
MayClose(th, c) ==
  IF isReadOnly[c] THEN \A t \in Threads : pc[t] = "use" => curCursor[t] # c
                   ELSE MayMeetEnd(th, boundTo[c])

\* Dispose of a read-only cursor does not touch its transaction.
CloseMeets(th, c) == IF isReadOnly[c] THEN UNCHANGED overlap ELSE Meeting(th, boundTo[c])

\* A slip: the handle is read and not exchanged.
Dispose_NoExchange(th, c) ==
  /\ Idle(th) /\ Has(c)
  /\ MayClose(th, c)
  /\ Enter(th, "close", IF isReadOnly[c] THEN NoTxn ELSE boundTo[c], c)
  /\ CloseMeets(th, c)
  /\ UNCHANGED <<managed, nativeSt, fault, late>>

\* Cursor.Dispose: the exchange of the handle.
Dispose(th, c) ==
  /\ Idle(th) /\ Has(c)
  /\ MayClose(th, c)
  /\ cur' = [cur EXCEPT ![c] = "zero"]
  /\ Enter(th, "close", IF isReadOnly[c] THEN NoTxn ELSE boundTo[c], c)
  /\ CloseMeets(th, c)
  /\ UNCHANGED <<owner, txn, cursors, isReadOnly, disposed, nativeSt, fault, late>>

\* mdb_cursor_close.
CloseNative(th) ==
  LET c == curCursor[th] IN
  /\ Running(th, "close")
  /\ fault' = (nativeCur[c] = "freed")
  /\ nativeCur' = [nativeCur EXCEPT ![c] = "freed"]
  /\ Goto(th, "notify")
  /\ UNCHANGED <<managed, curTxn, curCursor, nativeTxn, boundTo, history>>

\* A slip: the callback does nothing.
CursorDisposed_Nothing(th) ==
  /\ Running(th, "notify")
  /\ Leave(th)
  /\ UNCHANGED <<managed, nativeSt, fault, history>>

\* Transaction.CursorDisposed, of the transaction that opened the cursor, under cursorLock.
CursorDisposed(th) ==
  LET c == curCursor[th] IN
  /\ Running(th, "notify")
  /\ cursors' = [cursors EXCEPT ![disposed[c]] = @ \ {c}]
  /\ Leave(th)
  /\ UNCHANGED <<owner, txn, cur, isReadOnly, disposed, nativeSt, fault, history>>

\* Cursor.Renew binds a read-only cursor to another live read-only transaction. The cursor
\* stays in the set of the transaction that opened it.
RenewCursor(th, c, x) ==
  /\ Idle(th) /\ Has(c) /\ isReadOnly[c]
  /\ MayUse(th, x) /\ x \in ReadOnly /\ txn[x] = "open" /\ nativeTxn[x] = "live"
  /\ boundTo' = [boundTo EXCEPT ![c] = x]
  /\ UNCHANGED <<managed, threads, nativeTxn, nativeCur, fault, history>>

\* Any Get, Put, Delete or Count: CheckDisposed, then the native call. The documentation
\* forbids it for a read-only cursor whose transaction has ended or is reset.
Use(th, c) ==
  /\ Idle(th) /\ Has(c) /\ MayMeetEnd(th, boundTo[c])
  /\ isReadOnly[c] => nativeTxn[boundTo[c]] = "live" /\ \A t \in Threads : curCursor[t] # c
  /\ Enter(th, "use", boundTo[c], c)
  /\ Meeting(th, boundTo[c])
  /\ UNCHANGED <<managed, nativeSt, fault, late>>

UseNative(th) ==
  /\ Running(th, "use")
  /\ fault' = (nativeCur[curCursor[th]] = "freed" \/ nativeTxn[curTxn[th]] = "freed")
  /\ Leave(th)
  /\ UNCHANGED <<managed, nativeSt, history>>

\* Dispose, of a transaction or a cursor whose handle is zero already, does nothing.
DisposeAgain(th) ==
  /\ Idle(th)
  /\ (\E x \in Txns : txn[x] = "zero") \/ (\E c \in Cursors : cur[c] = "zero")
  /\ UNCHANGED vars

\* After a fault nothing more is said of the process.
Undefined == fault /\ UNCHANGED vars

-----------------------------------------------------------------------------
(* Specification *)

Transaction(th) ==
  \/ \E x \in Txns : Begin(th, x) \/ Reset(th, x) \/ Renew(th, x) \/ End(th, x)
  \/ EndNative(th) \/ ReleaseManagedResources(th)

Cursor(th) ==
  \/ \E x \in Txns : OpenCursor(th, x)
  \/ \E c \in Cursors : OpenNative(th, c) \/ Dispose(th, c) \/ Use(th, c)
  \/ \E c \in Cursors, x \in Txns : RenewCursor(th, c, x)
  \/ OpenFails(th) \/ AddCursor(th) \/ CloseNative(th) \/ CursorDisposed(th) \/ UseNative(th)
  \/ DisposeAgain(th)

Next == (\E th \in Threads : Transaction(th) \/ Cursor(th)) \/ Undefined

Spec == Init /\ [][Next]_vars

-----------------------------------------------------------------------------
(* Properties *)

\* Every variable has its type, and a thread its local variables where it uses them.
TypeOK ==
  /\ owner \in [Txns -> Threads \cup {NoThread}]
  /\ txn \in [Txns -> {"unborn", "open", "zero"}]
  /\ cursors \in [Txns -> SUBSET Cursors]
  /\ cur \in [Cursors -> {"unborn", "open", "zero"}]
  /\ isReadOnly \in [Cursors -> BOOLEAN]
  /\ disposed \in [Cursors -> Txns \cup {NoTxn}]
  /\ pc \in [Threads -> {"idle", "end", "release", "open", "add", "close", "notify", "use"}]
  /\ curTxn \in [Threads -> Txns \cup {NoTxn}]
  /\ curCursor \in [Threads -> Cursors \cup {NoCursor}]
  /\ nativeTxn \in [Txns -> {"none", "live", "reset", "freed"}]
  /\ nativeCur \in [Cursors -> {"none", "open", "freed"}]
  /\ boundTo \in [Cursors -> Txns \cup {NoTxn}]
  /\ fault \in BOOLEAN /\ overlap \subseteq Txns /\ late \subseteq Cursors
  /\ \A th \in Threads :
       /\ pc[th] \in {"end", "release", "open", "add"} => curTxn[th] \in Txns
       /\ pc[th] \in {"add", "close", "notify", "use"} => curCursor[th] \in Cursors
       /\ pc[th] = "notify" => disposed[curCursor[th]] \in Txns

Within(th, labels, c) == pc[th] \in labels /\ curCursor[th] = c

\* No native cursor is closed twice, by Dispose against Dispose or against the end of its
\* transaction, and none is used after it was freed, unless the end of a transaction overlaps
\* another call on it or its cursors, or the program uses a cursor such a call has returned.
NoUseAfterFree == fault => overlap # {}

\* Once the end of a write transaction has returned, even one forced by the environment beside
\* running calls, every cursor OpenCursor had returned before has lost its handle: the next call
\* on it throws instead of reaching memory LMDB has freed. What slips through is a cursor whose
\* OpenCursor was overtaken between the native call and AddCursor.
WriteCursorsCleared ==
  \A c \in Cursors :
    (cur[c] = "open" /\ ~isReadOnly[c] /\ nativeTxn[boundTo[c]] = "freed") =>
      \/ \E th \in Threads : pc[th] = "release" /\ curTxn[th] = boundTo[c]
      \/ boundTo[c] \in overlap /\ (c \in late \/ \E th \in Threads : Within(th, {"add"}, c))

\* A native cursor that is open can still be closed: its Cursor has the handle, or a thread is
\* about to close it. Ending a read-only transaction never loses a cursor.
NativeReachable ==
  \A c \in Cursors : nativeCur[c] = "open" =>
    cur[c] = "open" \/ \E th \in Threads : Within(th, {"close"}, c)

\* A transaction keeps only cursors that are not closed yet, or whose callback is on its way,
\* also when Renew has bound the cursor to another transaction since.
TrackedNotClosed ==
  \A x \in Txns : \A c \in cursors[x] :
    cur[c] = "open" \/ \E th \in Threads : Within(th, {"close", "notify"}, c)

\* What the contract calls dangling: LMDB has freed the cursor and the handle is still there.
PhaseOf(c) ==
  CASE cur[c] = "unborn"                              -> "none"
    [] cur[c] = "open" /\ nativeCur[c] = "open"       -> "open"
    [] cur[c] = "open" /\ nativeCur[c] # "open"       -> "dangling"
    [] cur[c] = "zero" /\ nativeCur[c] = "open"       -> "claimed"
    [] cur[c] = "zero" /\ nativeCur[c] # "open"       -> "closed"

Contract == INSTANCE CursorContract WITH
  phase <- [c \in Cursors |-> PhaseOf(c)],
  home <- boundTo,
  ended <- {x \in Txns : nativeTxn[x] = "freed"},
  met <- overlap,
  broken <- fault

\* Cursors and transactions keep the contract of the two classes (CursorContract) step by step: a
\* cursor is opened once, taken by one caller and closed once, the end of a write transaction takes
\* all of its cursors and no others, and what does not go that way had met the end.
KeepsContract == Contract!Spec

=============================================================================
