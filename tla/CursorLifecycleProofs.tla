---------------------- MODULE CursorLifecycleProofs ----------------------
(***************************************************************************)
(* Proofs about CursorLifecycle, for any number of threads, transactions   *)
(* and cursors: no native cursor or transaction is used or freed after it  *)
(* was freed, no handle outlives a write transaction, no cursor is lost.   *)
(***************************************************************************)
EXTENDS CursorLifecycle, TLAPS

Closing == {"close", "notify"}

\* The transaction th works on is ended in the middle of another call.
Met(th) == curTxn[th] \in overlap

\* What a thread in the middle of a call knows about its transaction and its cursor.
Focus ==
  \A th \in Threads :
    /\ pc[th] = "idle" => curTxn[th] = NoTxn
    /\ pc[th] = "end" => txn[curTxn[th]] = "zero" /\ nativeTxn[curTxn[th]] # "freed"
    /\ pc[th] = "release" => txn[curTxn[th]] = "zero" /\ nativeTxn[curTxn[th]] = "freed"
    /\ pc[th] \in {"open", "add"} => txn[curTxn[th]] = "open" \/ Met(th)
    /\ pc[th] = "add" =>
         /\ cur[curCursor[th]] = "open" /\ disposed[curCursor[th]] = NoTxn
         /\ boundTo[curCursor[th]] = curTxn[th]
    /\ pc[th] = "use" =>
         /\ curTxn[th] \in Txns
         /\ (nativeTxn[curTxn[th]] # "freed" /\ nativeCur[curCursor[th]] = "open") \/ Met(th)
         /\ cur[curCursor[th]] # "unborn" /\ (cur[curCursor[th]] = "open" \/ Met(th))
    /\ pc[th] = "close" =>
         nativeCur[curCursor[th]] = "open" \/ (~isReadOnly[curCursor[th]] /\ Met(th))
    /\ pc[th] \in Closing => cur[curCursor[th]] = "zero" /\ disposed[curCursor[th]] \in Txns
    /\ pc[th] \in Closing \cup {"use"} /\ ~isReadOnly[curCursor[th]] =>
         curTxn[th] = boundTo[curCursor[th]]

\* A transaction serves one call at a time unless its end overlaps one, one call ends it, and one
\* call opens or closes a cursor.
Exclusive ==
  \A th1, th2 \in Threads :
    th1 # th2 =>
      /\ curTxn[th1] \in Txns => curTxn[th1] # curTxn[th2] \/ Met(th1)
      /\ Ending(th1) /\ Ending(th2) => curTxn[th1] # curTxn[th2]
      /\ pc[th1] \in Closing \cup {"add"} /\ pc[th2] \in Closing \cup {"add"}
           => curCursor[th1] # curCursor[th2]

\* The handle of a cursor against the native cursor and its transaction.
Handles ==
  /\ \A x \in Txns : txn[x] = "open" => nativeTxn[x] \in {"live", "reset"}
  /\ \A x \in Txns : txn[x] = "unborn" => nativeTxn[x] = "none"
  /\ \A c \in Cursors :
       /\ cur[c] = "unborn" => disposed[c] = NoTxn /\ boundTo[c] = NoTxn /\ nativeCur[c] = "none"
       /\ cur[c] # "unborn" => boundTo[c] \in Txns /\ (isReadOnly[c] <=> boundTo[c] \in ReadOnly)
       /\ cur[c] # "unborn" => nativeCur[c] # "none"
       /\ cur[c] = "open" /\ isReadOnly[c] => nativeCur[c] = "open"
       /\ cur[c] = "open" /\ nativeTxn[boundTo[c]] # "freed" => nativeCur[c] = "open"
       /\ nativeCur[c] = "open" /\ ~isReadOnly[c] => nativeTxn[boundTo[c]] # "freed"

\* A cursor is in the set of the transaction that opened it and in no other; a cursor of a
\* write transaction stays there until it is closed or the transaction ends.
Membership ==
  /\ \A x \in Txns : \A c \in cursors[x] : disposed[c] = x
  /\ \A c \in Cursors :
       /\ disposed[c] \in Txns /\ ~isReadOnly[c] => boundTo[c] = disposed[c]
       /\ cur[c] = "open" => disposed[c] \in Txns \/ \E th \in Threads : Within(th, {"add"}, c)
       /\ cur[c] = "open" /\ ~isReadOnly[c] =>
            c \in cursors[boundTo[c]] \/ \E th \in Threads : Within(th, {"add"}, c)
  /\ \A c \in late : disposed[c] \in Txns /\ (~isReadOnly[c] => boundTo[c] \in overlap)

CursorInv ==
  /\ TypeOK /\ Focus /\ Exclusive /\ Handles /\ Membership
  /\ NoUseAfterFree /\ WriteCursorsCleared /\ NativeReachable /\ TrackedNotClosed
-----------------------------------------------------------------------------
\* Every step keeps the variables in their sets.
LEMMA TypeStep == CursorInv /\ [Next]_vars => TypeOK'
<1> SUFFICES ASSUME CursorInv, [Next]_vars PROVE TypeOK'
  OBVIOUS
<1> USE CursorAssumption DEF CursorInv, TypeOK, Idle, Running, vars, managed, threads, nativeSt,
      history, Focus, Closing, Met, Ending,
      Handles, Membership, Within
<1>1. ASSUME NEW th \in Threads, NEW x \in Txns, Begin(th, x) PROVE TypeOK'
  BY <1>1 DEF Begin
<1>2. ASSUME NEW th \in Threads, NEW x \in Txns, Reset(th, x) PROVE TypeOK'
  BY <1>2 DEF Reset, MayUse
<1>3. ASSUME NEW th \in Threads, NEW x \in Txns, Renew(th, x) PROVE TypeOK'
  BY <1>3 DEF Renew, MayUse
<1>4. ASSUME NEW th \in Threads, NEW x \in Txns, End(th, x) PROVE TypeOK'
  BY <1>4 DEF End, Meeting, Enter, Goto
<1>5. ASSUME NEW th \in Threads, EndNative(th) PROVE TypeOK'
  BY <1>5 DEF EndNative, Goto
<1>6. ASSUME NEW th \in Threads, ReleaseManagedResources(th) PROVE TypeOK'
  BY <1>6 DEF ReleaseManagedResources, Release, Leave, Enter, Goto
<1>7. ASSUME NEW th \in Threads, NEW x \in Txns, OpenCursor(th, x) PROVE TypeOK'
  BY <1>7 DEF OpenCursor, MayMeetEnd, Enter, Goto
<1>8. ASSUME NEW th \in Threads, NEW c \in Cursors, OpenNative(th, c) PROVE TypeOK'
  BY <1>8 DEF OpenNative, Enter, Goto
<1>9. ASSUME NEW th \in Threads, OpenFails(th) PROVE TypeOK'
  BY <1>9 DEF OpenFails, Leave, Enter, Goto
<1>10. ASSUME NEW th \in Threads, AddCursor(th) PROVE TypeOK'
  BY <1>10 DEF AddCursor, Leave, Enter, Goto
<1>11. ASSUME NEW th \in Threads, NEW c \in Cursors, Dispose(th, c) PROVE TypeOK'
  BY <1>11 DEF Dispose, Has, MayClose, MayMeetEnd, CloseMeets, Meeting, Enter, Goto
<1>12. ASSUME NEW th \in Threads, CloseNative(th) PROVE TypeOK'
  BY <1>12 DEF CloseNative, Goto
<1>13. ASSUME NEW th \in Threads, CursorDisposed(th) PROVE TypeOK'
  BY <1>13 DEF CursorDisposed, Leave, Enter, Goto
<1>14. ASSUME NEW th \in Threads, NEW c \in Cursors, NEW x \in Txns, RenewCursor(th, c, x) PROVE TypeOK'
  BY <1>14 DEF RenewCursor, Has, MayUse
<1>15. ASSUME NEW th \in Threads, NEW c \in Cursors, Use(th, c) PROVE TypeOK'
  BY <1>15 DEF Use, Has, MayMeetEnd, Meeting, Enter, Goto
<1>16. ASSUME NEW th \in Threads, UseNative(th) PROVE TypeOK'
  BY <1>16 DEF UseNative, Leave, Enter, Goto
<1>17. CASE UNCHANGED vars
  BY <1>17
<1> HIDE DEF CursorInv, TypeOK, Idle, Running, vars, managed, threads, nativeSt,
      history, Focus, Closing, Met, Ending,
      Handles, Membership, Within
<1>q. QED
  BY <1>1, <1>2, <1>3, <1>4, <1>5, <1>6, <1>7, <1>8, <1>9, <1>10, <1>11, <1>12,
     <1>13, <1>14, <1>15, <1>16, <1>17 DEF Next, Transaction, Cursor, DisposeAgain, Undefined

\* Every step leaves each thread with a transaction and a cursor in the state its next step
\* expects.
LEMMA FocusStep == CursorInv /\ [Next]_vars => Focus'
<1> SUFFICES ASSUME CursorInv, [Next]_vars PROVE Focus'
  OBVIOUS
<1> USE CursorAssumption DEF CursorInv, TypeOK, Idle, Running, vars, managed, threads, nativeSt,
      history, Focus, Closing, Met, Ending,
      Exclusive, Handles, Membership, Within, NoUseAfterFree, WriteCursorsCleared
<1>1. ASSUME NEW th \in Threads, NEW x \in Txns, Begin(th, x) PROVE Focus'
  BY <1>1 DEF Begin
<1>2. ASSUME NEW th \in Threads, NEW x \in Txns, Reset(th, x) PROVE Focus'
  BY <1>2 DEF Reset, MayUse
<1>3. ASSUME NEW th \in Threads, NEW x \in Txns, Renew(th, x) PROVE Focus'
  BY <1>3 DEF Renew, MayUse
<1>4. ASSUME NEW th \in Threads, NEW x \in Txns, End(th, x) PROVE Focus'
  BY <1>4 DEF End, Meeting, Enter, Goto
<1>5. ASSUME NEW th \in Threads, EndNative(th) PROVE Focus'
  BY <1>5 DEF EndNative, Goto
<1>6. ASSUME NEW th \in Threads, ReleaseManagedResources(th) PROVE Focus'
  BY <1>6 DEF ReleaseManagedResources, Release, Leave, Enter, Goto
<1>7. ASSUME NEW th \in Threads, NEW x \in Txns, OpenCursor(th, x) PROVE Focus'
  BY <1>7 DEF OpenCursor, MayMeetEnd, Enter, Goto
<1>8. ASSUME NEW th \in Threads, NEW c \in Cursors, OpenNative(th, c) PROVE Focus'
  BY <1>8 DEF OpenNative, Enter, Goto
<1>9. ASSUME NEW th \in Threads, OpenFails(th) PROVE Focus'
  BY <1>9 DEF OpenFails, Leave, Enter, Goto
<1>10. ASSUME NEW th \in Threads, AddCursor(th) PROVE Focus'
  BY <1>10 DEF AddCursor, Leave, Enter, Goto
<1>11. ASSUME NEW th \in Threads, NEW c \in Cursors, Dispose(th, c) PROVE Focus'
  <2>1. \A t \in Threads : pc[t] \in {"use", "add"} => curCursor[t] # c
    BY <1>11 DEF Dispose, Has, MayClose, MayMeetEnd
  <2>2. overlap \subseteq overlap'
    BY <1>11 DEF Dispose, CloseMeets, Meeting
  <2>3. ~isReadOnly[c] /\ nativeCur[c] # "open" => boundTo[c] \in overlap'
    BY <1>11 DEF Dispose, Has, CloseMeets, Meeting
  <2>4. /\ pc' = [pc EXCEPT ![th] = "close"] /\ curCursor' = [curCursor EXCEPT ![th] = c]
        /\ curTxn' = [curTxn EXCEPT ![th] = IF isReadOnly[c] THEN NoTxn ELSE boundTo[c]]
        /\ cur' = [cur EXCEPT ![c] = "zero"] /\ cur[c] = "open"
        /\ \A t \in Threads : pc[t] = "add" => curCursor[t] # c
        /\ UNCHANGED <<txn, nativeTxn, nativeCur, boundTo, isReadOnly, disposed>>
    BY <1>11 DEF Dispose, Has, Enter, Goto
  <2>5. disposed[c] \in Txns /\ (isReadOnly[c] => nativeCur[c] = "open")
    BY <2>1, <2>4
  <2>6. QED
    BY <2>1, <2>2, <2>3, <2>4, <2>5
<1>12. ASSUME NEW th \in Threads, CloseNative(th) PROVE Focus'
  BY <1>12 DEF CloseNative, Goto
<1>13. ASSUME NEW th \in Threads, CursorDisposed(th) PROVE Focus'
  BY <1>13 DEF CursorDisposed, Leave, Enter, Goto
<1>14. ASSUME NEW th \in Threads, NEW c \in Cursors, NEW x \in Txns, RenewCursor(th, c, x) PROVE Focus'
  BY <1>14 DEF RenewCursor, Has, MayUse
<1>15. ASSUME NEW th \in Threads, NEW c \in Cursors, Use(th, c) PROVE Focus'
  BY <1>15 DEF Use, Has, MayMeetEnd, Meeting, Enter, Goto
<1>16. ASSUME NEW th \in Threads, UseNative(th) PROVE Focus'
  BY <1>16 DEF UseNative, Leave, Enter, Goto
<1>17. CASE UNCHANGED vars
  BY <1>17
<1> HIDE DEF CursorInv, TypeOK, Idle, Running, vars, managed, threads, nativeSt,
      history, Focus, Closing, Met, Ending,
      Exclusive, Handles, Membership, Within, NoUseAfterFree, WriteCursorsCleared
<1>q. QED
  BY <1>1, <1>2, <1>3, <1>4, <1>5, <1>6, <1>7, <1>8, <1>9, <1>10, <1>11, <1>12,
     <1>13, <1>14, <1>15, <1>16, <1>17 DEF Next, Transaction, Cursor, DisposeAgain, Undefined

\* No step gives a second thread a transaction that serves a call, or a cursor being opened or
\* closed: Interlocked.Exchange gives the handle to one Dispose only.
LEMMA ExclusiveStep == CursorInv /\ [Next]_vars => Exclusive'
<1> SUFFICES ASSUME CursorInv, [Next]_vars PROVE Exclusive'
  OBVIOUS
<1> USE CursorAssumption DEF CursorInv, TypeOK, Idle, Running, vars, managed, threads, nativeSt,
      history, Focus, Closing, Met, Ending,
      Exclusive
<1>1. ASSUME NEW th \in Threads, NEW x \in Txns, Begin(th, x) PROVE Exclusive'
  BY <1>1 DEF Begin
<1>2. ASSUME NEW th \in Threads, NEW x \in Txns, Reset(th, x) PROVE Exclusive'
  BY <1>2 DEF Reset, MayUse
<1>3. ASSUME NEW th \in Threads, NEW x \in Txns, Renew(th, x) PROVE Exclusive'
  BY <1>3 DEF Renew, MayUse
<1>4. ASSUME NEW th \in Threads, NEW x \in Txns, End(th, x) PROVE Exclusive'
  BY <1>4 DEF End, Meeting, Enter, Goto
<1>5. ASSUME NEW th \in Threads, EndNative(th) PROVE Exclusive'
  BY <1>5 DEF EndNative, Goto
<1>6. ASSUME NEW th \in Threads, ReleaseManagedResources(th) PROVE Exclusive'
  BY <1>6 DEF ReleaseManagedResources, Release, Leave, Enter, Goto
<1>7. ASSUME NEW th \in Threads, NEW x \in Txns, OpenCursor(th, x) PROVE Exclusive'
  BY <1>7 DEF OpenCursor, MayMeetEnd, Enter, Goto
<1>8. ASSUME NEW th \in Threads, NEW c \in Cursors, OpenNative(th, c) PROVE Exclusive'
  BY <1>8 DEF OpenNative, Enter, Goto
<1>9. ASSUME NEW th \in Threads, OpenFails(th) PROVE Exclusive'
  BY <1>9 DEF OpenFails, Leave, Enter, Goto
<1>10. ASSUME NEW th \in Threads, AddCursor(th) PROVE Exclusive'
  BY <1>10 DEF AddCursor, Leave, Enter, Goto
<1>11. ASSUME NEW th \in Threads, NEW c \in Cursors, Dispose(th, c) PROVE Exclusive'
  BY <1>11 DEF Dispose, Has, MayClose, MayMeetEnd, CloseMeets, Meeting, Enter, Goto
<1>12. ASSUME NEW th \in Threads, CloseNative(th) PROVE Exclusive'
  BY <1>12 DEF CloseNative, Goto
<1>13. ASSUME NEW th \in Threads, CursorDisposed(th) PROVE Exclusive'
  BY <1>13 DEF CursorDisposed, Leave, Enter, Goto
<1>14. ASSUME NEW th \in Threads, NEW c \in Cursors, NEW x \in Txns, RenewCursor(th, c, x) PROVE Exclusive'
  BY <1>14 DEF RenewCursor, Has, MayUse
<1>15. ASSUME NEW th \in Threads, NEW c \in Cursors, Use(th, c) PROVE Exclusive'
  BY <1>15 DEF Use, Has, MayMeetEnd, Meeting, Enter, Goto
<1>16. ASSUME NEW th \in Threads, UseNative(th) PROVE Exclusive'
  BY <1>16 DEF UseNative, Leave, Enter, Goto
<1>17. CASE UNCHANGED vars
  BY <1>17
<1> HIDE DEF CursorInv, TypeOK, Idle, Running, vars, managed, threads, nativeSt,
      history, Focus, Closing, Met, Ending,
      Exclusive
<1>q. QED
  BY <1>1, <1>2, <1>3, <1>4, <1>5, <1>6, <1>7, <1>8, <1>9, <1>10, <1>11, <1>12,
     <1>13, <1>14, <1>15, <1>16, <1>17 DEF Next, Transaction, Cursor, DisposeAgain, Undefined

\* No step frees the native cursor behind a handle, except the end of its write transaction.
LEMMA HandlesStep == CursorInv /\ [Next]_vars => Handles'
<1> SUFFICES ASSUME CursorInv, [Next]_vars PROVE Handles'
  OBVIOUS
<1> USE CursorAssumption DEF CursorInv, TypeOK, Idle, Running, vars, managed, threads, nativeSt,
      history, Focus, Closing, Met, Ending,
      Exclusive, Handles, Membership, Within
<1>1. ASSUME NEW th \in Threads, NEW x \in Txns, Begin(th, x) PROVE Handles'
  BY <1>1 DEF Begin
<1>2. ASSUME NEW th \in Threads, NEW x \in Txns, Reset(th, x) PROVE Handles'
  BY <1>2 DEF Reset, MayUse
<1>3. ASSUME NEW th \in Threads, NEW x \in Txns, Renew(th, x) PROVE Handles'
  BY <1>3 DEF Renew, MayUse
<1>4. ASSUME NEW th \in Threads, NEW x \in Txns, End(th, x) PROVE Handles'
  BY <1>4 DEF End, Meeting, Enter, Goto
<1>5. ASSUME NEW th \in Threads, EndNative(th) PROVE Handles'
  BY <1>5 DEF EndNative, Goto
<1>6. ASSUME NEW th \in Threads, ReleaseManagedResources(th) PROVE Handles'
  BY <1>6 DEF ReleaseManagedResources, Release, Leave, Enter, Goto
<1>7. ASSUME NEW th \in Threads, NEW x \in Txns, OpenCursor(th, x) PROVE Handles'
  BY <1>7 DEF OpenCursor, MayMeetEnd, Enter, Goto
<1>8. ASSUME NEW th \in Threads, NEW c \in Cursors, OpenNative(th, c) PROVE Handles'
  <2>1. PICK x \in Txns : x = curTxn[th]
    BY <1>8 DEF OpenNative
  <2>2. /\ UNCHANGED <<txn, disposed, nativeTxn>>
        /\ cur[c] = "unborn" /\ nativeTxn[x] = "live"
        /\ cur'[c] = "open" /\ nativeCur'[c] = "open" /\ boundTo'[c] = x
    BY <1>8, <2>1 DEF OpenNative
  <2>3. isReadOnly'[c] = (x \in ReadOnly)
    <3> HIDE DEF CursorInv, Focus, Exclusive, Handles, Membership, Within
    <3>1. isReadOnly' = [isReadOnly EXCEPT ![c] = x \in ReadOnly]
      BY <1>8, <2>1 DEF OpenNative
    <3>2. isReadOnly \in [Cursors -> BOOLEAN]
      BY DEF CursorInv
    <3> HIDE DEF TypeOK
    <3>q. QED
      BY <3>1, <3>2, Zenon
  <2>4. ASSUME NEW d \in Cursors, d # c
        PROVE  /\ cur'[d] = cur[d] /\ nativeCur'[d] = nativeCur[d] /\ boundTo'[d] = boundTo[d]
               /\ isReadOnly'[d] <=> isReadOnly[d]
    BY <1>8, <2>4 DEF OpenNative
  <2>5. ASSUME NEW d \in Cursors
        PROVE  /\ cur'[d] = "unborn" =>
                    disposed'[d] = NoTxn /\ boundTo'[d] = NoTxn /\ nativeCur'[d] = "none"
               /\ cur'[d] # "unborn" =>
                    /\ boundTo'[d] \in Txns /\ (isReadOnly'[d] <=> boundTo'[d] \in ReadOnly)
                    /\ nativeCur'[d] # "none"
               /\ cur'[d] = "open" /\ isReadOnly'[d] => nativeCur'[d] = "open"
               /\ cur'[d] = "open" /\ nativeTxn'[boundTo'[d]] # "freed" => nativeCur'[d] = "open"
               /\ nativeCur'[d] = "open" /\ ~isReadOnly'[d] => nativeTxn'[boundTo'[d]] # "freed"
    <3>1. CASE d = c
      BY <2>2, <2>3, <3>1
    <3>2. CASE d # c
      BY <2>2, <2>4, <3>2
    <3>q. QED
      BY <3>1, <3>2
  <2>6. \A y \in Txns : /\ txn'[y] = "open" => nativeTxn'[y] \in {"live", "reset"}
                        /\ txn'[y] = "unborn" => nativeTxn'[y] = "none"
    BY <2>2
  <2>q. QED
    BY <2>5, <2>6
<1>9. ASSUME NEW th \in Threads, OpenFails(th) PROVE Handles'
  BY <1>9 DEF OpenFails, Leave, Enter, Goto
<1>10. ASSUME NEW th \in Threads, AddCursor(th) PROVE Handles'
  BY <1>10 DEF AddCursor, Leave, Enter, Goto
<1>11. ASSUME NEW th \in Threads, NEW c \in Cursors, Dispose(th, c) PROVE Handles'
  BY <1>11 DEF Dispose, Has, MayClose, MayMeetEnd, CloseMeets, Meeting, Enter, Goto
<1>12. ASSUME NEW th \in Threads, CloseNative(th) PROVE Handles'
  BY <1>12 DEF CloseNative, Goto
<1>13. ASSUME NEW th \in Threads, CursorDisposed(th) PROVE Handles'
  BY <1>13 DEF CursorDisposed, Leave, Enter, Goto
<1>14. ASSUME NEW th \in Threads, NEW c \in Cursors, NEW x \in Txns, RenewCursor(th, c, x) PROVE Handles'
  BY <1>14 DEF RenewCursor, Has, MayUse
<1>15. ASSUME NEW th \in Threads, NEW c \in Cursors, Use(th, c) PROVE Handles'
  BY <1>15 DEF Use, Has, MayMeetEnd, Meeting, Enter, Goto
<1>16. ASSUME NEW th \in Threads, UseNative(th) PROVE Handles'
  BY <1>16 DEF UseNative, Leave, Enter, Goto
<1>17. CASE UNCHANGED vars
  BY <1>17
<1> HIDE DEF CursorInv, TypeOK, Idle, Running, vars, managed, threads, nativeSt,
      history, Focus, Closing, Met, Ending,
      Exclusive, Handles, Membership, Within
<1>q. QED
  BY <1>1, <1>2, <1>3, <1>4, <1>5, <1>6, <1>7, <1>8, <1>9, <1>10, <1>11, <1>12,
     <1>13, <1>14, <1>15, <1>16, <1>17 DEF Next, Transaction, Cursor, DisposeAgain, Undefined

\* No step moves a cursor to the set of another transaction, or a write cursor out of it early.
LEMMA MembershipStep == CursorInv /\ [Next]_vars => Membership'
<1> SUFFICES ASSUME CursorInv, [Next]_vars PROVE Membership'
  OBVIOUS
<1> USE CursorAssumption DEF CursorInv, TypeOK, Idle, Running, vars, managed, threads, nativeSt,
      history, Focus, Closing, Met, Ending,
      Exclusive, Handles, Membership, Within
<1>1. ASSUME NEW th \in Threads, NEW x \in Txns, Begin(th, x) PROVE Membership'
  BY <1>1 DEF Begin
<1>2. ASSUME NEW th \in Threads, NEW x \in Txns, Reset(th, x) PROVE Membership'
  BY <1>2 DEF Reset, MayUse
<1>3. ASSUME NEW th \in Threads, NEW x \in Txns, Renew(th, x) PROVE Membership'
  BY <1>3 DEF Renew, MayUse
<1>4. ASSUME NEW th \in Threads, NEW x \in Txns, End(th, x) PROVE Membership'
  BY <1>4 DEF End, Meeting, Enter, Goto
<1>5. ASSUME NEW th \in Threads, EndNative(th) PROVE Membership'
  BY <1>5 DEF EndNative, Goto
<1>6. ASSUME NEW th \in Threads, ReleaseManagedResources(th) PROVE Membership'
  BY <1>6 DEF ReleaseManagedResources, Release, Leave, Enter, Goto
<1>7. ASSUME NEW th \in Threads, NEW x \in Txns, OpenCursor(th, x) PROVE Membership'
  BY <1>7 DEF OpenCursor, MayMeetEnd, Enter, Goto
<1>8. ASSUME NEW th \in Threads, NEW c \in Cursors, OpenNative(th, c) PROVE Membership'
  BY <1>8 DEF OpenNative, Enter, Goto
<1>9. ASSUME NEW th \in Threads, OpenFails(th) PROVE Membership'
  BY <1>9 DEF OpenFails, Leave, Enter, Goto
<1>10. ASSUME NEW th \in Threads, AddCursor(th) PROVE Membership'
  BY <1>10 DEF AddCursor, Leave, Enter, Goto
<1>11. ASSUME NEW th \in Threads, NEW c \in Cursors, Dispose(th, c) PROVE Membership'
  BY <1>11 DEF Dispose, Has, MayClose, MayMeetEnd, CloseMeets, Meeting, Enter, Goto
<1>12. ASSUME NEW th \in Threads, CloseNative(th) PROVE Membership'
  BY <1>12 DEF CloseNative, Goto
<1>13. ASSUME NEW th \in Threads, CursorDisposed(th) PROVE Membership'
  BY <1>13 DEF CursorDisposed, Leave, Enter, Goto
<1>14. ASSUME NEW th \in Threads, NEW c \in Cursors, NEW x \in Txns, RenewCursor(th, c, x) PROVE Membership'
  BY <1>14 DEF RenewCursor, Has, MayUse
<1>15. ASSUME NEW th \in Threads, NEW c \in Cursors, Use(th, c) PROVE Membership'
  BY <1>15 DEF Use, Has, MayMeetEnd, Meeting, Enter, Goto
<1>16. ASSUME NEW th \in Threads, UseNative(th) PROVE Membership'
  BY <1>16 DEF UseNative, Leave, Enter, Goto
<1>17. CASE UNCHANGED vars
  BY <1>17
<1> HIDE DEF CursorInv, TypeOK, Idle, Running, vars, managed, threads, nativeSt,
      history, Focus, Closing, Met, Ending,
      Exclusive, Handles, Membership, Within
<1>q. QED
  BY <1>1, <1>2, <1>3, <1>4, <1>5, <1>6, <1>7, <1>8, <1>9, <1>10, <1>11, <1>12,
     <1>13, <1>14, <1>15, <1>16, <1>17 DEF Next, Transaction, Cursor, DisposeAgain, Undefined

\* No step uses or frees a native object that is freed.
LEMMA FaultStep == CursorInv /\ [Next]_vars => NoUseAfterFree'
<1> SUFFICES ASSUME CursorInv, [Next]_vars PROVE NoUseAfterFree'
  OBVIOUS
<1> USE CursorAssumption DEF CursorInv, TypeOK, Idle, Running, vars, managed, threads, nativeSt,
      history, Focus, Closing, Met, Ending,
      Handles, NoUseAfterFree
<1>1. ASSUME NEW th \in Threads, NEW x \in Txns, Begin(th, x) PROVE NoUseAfterFree'
  BY <1>1 DEF Begin
<1>2. ASSUME NEW th \in Threads, NEW x \in Txns, Reset(th, x) PROVE NoUseAfterFree'
  BY <1>2 DEF Reset, MayUse
<1>3. ASSUME NEW th \in Threads, NEW x \in Txns, Renew(th, x) PROVE NoUseAfterFree'
  BY <1>3 DEF Renew, MayUse
<1>4. ASSUME NEW th \in Threads, NEW x \in Txns, End(th, x) PROVE NoUseAfterFree'
  BY <1>4 DEF End, Meeting, Enter, Goto
<1>5. ASSUME NEW th \in Threads, EndNative(th) PROVE NoUseAfterFree'
  BY <1>5 DEF EndNative, Goto
<1>6. ASSUME NEW th \in Threads, ReleaseManagedResources(th) PROVE NoUseAfterFree'
  BY <1>6 DEF ReleaseManagedResources, Release, Leave, Enter, Goto
<1>7. ASSUME NEW th \in Threads, NEW x \in Txns, OpenCursor(th, x) PROVE NoUseAfterFree'
  BY <1>7 DEF OpenCursor, MayMeetEnd, Enter, Goto
<1>8. ASSUME NEW th \in Threads, NEW c \in Cursors, OpenNative(th, c) PROVE NoUseAfterFree'
  BY <1>8 DEF OpenNative, Enter, Goto
<1>9. ASSUME NEW th \in Threads, OpenFails(th) PROVE NoUseAfterFree'
  BY <1>9 DEF OpenFails, Leave, Enter, Goto
<1>10. ASSUME NEW th \in Threads, AddCursor(th) PROVE NoUseAfterFree'
  BY <1>10 DEF AddCursor, Leave, Enter, Goto
<1>11. ASSUME NEW th \in Threads, NEW c \in Cursors, Dispose(th, c) PROVE NoUseAfterFree'
  BY <1>11 DEF Dispose, Has, MayClose, MayMeetEnd, CloseMeets, Meeting, Enter, Goto
<1>12. ASSUME NEW th \in Threads, CloseNative(th) PROVE NoUseAfterFree'
  BY <1>12 DEF CloseNative, Goto
<1>13. ASSUME NEW th \in Threads, CursorDisposed(th) PROVE NoUseAfterFree'
  BY <1>13 DEF CursorDisposed, Leave, Enter, Goto
<1>14. ASSUME NEW th \in Threads, NEW c \in Cursors, NEW x \in Txns, RenewCursor(th, c, x) PROVE NoUseAfterFree'
  BY <1>14 DEF RenewCursor, Has, MayUse
<1>15. ASSUME NEW th \in Threads, NEW c \in Cursors, Use(th, c) PROVE NoUseAfterFree'
  BY <1>15 DEF Use, Has, MayMeetEnd, Meeting, Enter, Goto
<1>16. ASSUME NEW th \in Threads, UseNative(th) PROVE NoUseAfterFree'
  BY <1>16 DEF UseNative, Leave, Enter, Goto
<1>17. CASE UNCHANGED vars
  BY <1>17
<1> HIDE DEF CursorInv, TypeOK, Idle, Running, vars, managed, threads, nativeSt,
      history, Focus, Closing, Met, Ending,
      Handles, NoUseAfterFree
<1>q. QED
  BY <1>1, <1>2, <1>3, <1>4, <1>5, <1>6, <1>7, <1>8, <1>9, <1>10, <1>11, <1>12,
     <1>13, <1>14, <1>15, <1>16, <1>17 DEF Next, Transaction, Cursor, DisposeAgain, Undefined

\* Every step that frees a write transaction's cursors is followed by the one that clears their
\* handles, before the transaction's call returns.
LEMMA ClearedStep == CursorInv /\ [Next]_vars => WriteCursorsCleared'
<1> SUFFICES ASSUME CursorInv, [Next]_vars PROVE WriteCursorsCleared'
  OBVIOUS
<1> USE CursorAssumption DEF CursorInv, TypeOK, Idle, Running, vars, managed, threads, nativeSt,
      history, Focus, Closing, Met, Ending,
      Exclusive, Handles, Membership, Within, WriteCursorsCleared
<1>1. ASSUME NEW th \in Threads, NEW x \in Txns, Begin(th, x) PROVE WriteCursorsCleared'
  BY <1>1 DEF Begin
<1>2. ASSUME NEW th \in Threads, NEW x \in Txns, Reset(th, x) PROVE WriteCursorsCleared'
  BY <1>2 DEF Reset, MayUse
<1>3. ASSUME NEW th \in Threads, NEW x \in Txns, Renew(th, x) PROVE WriteCursorsCleared'
  BY <1>3 DEF Renew, MayUse
<1>4. ASSUME NEW th \in Threads, NEW x \in Txns, End(th, x) PROVE WriteCursorsCleared'
  BY <1>4 DEF End, Meeting, Enter, Goto
<1>5. ASSUME NEW th \in Threads, EndNative(th) PROVE WriteCursorsCleared'
  BY <1>5 DEF EndNative, Goto
<1>6. ASSUME NEW th \in Threads, ReleaseManagedResources(th) PROVE WriteCursorsCleared'
  BY <1>6 DEF ReleaseManagedResources, Release, Leave, Enter, Goto
<1>7. ASSUME NEW th \in Threads, NEW x \in Txns, OpenCursor(th, x) PROVE WriteCursorsCleared'
  BY <1>7 DEF OpenCursor, MayMeetEnd, Enter, Goto
<1>8. ASSUME NEW th \in Threads, NEW c \in Cursors, OpenNative(th, c) PROVE WriteCursorsCleared'
  BY <1>8 DEF OpenNative, Enter, Goto
<1>9. ASSUME NEW th \in Threads, OpenFails(th) PROVE WriteCursorsCleared'
  BY <1>9 DEF OpenFails, Leave, Enter, Goto
<1>10. ASSUME NEW th \in Threads, AddCursor(th) PROVE WriteCursorsCleared'
  BY <1>10 DEF AddCursor, Leave, Enter, Goto
<1>11. ASSUME NEW th \in Threads, NEW c \in Cursors, Dispose(th, c) PROVE WriteCursorsCleared'
  BY <1>11 DEF Dispose, Has, MayClose, MayMeetEnd, CloseMeets, Meeting, Enter, Goto
<1>12. ASSUME NEW th \in Threads, CloseNative(th) PROVE WriteCursorsCleared'
  BY <1>12 DEF CloseNative, Goto
<1>13. ASSUME NEW th \in Threads, CursorDisposed(th) PROVE WriteCursorsCleared'
  BY <1>13 DEF CursorDisposed, Leave, Enter, Goto
<1>14. ASSUME NEW th \in Threads, NEW c \in Cursors, NEW x \in Txns, RenewCursor(th, c, x) PROVE WriteCursorsCleared'
  BY <1>14 DEF RenewCursor, Has, MayUse
<1>15. ASSUME NEW th \in Threads, NEW c \in Cursors, Use(th, c) PROVE WriteCursorsCleared'
  BY <1>15 DEF Use, Has, MayMeetEnd, Meeting, Enter, Goto
<1>16. ASSUME NEW th \in Threads, UseNative(th) PROVE WriteCursorsCleared'
  BY <1>16 DEF UseNative, Leave, Enter, Goto
<1>17. CASE UNCHANGED vars
  BY <1>17
<1> HIDE DEF CursorInv, TypeOK, Idle, Running, vars, managed, threads, nativeSt,
      history, Focus, Closing, Met, Ending,
      Exclusive, Handles, Membership, Within, WriteCursorsCleared
<1>q. QED
  BY <1>1, <1>2, <1>3, <1>4, <1>5, <1>6, <1>7, <1>8, <1>9, <1>10, <1>11, <1>12,
     <1>13, <1>14, <1>15, <1>16, <1>17 DEF Next, Transaction, Cursor, DisposeAgain, Undefined

\* No step drops the handle of an open native cursor, except to close it.
LEMMA ReachableStep == CursorInv /\ [Next]_vars => NativeReachable'
<1> SUFFICES ASSUME CursorInv, [Next]_vars PROVE NativeReachable'
  OBVIOUS
<1> USE CursorAssumption DEF CursorInv, TypeOK, Idle, Running, vars, managed, threads, nativeSt,
      history, Focus, Closing, Met, Ending,
      Exclusive, Handles, Membership, Within, NativeReachable, WriteCursorsCleared,
      TrackedNotClosed
<1>1. ASSUME NEW th \in Threads, NEW x \in Txns, Begin(th, x) PROVE NativeReachable'
  BY <1>1 DEF Begin
<1>2. ASSUME NEW th \in Threads, NEW x \in Txns, Reset(th, x) PROVE NativeReachable'
  BY <1>2 DEF Reset, MayUse
<1>3. ASSUME NEW th \in Threads, NEW x \in Txns, Renew(th, x) PROVE NativeReachable'
  BY <1>3 DEF Renew, MayUse
<1>4. ASSUME NEW th \in Threads, NEW x \in Txns, End(th, x) PROVE NativeReachable'
  BY <1>4 DEF End, Meeting, Enter, Goto
<1>5. ASSUME NEW th \in Threads, EndNative(th) PROVE NativeReachable'
  BY <1>5 DEF EndNative, Goto
<1>6. ASSUME NEW th \in Threads, ReleaseManagedResources(th) PROVE NativeReachable'
  BY <1>6 DEF ReleaseManagedResources, Release, Leave, Enter, Goto
<1>7. ASSUME NEW th \in Threads, NEW x \in Txns, OpenCursor(th, x) PROVE NativeReachable'
  BY <1>7 DEF OpenCursor, MayMeetEnd, Enter, Goto
<1>8. ASSUME NEW th \in Threads, NEW c \in Cursors, OpenNative(th, c) PROVE NativeReachable'
  BY <1>8 DEF OpenNative, Enter, Goto
<1>9. ASSUME NEW th \in Threads, OpenFails(th) PROVE NativeReachable'
  BY <1>9 DEF OpenFails, Leave, Enter, Goto
<1>10. ASSUME NEW th \in Threads, AddCursor(th) PROVE NativeReachable'
  BY <1>10 DEF AddCursor, Leave, Enter, Goto
<1>11. ASSUME NEW th \in Threads, NEW c \in Cursors, Dispose(th, c) PROVE NativeReachable'
  BY <1>11 DEF Dispose, Has, MayClose, MayMeetEnd, CloseMeets, Meeting, Enter, Goto
<1>12. ASSUME NEW th \in Threads, CloseNative(th) PROVE NativeReachable'
  BY <1>12 DEF CloseNative, Goto
<1>13. ASSUME NEW th \in Threads, CursorDisposed(th) PROVE NativeReachable'
  BY <1>13 DEF CursorDisposed, Leave, Enter, Goto
<1>14. ASSUME NEW th \in Threads, NEW c \in Cursors, NEW x \in Txns, RenewCursor(th, c, x) PROVE NativeReachable'
  BY <1>14 DEF RenewCursor, Has, MayUse
<1>15. ASSUME NEW th \in Threads, NEW c \in Cursors, Use(th, c) PROVE NativeReachable'
  BY <1>15 DEF Use, Has, MayMeetEnd, Meeting, Enter, Goto
<1>16. ASSUME NEW th \in Threads, UseNative(th) PROVE NativeReachable'
  BY <1>16 DEF UseNative, Leave, Enter, Goto
<1>17. CASE UNCHANGED vars
  BY <1>17
<1> HIDE DEF CursorInv, TypeOK, Idle, Running, vars, managed, threads, nativeSt,
      history, Focus, Closing, Met, Ending,
      Exclusive, Handles, Membership, Within, NativeReachable, WriteCursorsCleared,
      TrackedNotClosed
<1>q. QED
  BY <1>1, <1>2, <1>3, <1>4, <1>5, <1>6, <1>7, <1>8, <1>9, <1>10, <1>11, <1>12,
     <1>13, <1>14, <1>15, <1>16, <1>17 DEF Next, Transaction, Cursor, DisposeAgain, Undefined

\* No step leaves a closed cursor in a transaction's set.
LEMMA TrackedStep == CursorInv /\ [Next]_vars => TrackedNotClosed'
<1> SUFFICES ASSUME CursorInv, [Next]_vars PROVE TrackedNotClosed'
  OBVIOUS
<1> USE CursorAssumption DEF CursorInv, TypeOK, Idle, Running, vars, managed, threads, nativeSt,
      history, Focus, Closing, Met, Ending,
      Exclusive, Handles, Membership, Within, TrackedNotClosed
<1>1. ASSUME NEW th \in Threads, NEW x \in Txns, Begin(th, x) PROVE TrackedNotClosed'
  BY <1>1 DEF Begin
<1>2. ASSUME NEW th \in Threads, NEW x \in Txns, Reset(th, x) PROVE TrackedNotClosed'
  BY <1>2 DEF Reset, MayUse
<1>3. ASSUME NEW th \in Threads, NEW x \in Txns, Renew(th, x) PROVE TrackedNotClosed'
  BY <1>3 DEF Renew, MayUse
<1>4. ASSUME NEW th \in Threads, NEW x \in Txns, End(th, x) PROVE TrackedNotClosed'
  BY <1>4 DEF End, Meeting, Enter, Goto
<1>5. ASSUME NEW th \in Threads, EndNative(th) PROVE TrackedNotClosed'
  BY <1>5 DEF EndNative, Goto
<1>6. ASSUME NEW th \in Threads, ReleaseManagedResources(th) PROVE TrackedNotClosed'
  BY <1>6 DEF ReleaseManagedResources, Release, Leave, Enter, Goto
<1>7. ASSUME NEW th \in Threads, NEW x \in Txns, OpenCursor(th, x) PROVE TrackedNotClosed'
  BY <1>7 DEF OpenCursor, MayMeetEnd, Enter, Goto
<1>8. ASSUME NEW th \in Threads, NEW c \in Cursors, OpenNative(th, c) PROVE TrackedNotClosed'
  BY <1>8 DEF OpenNative, Enter, Goto
<1>9. ASSUME NEW th \in Threads, OpenFails(th) PROVE TrackedNotClosed'
  BY <1>9 DEF OpenFails, Leave, Enter, Goto
<1>10. ASSUME NEW th \in Threads, AddCursor(th) PROVE TrackedNotClosed'
  BY <1>10 DEF AddCursor, Leave, Enter, Goto
<1>11. ASSUME NEW th \in Threads, NEW c \in Cursors, Dispose(th, c) PROVE TrackedNotClosed'
  BY <1>11 DEF Dispose, Has, MayClose, MayMeetEnd, CloseMeets, Meeting, Enter, Goto
<1>12. ASSUME NEW th \in Threads, CloseNative(th) PROVE TrackedNotClosed'
  BY <1>12 DEF CloseNative, Goto
<1>13. ASSUME NEW th \in Threads, CursorDisposed(th) PROVE TrackedNotClosed'
  BY <1>13 DEF CursorDisposed, Leave, Enter, Goto
<1>14. ASSUME NEW th \in Threads, NEW c \in Cursors, NEW x \in Txns, RenewCursor(th, c, x) PROVE TrackedNotClosed'
  BY <1>14 DEF RenewCursor, Has, MayUse
<1>15. ASSUME NEW th \in Threads, NEW c \in Cursors, Use(th, c) PROVE TrackedNotClosed'
  BY <1>15 DEF Use, Has, MayMeetEnd, Meeting, Enter, Goto
<1>16. ASSUME NEW th \in Threads, UseNative(th) PROVE TrackedNotClosed'
  BY <1>16 DEF UseNative, Leave, Enter, Goto
<1>17. CASE UNCHANGED vars
  BY <1>17
<1> HIDE DEF CursorInv, TypeOK, Idle, Running, vars, managed, threads, nativeSt,
      history, Focus, Closing, Met, Ending,
      Exclusive, Handles, Membership, Within, TrackedNotClosed
<1>q. QED
  BY <1>1, <1>2, <1>3, <1>4, <1>5, <1>6, <1>7, <1>8, <1>9, <1>10, <1>11, <1>12,
     <1>13, <1>14, <1>15, <1>16, <1>17 DEF Next, Transaction, Cursor, DisposeAgain, Undefined

-----------------------------------------------------------------------------
\* A new set of objects satisfies the invariant.
LEMMA InitInv == Init => CursorInv
<1> SUFFICES ASSUME Init PROVE CursorInv
  OBVIOUS
<1> USE CursorAssumption DEF Init
<1>1. TypeOK
  BY DEF TypeOK
<1>2. Focus /\ Exclusive
  BY DEF Focus, Exclusive, Closing, Ending
<1>3. Handles /\ Membership
  BY DEF Handles, Membership, Within
<1>4. NoUseAfterFree /\ WriteCursorsCleared /\ NativeReachable /\ TrackedNotClosed
  BY DEF NoUseAfterFree, WriteCursorsCleared, NativeReachable, TrackedNotClosed
<1>q. QED
  BY <1>1, <1>2, <1>3, <1>4 DEF CursorInv

\* The invariant holds in every reachable state.
LEMMA Invariance == Spec => []CursorInv
<1>1. CursorInv /\ [Next]_vars => CursorInv'
  BY TypeStep, FocusStep, ExclusiveStep, HandlesStep, MembershipStep, FaultStep, ClearedStep,
     ReachableStep, TrackedStep DEF CursorInv
<1>q. QED
  BY InitInv, <1>1, PTL DEF Spec

\* The fields of transactions and cursors hold what their types allow at all times, and a thread
\* that is about to notify a transaction has one to notify.
THEOREM CursorTypeCorrect == Spec => []TypeOK
<1>1. CursorInv => TypeOK
  BY DEF CursorInv
<1>q. QED
  BY Invariance, <1>1, PTL

\* Cursor.Dispose, Transaction.Commit, Abort and Dispose and the uses of a cursor, in any order the
\* documentation allows, hand LMDB no cursor and no transaction it has freed, until the end of a
\* transaction overlaps another call on it.
THEOREM NoFreedCursorUsed == Spec => []NoUseAfterFree
<1>1. CursorInv => NoUseAfterFree
  BY DEF CursorInv
<1>q. QED
  BY Invariance, <1>1, PTL

\* ReleaseManagedResources clears the handle of every cursor of a write transaction that ended, also
\* when the environment ends it in the middle of a call, but for those AddCursor gets too late.
THEOREM NoHandleOutlivesWriter == Spec => []WriteCursorsCleared
<1>1. CursorInv => WriteCursorsCleared
  BY DEF CursorInv
<1>q. QED
  BY Invariance, <1>1, PTL

\* Whatever Dispose and the end of transactions do, an open native cursor can still be closed.
THEOREM NoCursorLost == Spec => []NativeReachable
<1>1. CursorInv => NativeReachable
  BY DEF CursorInv
<1>q. QED
  BY Invariance, <1>1, PTL

\* CursorDisposed takes every closed cursor out of the set of the transaction that opened it.
THEOREM NoClosedCursorTracked == Spec => []TrackedNotClosed
<1>1. CursorInv => TrackedNotClosed
  BY DEF CursorInv
<1>q. QED
  BY Invariance, <1>1, PTL

-----------------------------------------------------------------------------
(* CursorLifecycle implements CursorContract. *)

Phase == [c \in Cursors |-> PhaseOf(c)]
Ended == {x \in Txns : nativeTxn[x] = "freed"}

\* Steps that touch neither a handle nor a native object, and give LMDB nothing that was freed.
Silent == UNCHANGED <<cur, nativeCur, boundTo, fault>> /\ Ended' = Ended /\ overlap \subseteq overlap'

\* A step the contract promises, with no fault, is a step of the contract.
LEMMA PromisedNext == Contract!Promised /\ overlap \subseteq overlap' /\ UNCHANGED fault => Contract!Next
  BY DEF Contract!Next

\* The contract does not see a silent step, but for what it records in met.
LEMMA SilentNext == Silent => Contract!Next
<1> SUFFICES ASSUME Silent PROVE Contract!Next
  OBVIOUS
<1>1. Phase' = Phase
  BY DEF Phase, PhaseOf, Silent
<1>2. UNCHANGED <<Phase, boundTo, Ended>>
  BY <1>1 DEF Silent
<1>3. Contract!Promised
  BY <1>2 DEF Contract!Promised, Phase, Ended
<1>q. QED
  BY <1>3, PromisedNext DEF Silent

\* A step that gives LMDB what it has freed, after the end of a transaction met another call.
LEMMA BreakNext ==
  ASSUME UNCHANGED <<cur, nativeCur, boundTo, nativeTxn, overlap>>, fault', NoUseAfterFree'
  PROVE  Contract!Next
<1>1. Phase' = Phase /\ Ended' = Ended
  BY DEF Phase, PhaseOf, Ended
<1>2. overlap # {}
  BY DEF NoUseAfterFree
<1>3. Contract!Break
  BY <1>1, <1>2 DEF Contract!Break, Phase, Ended
<1>q. QED
  BY <1>3 DEF Contract!Next

\* Begin, Reset and Renew of a transaction, the first and last steps of OpenCursor and of the uses
\* of a cursor, and the callback of a cursor are silent, or break with a fault.
LEMMA SilentSteps ==
  ASSUME CursorInv, CursorInv', NEW th \in Threads,
         \/ \E x \in Txns : Begin(th, x) \/ Reset(th, x) \/ Renew(th, x) \/ End(th, x)
                            \/ OpenCursor(th, x)
         \/ \E c \in Cursors : Use(th, c)
         \/ AddCursor(th) \/ CursorDisposed(th) \/ OpenFails(th) \/ UseNative(th)
  PROVE  Contract!Next
<1> USE DEF vars, managed, threads, nativeSt, history, Silent, Ended, CursorInv, TypeOK
<1>1. ASSUME NEW x \in Txns, Begin(th, x) PROVE Silent
  BY <1>1 DEF Begin, Idle, Handles
<1>2. ASSUME NEW x \in Txns, Reset(th, x) \/ Renew(th, x) PROVE Silent
  BY <1>2 DEF Reset, Renew, Idle, Handles
<1>3. ASSUME NEW x \in Txns, End(th, x) \/ OpenCursor(th, x) PROVE Silent
  BY <1>3 DEF End, OpenCursor, Meeting
<1>4. ASSUME NEW c \in Cursors, Use(th, c) PROVE Silent
  BY <1>4 DEF Use, Meeting
<1>5. ASSUME AddCursor(th) \/ CursorDisposed(th) PROVE Silent
  BY <1>5 DEF AddCursor, CursorDisposed
<1>6. ASSUME OpenFails(th) \/ UseNative(th) PROVE Contract!Next
  <2>1. UNCHANGED <<cur, nativeCur, boundTo, nativeTxn, overlap>> /\ ~fault /\ fault' \in BOOLEAN
    BY <1>6 DEF OpenFails, UseNative, Running
  <2>2. CASE fault'
    BY <2>1, <2>2, BreakNext
  <2>3. CASE ~fault'
    <3>1. Silent
      BY <2>1, <2>3
    <3>2. QED
      BY <3>1, SilentNext
  <2>4. QED
    BY <2>2, <2>3
<1> HIDE DEF Silent
<1>q. QED
  BY <1>1, <1>2, <1>3, <1>4, <1>5, <1>6, SilentNext

\* mdb_cursor_open opens a cursor that was none, on a transaction that has not ended.
LEMMA OpenNativeOpens ==
  ASSUME CursorInv, NEW th \in Threads, NEW c \in Cursors, OpenNative(th, c)
  PROVE  Contract!Next
<1> USE DEF CursorInv, TypeOK
<1>1. curTxn[th] \in Txns /\ nativeTxn[curTxn[th]] = "live" /\ cur[c] = "unborn"
  BY DEF OpenNative, Running
<1>2. /\ cur' = [cur EXCEPT ![c] = "open"] /\ nativeCur' = [nativeCur EXCEPT ![c] = "open"]
      /\ boundTo' = [boundTo EXCEPT ![c] = curTxn[th]]
      /\ UNCHANGED <<nativeTxn, fault, overlap>>
  BY DEF OpenNative, history
<1>3. PhaseOf(c) = "none" /\ Phase' = [Phase EXCEPT ![c] = "open"]
  BY <1>1, <1>2 DEF Phase, PhaseOf
<1>4. Contract!Open(c, curTxn[th])
  BY <1>1, <1>2, <1>3 DEF Contract!Open, Contract!Move, Phase
<1>q. QED
  BY <1>1, <1>2, <1>4, PromisedNext DEF Contract!Promised

\* The exchange in Cursor.Dispose claims a cursor; one that LMDB has freed had met the end of its
\* transaction.
LEMMA DisposeClaims ==
  ASSUME CursorInv, CursorInv', NEW th \in Threads, NEW c \in Cursors, Dispose(th, c)
  PROVE  Contract!Next
<1> USE DEF CursorInv, TypeOK
<1>1. /\ cur[c] = "open" /\ cur' = [cur EXCEPT ![c] = "zero"]
      /\ UNCHANGED <<nativeCur, nativeTxn, boundTo, fault>> /\ overlap \subseteq overlap'
  BY DEF Dispose, Has, CloseMeets, Meeting, nativeSt
<1>2. Phase' = [Phase EXCEPT ![c] = IF nativeCur[c] = "open" THEN "claimed" ELSE "closed"]
  BY <1>1 DEF Phase, PhaseOf
<1>3. Phase[c] = IF nativeCur[c] = "open" THEN "open" ELSE "dangling"
  BY <1>1 DEF Phase, PhaseOf
<1>4. ASSUME nativeCur[c] # "open" PROVE boundTo[c] \in overlap'
  <2>1. ~isReadOnly[c] /\ nativeTxn[boundTo[c]] = "freed" /\ boundTo[c] \in Txns
    BY <1>1, <1>4 DEF Handles
  <2>2. Meeting(th, boundTo[c]) /\ pc[th] = "idle"
    BY <2>1 DEF Dispose, CloseMeets, Idle
  <2>3. CASE boundTo[c] \in overlap
    BY <1>1, <2>3
  <2>4. CASE boundTo[c] \notin overlap
    <3>1. PICK t \in Threads : pc[t] = "release" /\ curTxn[t] = boundTo[c]
      BY <1>1, <2>1, <2>4 DEF WriteCursorsCleared
    <3>2. t # th
      BY <2>2, <3>1
    <3>3. QED
      BY <2>2, <3>1, <3>2 DEF Meeting
  <2>5. QED
    BY <2>3, <2>4
<1>5. CASE nativeCur[c] = "open"
  <2>1. Contract!Claim(c)
    BY <1>1, <1>2, <1>3, <1>5 DEF Contract!Claim, Contract!Move, Phase, Ended
  <2>2. QED
    BY <1>1, <2>1, PromisedNext DEF Contract!Promised
<1>6. CASE nativeCur[c] # "open"
  <2>1. Phase[c] = "dangling" /\ Phase' = [Phase EXCEPT ![c] = "closed"]
    BY <1>2, <1>3, <1>6
  <2>2. UNCHANGED <<boundTo, Ended>>
    BY <1>1 DEF Ended
  <2>3. boundTo[c] \in overlap'
    BY <1>4, <1>6
  <2>4. Contract!Claim(c)
    BY <2>1, <2>2, <2>3 DEF Contract!Claim, Contract!Move, Phase, Ended
  <2>5. QED
    BY <1>1, <2>4, PromisedNext DEF Contract!Promised
<1>q. QED
  BY <1>5, <1>6

\* mdb_cursor_close closes a cursor its thread has claimed; one that was freed is a fault.
LEMMA CloseNativeCloses ==
  ASSUME CursorInv, CursorInv', NEW th \in Threads, CloseNative(th)
  PROVE  Contract!Next
<1> USE DEF CursorInv, TypeOK
<1>0. PICK c \in Cursors : c = curCursor[th]
  BY DEF CloseNative, Running
<1>1. /\ cur[c] = "zero" /\ ~fault /\ fault' = (nativeCur[c] = "freed")
      /\ nativeCur' = [nativeCur EXCEPT ![c] = "freed"]
      /\ UNCHANGED <<cur, nativeTxn, boundTo, overlap>>
  BY <1>0 DEF CloseNative, Running, Focus, Closing, managed, history
<1>2. CASE nativeCur[c] = "freed"
  <2>1. nativeCur' = nativeCur
    BY <1>1, <1>2
  <2>2. QED
    BY <1>1, <1>2, <2>1, BreakNext
<1>3. CASE nativeCur[c] # "freed"
  <2>1. nativeCur[c] = "open"
    BY <1>0, <1>1, <1>3 DEF CloseNative, Running, Focus, Closing, Met, Handles
  <2>2. Phase[c] = "claimed" /\ Phase' = [Phase EXCEPT ![c] = "closed"]
    <3>0. /\ cur' = cur /\ cur[c] = "zero" /\ nativeCur'[c] = "freed"
          /\ \A d \in Cursors : cur[d] \in {"unborn", "open", "zero"}
          /\ \A d \in Cursors : d # c => nativeCur'[d] = nativeCur[d]
      BY <1>1
    <3> HIDE DEF CursorInv, TypeOK
    <3>1. ASSUME NEW d \in Cursors PROVE PhaseOf(d)' = IF d = c THEN "closed" ELSE PhaseOf(d)
      BY <3>0 DEF PhaseOf
    <3>2. PhaseOf(c) = "claimed"
      BY <1>1, <2>1 DEF PhaseOf
    <3>3. QED
      BY <3>1, <3>2 DEF Phase
  <2>3. Contract!Close(c)
    BY <1>1, <2>2 DEF Contract!Close, Contract!Move, Phase, Ended
  <2>4. QED
    BY <1>1, <1>3, <2>3, PromisedNext DEF Contract!Promised
<1>q. QED
  BY <1>2, <1>3

\* mdb_txn_commit and mdb_txn_abort end a transaction; a cursor being closed while they free it
\* had met them.
LEMMA EndNativeFinishes ==
  ASSUME CursorInv, NEW th \in Threads, EndNative(th)
  PROVE  Contract!Next
<1> USE DEF CursorInv, TypeOK
<1>0. PICK x \in Txns : x = curTxn[th]
  BY DEF EndNative, Running
<1>1. /\ nativeTxn[x] # "freed" /\ pc[th] = "end"
      /\ nativeTxn' = [nativeTxn EXCEPT ![x] = "freed"]
      /\ nativeCur' = [c \in Cursors |-> IF boundTo[c] = x /\ x \notin ReadOnly
                                         THEN "freed" ELSE nativeCur[c]]
      /\ UNCHANGED <<cur, boundTo, fault, overlap>>
  BY <1>0 DEF EndNative, Running, Focus, managed, history
<1>2. x \notin Ended /\ Ended' = Ended \cup {x}
  BY <1>1 DEF Ended
<1>3. CASE x \in ReadOnly
  <2>1. nativeCur' = nativeCur
    BY <1>1, <1>3
  <2>2. Phase' = Phase
    BY <1>1, <2>1 DEF Phase, PhaseOf
  <2>3. Contract!Finish(x)
    BY <1>1, <1>2, <1>3, <2>2 DEF Contract!Finish, Phase, Ended
  <2>4. QED
    BY <1>1, <2>3, PromisedNext DEF Contract!Promised
<1>4. CASE x \notin ReadOnly
  <2>1. ASSUME NEW c \in Cursors, boundTo[c] = x, Phase[c] = "claimed" PROVE x \in overlap
    <3>1. cur[c] = "zero" /\ nativeCur[c] = "open"
      BY <2>1 DEF Phase, PhaseOf
    <3>2. PICK t \in Threads : pc[t] = "close" /\ curCursor[t] = c
      BY <3>1 DEF NativeReachable, Within
    <3>3. ~isReadOnly[c]
      BY <1>4, <2>1, <3>1 DEF Handles
    <3>4. curTxn[t] = x /\ t # th
      BY <1>0, <1>1, <2>1, <3>2, <3>3 DEF Focus, Closing
    <3>5. QED
      BY <1>0, <1>1, <3>2, <3>4 DEF Exclusive, Met
  <2>2. ASSUME NEW c \in Cursors
        PROVE  PhaseOf(c)' = CASE boundTo[c] = x /\ PhaseOf(c) = "open"    -> "dangling"
                               [] boundTo[c] = x /\ PhaseOf(c) = "claimed" -> "closed"
                               [] OTHER                                    -> PhaseOf(c)
    <3>1. boundTo[c] = x => cur[c] # "unborn"
      BY <1>1, CursorAssumption DEF Handles
    <3>2. cur[c]' = cur[c] /\ nativeCur[c]' = IF boundTo[c] = x THEN "freed" ELSE nativeCur[c]
      BY <1>1, <1>4
    <3>3. cur[c] \in {"unborn", "open", "zero"}
      OBVIOUS
    <3>4. QED
      BY <3>1, <3>2, <3>3 DEF PhaseOf
  <2>3. Contract!Finish(x)
    BY <1>1, <1>2, <1>4, <2>1, <2>2 DEF Contract!Finish, Phase, Ended
  <2>4. QED
    BY <1>1, <2>3, PromisedNext DEF Contract!Promised
<1>q. QED
  BY <1>3, <1>4

\* ReleaseManagedResources clears the Cursors of a transaction that has ended, without a meeting all.
LEMMA ReleaseClears ==
  ASSUME CursorInv, NEW th \in Threads, ReleaseManagedResources(th)
  PROVE  Contract!Next
<1> USE DEF CursorInv, TypeOK
<1>0. PICK x \in Txns : x = curTxn[th]
  BY DEF ReleaseManagedResources, Release, Running
<1> DEFINE cleared == {c \in cursors[x] : ~isReadOnly[c]}
           missed == {c \in Cursors : cur[c] = "open" /\ nativeCur[c] # "open" /\ boundTo[c] = x} \ cleared
<1>1. /\ nativeTxn[x] = "freed" /\ txn[x] = "zero" /\ pc[th] = "release"
      /\ cur' = [c \in Cursors |-> IF c \in cleared THEN "zero" ELSE cur[c]]
      /\ UNCHANGED <<nativeTxn, nativeCur, boundTo, fault, overlap>>
  BY <1>0 DEF ReleaseManagedResources, Release, Running, Focus, nativeSt, history
<1>2. ASSUME NEW c \in missed PROVE x \in overlap
  <2>1. ~isReadOnly[c]
    BY <1>2 DEF Handles
  <2>2. PICK t \in Threads : pc[t] = "add" /\ curCursor[t] = c
    BY <1>1, <1>2, <2>1 DEF Membership, Within
  <2>3. curTxn[t] = x
    BY <1>2, <2>2 DEF Focus
  <2>4. QED
    BY <1>1, <2>2, <2>3 DEF Focus, Met
<1>3. ASSUME NEW c \in cleared
      PROVE  c \in Cursors /\ boundTo[c] = x /\ cur[c] # "unborn" /\ nativeCur[c] # "open"
  <2>1. c \in Cursors /\ c \in cursors[x] /\ ~isReadOnly[c] /\ disposed[c] = x
    BY <1>1, <1>3 DEF Membership
  <2>2. boundTo[c] = x
    BY <1>1, <2>1 DEF Membership
  <2>3. QED
    BY <1>1, <2>1, <2>2, CursorAssumption DEF Handles
<1>4. ASSUME NEW c \in Cursors
      PROVE  PhaseOf(c)' = IF PhaseOf(c) = "dangling" /\ boundTo[c] = x /\ c \notin missed
                           THEN "closed" ELSE PhaseOf(c)
  <2>1. cur[c] \in {"unborn", "open", "zero"} /\ nativeCur[c]' = nativeCur[c]
    BY <1>1
  <2>2. CASE c \in cleared
    <3>1. cur[c]' = "zero" /\ boundTo[c] = x /\ cur[c] # "unborn" /\ nativeCur[c] # "open"
      BY <1>1, <1>3, <2>2
    <3>2. PhaseOf(c)' = "closed" /\ PhaseOf(c) \in {"dangling", "closed"}
      BY <2>1, <3>1 DEF PhaseOf
    <3>3. QED
      BY <2>2, <3>1, <3>2
  <2>3. CASE c \notin cleared
    <3>1. cur[c]' = cur[c]
      BY <1>1, <2>3
    <3>2. PhaseOf(c)' = PhaseOf(c)
      BY <2>1, <3>1 DEF PhaseOf
    <3>3. PhaseOf(c) = "dangling" /\ boundTo[c] = x => c \in missed
      BY <2>1, <2>3 DEF PhaseOf
    <3>4. QED
      BY <3>2, <3>3
  <2>4. QED
    BY <2>2, <2>3
<1>5. Contract!Clear(x, missed)
  <2> HIDE DEF missed
  <2>1. Phase' = [c \in Cursors |-> IF Phase[c] = "dangling" /\ boundTo[c] = x /\ c \notin missed
                                    THEN "closed" ELSE Phase[c]]
    BY <1>4 DEF Phase
  <2>2. x \in Ended /\ Ended' = Ended /\ (missed # {} => x \in overlap)
    BY <1>1, <1>2 DEF Ended
  <2>3. QED
    BY <1>1, <2>1, <2>2 DEF Contract!Clear, Phase, Ended
<1>6. missed \in SUBSET Cursors
  OBVIOUS
<1>q. QED
  BY <1>1, <1>5, <1>6, PromisedNext DEF Contract!Promised

\* Cursor.Renew moves an open cursor between read-only transactions.
LEMMA RenewRebinds ==
  ASSUME CursorInv, NEW th \in Threads, NEW c \in Cursors, NEW x \in Txns, RenewCursor(th, c, x)
  PROVE  Contract!Next
<1> USE DEF CursorInv, TypeOK
<1>1. /\ cur[c] = "open" /\ isReadOnly[c] /\ x \in ReadOnly /\ nativeTxn[x] = "live"
      /\ boundTo' = [boundTo EXCEPT ![c] = x]
      /\ UNCHANGED <<cur, nativeCur, nativeTxn, fault, overlap>>
  BY DEF RenewCursor, Has, managed, history
<1>2. nativeCur[c] = "open" /\ boundTo[c] \in ReadOnly
  BY <1>1 DEF Handles
<1>3. Phase[c] = "open" /\ Phase' = Phase
  BY <1>1, <1>2 DEF Phase, PhaseOf
<1>4. Contract!Rebind(c, x)
  BY <1>1, <1>2, <1>3 DEF Contract!Rebind, Phase, Ended
<1>q. QED
  BY <1>1, <1>4, PromisedNext DEF Contract!Promised

\* Every step is a step of the contract or leaves everything it speaks of alone.
LEMMA ContractNext == CursorInv /\ CursorInv' /\ [Next]_vars => [Contract!Next]_(Contract!vars)
<1> SUFFICES ASSUME CursorInv, CursorInv', [Next]_vars
             PROVE  Contract!Next \/ UNCHANGED Contract!vars
  OBVIOUS
<1>1. CASE UNCHANGED vars
  <2>1. UNCHANGED <<Phase, boundTo, Ended, overlap, fault>>
    BY <1>1 DEF vars, managed, threads, nativeSt, history, Phase, PhaseOf, Ended
  <2>2. QED
    BY <2>1 DEF Contract!vars, Phase, Ended
<1>2. CASE \E th \in Threads : Transaction(th) \/ Cursor(th)
  BY <1>1, <1>2, SilentSteps, OpenNativeOpens, DisposeClaims, CloseNativeCloses,
     EndNativeFinishes, ReleaseClears, RenewRebinds DEF Transaction, Cursor, DisposeAgain
<1>q. QED
  BY <1>1, <1>2 DEF Next, Undefined

\* Transaction and Cursor keep the promise of CursorContract for any number of threads, transactions
\* and cursors (OpenCursor, AddCursor, Cursor.Dispose and Renew, CursorDisposed, Transaction.Commit,
\* Abort and Dispose, ReleaseManagedResources): whoever calls what and when, each native cursor is
\* closed by one caller, once, or goes with its write transaction.
THEOREM CursorsKeepContract == Spec => KeepsContract
<1>1. Init => Contract!Init
  BY DEF Init, Contract!Init, PhaseOf
<1>q. QED
  BY <1>1, ContractNext, Invariance, PTL DEF Spec, KeepsContract, Contract!Spec

=============================================================================
