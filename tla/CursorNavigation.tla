--------------------------- MODULE CursorNavigation ---------------------------
(***************************************************************************)
(* Moving a MultiValueCursor and iterating with it (src/Lmdb): the Get     *)
(* and Move operations, Put and Delete, the iterators over records and     *)
(* keys with their enumerators, and the Values iterators over the          *)
(* duplicates of one key. All enumerators of a cursor share its native     *)
(* position, so a foreach over the values of a key inside a foreach over   *)
(* the keys, or a Delete in a loop, moves the cursor under the outer loop. *)
(* A plain Cursor is the case of one value.                                *)
(*                                                                         *)
(* The multimap and the effect of each MDB_cursor_op on a position are     *)
(* LMDB's. A position is a point in the order of records: its record may   *)
(* have been deleted, as LMDB then continues with the record's neighbours. *)
(***************************************************************************)
EXTENDS Integers, FiniteSets, SequencesExt

CONSTANTS
  Records,  \* what may be stored: <<key, data>>, numbers that stand for them in sort order
  NoRecord  \* no position, or a default KeyDataPair

ASSUME NavigationAssumption ==
  /\ Records \subseteq Nat \X Nat /\ IsFiniteSet(Records)
  /\ NoRecord \notin Records

VARIABLES
  db,     \* the records in the database
  pos,    \* the native cursor's position
  outer,  \* the enumerator of the foreach that is running, or NoLoop
  inner,  \* the Values enumerator of the foreach inside it, or NoLoop
  seen, innerSeen,  \* history: what Current has been so far in each loop
  goal, innerGoal   \* history: what the iterator promised at the start, less what was deleted

vars == <<db, pos, outer, inner, seen, innerSeen, goal, innerGoal>>

Before(r, s) == r[1] < s[1] \/ (r[1] = s[1] /\ r[2] < s[2])
NoLoop == [iter |-> "none", isInitialized |-> FALSE, isCurrent |-> FALSE, current |-> NoRecord]

-----------------------------------------------------------------------------
(* LMDB *)

Least(R) == IF R = {} THEN NoRecord ELSE CHOOSE r \in R : \A s \in R : r = s \/ Before(r, s)
Greatest(R) == IF R = {} THEN NoRecord ELSE CHOOSE r \in R : \A s \in R : r = s \/ Before(s, r)

\* The record mdb_cursor_get finds for op at position p, NoRecord for MDB_NOTFOUND.
Find(op, p) ==
  LET all == p = NoRecord  \* not positioned yet: MDB_NEXT is MDB_FIRST, MDB_PREV is MDB_LAST
      dups == {r \in db : r[1] = p[1]}
  IN
  CASE op = "FIRST"       -> Least(db)
    [] op = "LAST"        -> Greatest(db)
    [] op = "GET_CURRENT" -> IF p \in db THEN p ELSE Least({r \in db : Before(p, r)})
    [] op = "NEXT"        -> Least({r \in db : all \/ Before(p, r)})
    [] op = "PREV"        -> Greatest({r \in db : all \/ Before(r, p)})
    [] op = "NEXT_NODUP"  -> Least({r \in db : all \/ p[1] < r[1]})
    [] op = "PREV_NODUP"  -> Greatest({r \in db : all \/ r[1] < p[1]})
    [] op = "FIRST_DUP"   -> Least(dups)
    [] op = "LAST_DUP"    -> Greatest(dups)
    [] op = "NEXT_DUP"    -> Least({r \in dups : Before(p, r)})
    [] op = "PREV_DUP"    -> Greatest({r \in dups : Before(r, p)})

\* The same for the operations that search for a key, or a key and data.
Search(op, r) ==
  CASE op = "SET"            -> Least({s \in db : s[1] = r[1]})
    [] op = "SET_RANGE"      -> Least({s \in db : s[1] >= r[1]})
    [] op = "GET_BOTH"       -> Least(db \cap {r})
    [] op = "GET_BOTH_RANGE" -> Least({s \in db : s[1] = r[1] /\ s[2] >= r[2]})

-----------------------------------------------------------------------------
(* Iterators: the operation of the first MoveNext and that of the others *)

ItemsIterators ==
  [Forward                |-> <<"FIRST", "NEXT">>,
   ForwardFromNext        |-> <<"NEXT", "NEXT">>,
   ForwardFromCurrent     |-> <<"GET_CURRENT", "NEXT">>,
   Reverse                |-> <<"LAST", "PREV">>,
   ReverseFromPrevious    |-> <<"PREV", "PREV">>,
   ReverseFromCurrent     |-> <<"GET_CURRENT", "PREV">>,
   ForwardByKey           |-> <<"FIRST", "NEXT_NODUP">>,
   ForwardFromNextByKey   |-> <<"NEXT_NODUP", "NEXT_NODUP">>,
   ForwardFromCurrentByKey |-> <<"GET_CURRENT", "NEXT_NODUP">>,
   ReverseByKey           |-> <<"LAST", "PREV_NODUP">>,
   ReverseFromNextByKey   |-> <<"PREV_NODUP", "PREV_NODUP">>,
   ReverseFromCurrentByKey |-> <<"GET_CURRENT", "PREV_NODUP">>]

\* A slip: a loop over values that runs on into the next key.
ValuesIterators_Next ==
  [ValuesForward            |-> <<"FIRST_DUP", "NEXT">>,
   ValuesForwardFromNext    |-> <<"NEXT_DUP", "NEXT_DUP">>,
   ValuesForwardFromCurrent |-> <<"GET_CURRENT", "NEXT_DUP">>,
   ValuesReverse            |-> <<"LAST_DUP", "PREV_DUP">>,
   ValuesReverseFromPrevious |-> <<"PREV_DUP", "PREV_DUP">>,
   ValuesReverseFromCurrent |-> <<"GET_CURRENT", "PREV_DUP">>]

ValuesIterators ==
  [ValuesForward            |-> <<"FIRST_DUP", "NEXT_DUP">>,
   ValuesForwardFromNext    |-> <<"NEXT_DUP", "NEXT_DUP">>,
   ValuesForwardFromCurrent |-> <<"GET_CURRENT", "NEXT_DUP">>,
   ValuesReverse            |-> <<"LAST_DUP", "PREV_DUP">>,
   ValuesReverseFromPrevious |-> <<"PREV_DUP", "PREV_DUP">>,
   ValuesReverseFromCurrent |-> <<"GET_CURRENT", "PREV_DUP">>]

\* What the iterators' documentation promises, from the records and the position alone.
FirstOfKeys(R) == {r \in R : \A s \in R : s[1] = r[1] => s[2] >= r[2]}
LastOfKeys(R) == {r \in R : \A s \in R : s[1] = r[1] => s[2] <= r[2]}

Promise(i) ==
  LET after == {r \in db : pos = NoRecord \/ Before(pos, r)}
      before == {r \in db : pos = NoRecord \/ Before(r, pos)}
      later == {r \in after : pos = NoRecord \/ r[1] # pos[1]}
      earlier == {r \in before : pos = NoRecord \/ r[1] # pos[1]}
  IN
  CASE i = "Forward"                 -> db
    [] i = "ForwardFromNext"         -> after
    [] i = "ForwardFromCurrent"      -> {pos} \cup after
    [] i = "Reverse"                 -> db
    [] i = "ReverseFromPrevious"     -> before
    [] i = "ReverseFromCurrent"      -> {pos} \cup before
    [] i = "ForwardByKey"            -> FirstOfKeys(db)
    [] i = "ForwardFromNextByKey"    -> FirstOfKeys(later)
    [] i = "ForwardFromCurrentByKey" -> {pos} \cup FirstOfKeys(later)
    [] i = "ReverseByKey"            -> LastOfKeys(db)
    [] i = "ReverseFromNextByKey"    -> LastOfKeys(earlier)
    [] i = "ReverseFromCurrentByKey" -> {pos} \cup LastOfKeys(earlier)

ValuesPromise(i) ==
  LET dups == {r \in db : r[1] = pos[1]}
      after == {r \in dups : Before(pos, r)}
      before == {r \in dups : Before(r, pos)}
  IN
  CASE i = "ValuesForward"             -> dups
    [] i = "ValuesForwardFromNext"     -> after
    [] i = "ValuesForwardFromCurrent"  -> {pos} \cup after
    [] i = "ValuesReverse"             -> dups
    [] i = "ValuesReverseFromPrevious" -> before
    [] i = "ValuesReverseFromCurrent"  -> {pos} \cup before

\* The direction of an iterator, which its name says.
ForwardIterators ==
  {"Forward", "ForwardFromNext", "ForwardFromCurrent",
   "ForwardByKey", "ForwardFromNextByKey", "ForwardFromCurrentByKey",
   "ValuesForward", "ValuesForwardFromNext", "ValuesForwardFromCurrent"}

Goes(i, r, s) == IF i \in ForwardIterators THEN Before(r, s) ELSE Before(s, r)

-----------------------------------------------------------------------------
(* Cursor operations *)

Init ==
  /\ db \in SUBSET Records
  /\ pos = NoRecord
  /\ outer = NoLoop /\ inner = NoLoop
  /\ seen = << >> /\ innerSeen = << >>
  /\ goal = {} /\ innerGoal = {}

loops == <<outer, inner, seen, innerSeen, goal, innerGoal>>
NoLoops == outer = NoLoop /\ inner = NoLoop

\* GetNext, GetPrevious, GetNextKey, GetNextByKey, GetPreviousKey, GetPreviousByKey: the
\* position stays where it is when nothing is found.
Move(op) ==
  /\ NoLoops
  /\ LET r == Find(op, pos) IN pos' = IF r = NoRecord THEN pos ELSE r
  /\ UNCHANGED <<db, loops>>

\* MoveToKey, GetAt, GetNearest: LMDB does not say where a search that fails leaves the cursor.
MoveTo(op, r) ==
  /\ NoLoops
  /\ LET s == Search(op, r)
     IN  IF s = NoRecord THEN pos' \in Records \cup {NoRecord} ELSE pos' = s
  /\ UNCHANGED <<db, loops>>

\* Put without or with MDB_NODUPDATA / MDB_NOOVERWRITE: the cursor is at the new item, or,
\* when it exists, at the one that is there.
Put(r, option) ==
  LET there == CASE option = "NoOverwrite"     -> {s \in db : s[1] = r[1]}
                 [] option = "NoDuplicateData" -> db \cap {r}
                 [] option = "None"            -> {}
  IN
  /\ NoLoops
  /\ IF there = {} THEN db' = db \cup {r} /\ pos' = r
                   ELSE pos' = Least(there) /\ UNCHANGED db
  /\ UNCHANGED loops

\* Delete, with MDB_NODUPDATA for all duplicates of the key. In a loop the body deletes the
\* record it has got, before any loop over its values; other records the loop would still
\* have come to may go with it.
Delete(allDuplicates) ==
  /\ pos \in db /\ inner = NoLoop
  /\ outer = NoLoop \/ (outer.isCurrent /\ pos = outer.current)
  /\ db' = db \ {r \in db : r = pos \/ (allDuplicates /\ r[1] = pos[1])}
  /\ goal' = {r \in goal : r \in db' \/ r \in ToSet(seen)}
  /\ UNCHANGED <<pos, outer, inner, seen, innerSeen, innerGoal>>

-----------------------------------------------------------------------------
(* Enumerators *)

\* GetEnumerator. The iterators that begin at the current record throw without one.
Foreach(i) ==
  /\ NoLoops
  /\ ItemsIterators[i][1] = "GET_CURRENT" => pos \in db
  /\ outer' = [NoLoop EXCEPT !.iter = i]
  /\ goal' = Promise(i)
  /\ seen' = << >>
  /\ UNCHANGED <<db, pos, inner, innerSeen, innerGoal>>

\* A slip: the result false does not reset isCurrent.
MoveNext_StaysCurrent(e, ops) ==
  LET r == Find(IF e.isInitialized THEN ops[2] ELSE ops[1], pos)
  IN  [e EXCEPT !.isInitialized = TRUE, !.isCurrent = @ \/ r # NoRecord, !.current = r]

\* A slip: the flag isInitialized is not set.
MoveNext_Restarts(e, ops) ==
  LET r == Find(IF e.isInitialized THEN ops[2] ELSE ops[1], pos)
  IN  [e EXCEPT !.isCurrent = r # NoRecord, !.current = r]

\* MoveNext of ItemsEnumerator and ValuesEnumerator, and, with equal operations, of
\* NextItemsEnumerator and ValuesNextEnumerator.
MoveNext(e, ops) ==
  LET r == Find(IF e.isInitialized THEN ops[2] ELSE ops[1], pos)
  IN  [e EXCEPT !.isInitialized = TRUE, !.isCurrent = r # NoRecord, !.current = r]

\* One round of the foreach; the loop ends when MoveNext returns false.
MoveOuter ==
  LET e == MoveNext(outer, ItemsIterators[outer.iter]) IN
  /\ outer # NoLoop /\ inner = NoLoop
  /\ outer.isInitialized => outer.isCurrent
  /\ outer' = e
  /\ pos' = IF e.isCurrent THEN e.current ELSE pos
  /\ seen' = IF e.isCurrent THEN Append(seen, e.current) ELSE seen
  /\ UNCHANGED <<db, inner, innerSeen, goal, innerGoal>>

\* The loop is left, at its end or by a break.
LeaveOuter ==
  /\ outer # NoLoop /\ inner = NoLoop
  /\ outer' = NoLoop /\ seen' = << >> /\ goal' = {}
  /\ UNCHANGED <<db, pos, inner, innerSeen, innerGoal>>

\* A loop over the values of the key the cursor is on, in an iteration by key or on its own.
\* Iterations over single records are not meant to be combined with it.
ForeachValue(i) ==
  /\ inner = NoLoop /\ pos \in db
  /\ outer # NoLoop => /\ outer.isCurrent
                       /\ ItemsIterators[outer.iter][2] \in {"NEXT_NODUP", "PREV_NODUP"}
  /\ inner' = [NoLoop EXCEPT !.iter = i]
  /\ innerGoal' = ValuesPromise(i)
  /\ innerSeen' = << >>
  /\ UNCHANGED <<db, pos, outer, seen, goal>>

MoveInner ==
  LET e == MoveNext(inner, ValuesIterators[inner.iter]) IN
  /\ inner # NoLoop
  /\ inner.isInitialized => inner.isCurrent
  /\ inner' = e
  /\ pos' = IF e.isCurrent THEN e.current ELSE pos
  /\ innerSeen' = IF e.isCurrent THEN Append(innerSeen, e.current) ELSE innerSeen
  /\ UNCHANGED <<db, outer, seen, goal, innerGoal>>

LeaveInner ==
  /\ inner # NoLoop
  /\ inner' = NoLoop /\ innerSeen' = << >> /\ innerGoal' = {}
  /\ UNCHANGED <<db, pos, outer, seen, goal>>

-----------------------------------------------------------------------------
(* Specification *)

Next ==
  \/ \E op \in {"NEXT", "PREV", "NEXT_NODUP", "PREV_NODUP"} : Move(op)
  \/ \E op \in {"SET", "SET_RANGE", "GET_BOTH", "GET_BOTH_RANGE"}, r \in Records : MoveTo(op, r)
  \/ \E r \in Records, option \in {"None", "NoOverwrite", "NoDuplicateData"} : Put(r, option)
  \/ \E all \in BOOLEAN : Delete(all)
  \/ \E i \in DOMAIN ItemsIterators : Foreach(i)
  \/ \E i \in DOMAIN ValuesIterators : ForeachValue(i)
  \/ MoveOuter \/ LeaveOuter \/ MoveInner \/ LeaveInner

Spec == Init /\ [][Next]_vars

-----------------------------------------------------------------------------
(* What a loop has still to yield: it follows from Current alone *)

KeyOps == {"NEXT_NODUP", "PREV_NODUP"}
DupOps == {"NEXT_DUP", "PREV_DUP"}
Onward(op) == op \in {"NEXT", "NEXT_NODUP", "NEXT_DUP"}
Ahead(forward, r, s) == IF forward THEN Before(r, s) ELSE Before(s, r)

\* Where op may go from position p in the database D.
Reach(D, op, p) ==
  {r \in D : \/ op \notin DupOps /\ p = NoRecord
             \/ /\ Ahead(Onward(op), p, r)
                /\ op \in KeyOps => r[1] # p[1]
                /\ op \in DupOps => r[1] = p[1]}

\* What op, repeated from position p, yields.
Rest(D, op, p) ==
  IF op \notin KeyOps THEN Reach(D, op, p)
  ELSE IF Onward(op) THEN FirstOfKeys(Reach(D, op, p)) ELSE LastOfKeys(Reach(D, op, p))

\* What an iterator with the operations ops yields.
Promised(D, p, ops) ==
  IF ops[1] \in {"FIRST", "LAST"} THEN Rest(D, ops[2], NoRecord)
  ELSE IF ops[1] \in {"FIRST_DUP", "LAST_DUP"} THEN {r \in D : r[1] = p[1]}
  ELSE Rest(D, ops[2], p) \cup (IF ops[1] = "GET_CURRENT" THEN {p} ELSE {})

Finished(e) == e.isInitialized /\ ~e.isCurrent

\* What an enumerator has still to yield.
Left(D, p, e, ops) ==
  IF e = NoLoop \/ Finished(e) THEN {}
  ELSE IF e.isInitialized THEN Rest(D, ops[2], e.current) ELSE Promised(D, p, ops)

OuterOps == ItemsIterators[outer.iter]
InnerOps == ValuesIterators[inner.iter]
OuterLeft == Left(db, pos, outer, OuterOps)
InnerLeft == Left(db, pos, inner, InnerOps)

-----------------------------------------------------------------------------
(* Properties *)

Enumerators(iters) ==
  {NoLoop} \cup [iter : DOMAIN iters, isInitialized : BOOLEAN, isCurrent : BOOLEAN,
                 current : Records \cup {NoRecord}]

\* Every variable has its type, and Current is a record exactly when it does not throw.
TypeOK ==
  /\ db \subseteq Records
  /\ pos \in Records \cup {NoRecord}
  /\ outer \in Enumerators(ItemsIterators)
  /\ inner \in Enumerators(ValuesIterators)
  /\ \A e \in {outer, inner} : e.isCurrent <=> e.current # NoRecord
  /\ seen \in Seq(Records) /\ goal \subseteq Records
  /\ innerSeen \in Seq(Records) /\ innerGoal \subseteq Records

\* What a loop has yielded is the first part, in the iterator's order, of what was promised, and
\* at its end all of it.
Visits(loop, yielded, promised) ==
  /\ \A j, k \in DOMAIN yielded : j < k => Goes(loop.iter, yielded[j], yielded[k])
  /\ ToSet(yielded) \subseteq promised
  /\ \A s \in ToSet(yielded), r \in promised \ ToSet(yielded) : Goes(loop.iter, s, r)
  /\ Finished(loop) => promised \subseteq ToSet(yielded)

\* A foreach yields, in order and once each, the records its iterator promises for the records
\* and the position at its start, whatever loops over values run inside it and also when the
\* body deletes what it gets; it ends with the last of them.
LoopVisitsAll == Visits(outer, seen, goal)

\* A foreach over values yields the duplicates of the current key, in order and once each.
ValuesLoopVisitsAll == Visits(inner, innerSeen, innerGoal)

\* Inside the body of a loop the cursor stays on the key of its Current, so that a loop over
\* values started there is about that key.
BodyStaysOnKey == outer.isCurrent => pos[1] = outer.current[1]

\* From the enumerator e, with left still to come, to f, with rest.
GetsShorter(e, f, left, rest) ==
  e # NoLoop /\ f # NoLoop => rest \subseteq left /\ (e # f /\ f.isCurrent => rest # left)

\* Each round of a foreach that has got a Current leaves it less to yield, and nothing that goes on
\* in its body gives it more: a foreach ends after at most as many rounds as there are records,
\* also when its body deletes the record the next MoveNext starts from.
RoundsProgress ==
  [][/\ GetsShorter(outer, outer', OuterLeft, OuterLeft')
     /\ GetsShorter(inner, inner', InnerLeft, InnerLeft')]_vars

OrderOf(iters) == [i \in DOMAIN iters |-> {p \in Records \X Records : Goes(i, p[1], p[2])}]

ItemsLoop == INSTANCE IterationContract WITH
  Order <- OrderOf(ItemsIterators), stored <- db,
  iter <- outer.iter, todo <- OuterLeft, current <- outer.current

ValuesLoop == INSTANCE IterationContract WITH
  Order <- OrderOf(ValuesIterators), stored <- db,
  iter <- inner.iter, todo <- InnerLeft, current <- inner.current

\* A foreach behaves as one over a list made at its start (IterationContract), although all loops
\* and all operations of its body move the one position the next MoveNext starts from.
KeepsContract == ItemsLoop!Spec /\ ValuesLoop!Spec

\* MultiValueCursor.cs 137: ReverseByKey "retrieves each key's first duplicate record in
\* duplicate sort order". It retrieves the last one.
ReverseByKeyRetrievesFirst ==
  (outer.iter = "ReverseByKey" /\ outer.isCurrent) =>
    \A r \in db : r[1] = outer.current[1] => r[2] >= outer.current[2]

=============================================================================
