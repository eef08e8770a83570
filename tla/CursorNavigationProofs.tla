----------------------- MODULE CursorNavigationProofs -----------------------
(***************************************************************************)
(* The loops of CursorNavigation, for any finite set of records: what a    *)
(* foreach has still to yield follows from its Current alone, and each     *)
(* MoveNext takes the first of it.                                         *)
(***************************************************************************)
EXTENDS CursorNavigation, FiniteSetTheorems, SequenceTheorems, TLAPS

-----------------------------------------------------------------------------
(* The order of records *)

First(forward, R) == IF forward THEN Least(R) ELSE Greatest(R)

LEMMA RecordNumbers ==
  ASSUME NEW r \in Records
  PROVE  r[1] \in Nat /\ r[2] \in Nat /\ r = <<r[1], r[2]>> /\ r # NoRecord
  BY NavigationAssumption

\* In both directions the order is a strict linear one.
LEMMA AheadIsOrder ==
  ASSUME NEW forward \in BOOLEAN
  PROVE  /\ \A r, s \in Records : r = s \/ Ahead(forward, r, s) \/ Ahead(forward, s, r)
         /\ \A r, s \in Records : ~(Ahead(forward, r, s) /\ Ahead(forward, s, r))
         /\ \A r \in Records : ~Ahead(forward, r, r)
         /\ \A r, s, t \in Records :
              Ahead(forward, r, s) /\ Ahead(forward, s, t) => Ahead(forward, r, t)
<1>1. \A r, s \in Records : r[1] = s[1] /\ r[2] = s[2] => r = s
  BY RecordNumbers
<1> QED
  BY <1>1, RecordNumbers DEF Ahead, Before

\* A finite set that is not empty has a first member: the one with the fewest records behind.
LEMMA FirstExists ==
  ASSUME NEW forward \in BOOLEAN, NEW R \in SUBSET Records, R # {}
  PROVE  \E r \in R : \A s \in R : r = s \/ Ahead(forward, r, s)
<1> DEFINE UpTo(r) == {s \in Records : Ahead(forward, s, r)}
           Parts == {UpTo(r) : r \in R}
<1>1. IsWellFoundedOn(StrictSubsetOrdering(Records), SUBSET Records)
  BY FS_StrictSubsetOrderingWellFounded, FS_FiniteSubsetsOfFinite, NavigationAssumption
<1>2. Parts \subseteq SUBSET Records /\ Parts # {}
  OBVIOUS
<1> HIDE DEF Parts
<1>3. PICK P \in Parts : \A Q \in Parts : ~(<<Q, P>> \in StrictSubsetOrdering(Records))
  BY <1>1, <1>2, WFMin
<1>4. PICK r \in R : P = UpTo(r)
  BY DEF Parts
<1>5. ASSUME NEW s \in R
      PROVE  r = s \/ Ahead(forward, r, s)
  <2>1. SUFFICES ASSUME Ahead(forward, s, r)
                 PROVE  FALSE
    BY AheadIsOrder
  <2>2. UpTo(s) \subseteq UpTo(r)
    BY <2>1, AheadIsOrder
  <2>3. s \in UpTo(r) /\ s \notin UpTo(s)
    BY <2>1, AheadIsOrder
  <2>4. UpTo(s) \in Parts
    BY DEF Parts
  <2>5. <<UpTo(s), UpTo(r)>> \in StrictSubsetOrdering(Records)
    BY <2>2, <2>3 DEF StrictSubsetOrdering
  <2> QED
    BY <1>3, <1>4, <2>4, <2>5
<1> QED
  BY <1>5

\* Least and Greatest are what they are called; LMDB finds nothing only when there is nothing.
LEMMA FirstIs ==
  ASSUME NEW forward \in BOOLEAN, NEW R \in SUBSET Records
  PROVE  /\ First(forward, R) = NoRecord <=> R = {}
         /\ R # {} => /\ First(forward, R) \in R
                      /\ \A s \in R : s = First(forward, R) \/ Ahead(forward, First(forward, R), s)
<1>1. CASE R = {}
  BY <1>1 DEF First, Least, Greatest
<1>2. CASE R # {}
  <2>1. \E r \in R : \A s \in R : r = s \/ Ahead(forward, r, s)
    BY <1>2, FirstExists
  <2>2. First(forward, R) = CHOOSE r \in R : \A s \in R : r = s \/ Ahead(forward, r, s)
    BY <1>2 DEF First, Least, Greatest, Ahead
  <2> HIDE DEF First
  <2>3. /\ First(forward, R) \in R
        /\ \A s \in R : First(forward, R) = s \/ Ahead(forward, First(forward, R), s)
    BY <2>1, <2>2
  <2> QED
    BY <1>2, <2>3, RecordNumbers
<1> QED
  BY <1>1, <1>2

-----------------------------------------------------------------------------
(* The invariant *)

MoveOps == {"NEXT", "PREV"} \cup KeyOps \cup DupOps

\* The loop has yielded what was promised except what is left, in order.
Progress(i, yielded, promised, left) ==
  /\ promised = ToSet(yielded) \cup left
  /\ \A j, k \in DOMAIN yielded : j < k => Goes(i, yielded[j], yielded[k])
  /\ \A s \in ToSet(yielded), r \in left : Goes(i, s, r)

\* The foreach over records or keys, and where the cursor is in its body.
OuterInv ==
  /\ Progress(outer.iter, seen, goal, OuterLeft)
  /\ outer # NoLoop /\ ~outer.isInitialized => /\ ~outer.isCurrent
                                               /\ OuterOps[1] = "GET_CURRENT" => pos \in db
  /\ outer.isCurrent => /\ outer.isInitialized
                        /\ pos # NoRecord /\ pos[1] = outer.current[1]
                        /\ pos = outer.current \/ OuterOps[2] \in KeyOps

\* The foreach over values, and where it may run.
InnerInv ==
  /\ Progress(inner.iter, innerSeen, innerGoal, InnerLeft)
  /\ inner # NoLoop => /\ pos \in db
                       /\ outer # NoLoop => outer.isCurrent /\ OuterOps[2] \in KeyOps
  /\ inner # NoLoop /\ ~inner.isInitialized => ~inner.isCurrent
  /\ inner.isCurrent => inner.isInitialized /\ pos = inner.current

NavigationInv == TypeOK /\ OuterInv /\ InnerInv

-----------------------------------------------------------------------------
(* One MoveNext *)

LEMMA FindIsFirst ==
  ASSUME db \subseteq Records, NEW op \in MoveOps, NEW p \in Records \cup {NoRecord},
         op \in DupOps => p # NoRecord
  PROVE  Find(op, p) = First(Onward(op), Reach(db, op, p))
<1> USE DEF MoveOps, KeyOps, DupOps, Onward, Ahead, First
<1>1. \A r \in db : r[1] \in Nat /\ r[2] \in Nat
  BY RecordNumbers
<1>2. p # NoRecord => p[1] \in Nat /\ p[2] \in Nat
  BY RecordNumbers
<1>3. CASE op = "NEXT" \/ op = "PREV"
  <2>1. op = "NEXT" => Reach(db, op, p) = {r \in db : p = NoRecord \/ Before(p, r)}
    BY DEF Reach
  <2>2. op = "PREV" => Reach(db, op, p) = {r \in db : p = NoRecord \/ Before(r, p)}
    BY DEF Reach
  <2> QED
    BY <1>3, <2>1, <2>2 DEF Find
<1>4. CASE op \in KeyOps
  <2>1. op = "NEXT_NODUP" => Reach(db, op, p) = {r \in db : p = NoRecord \/ p[1] < r[1]}
    BY <1>1, <1>2 DEF Reach, Before
  <2>2. op = "PREV_NODUP" => Reach(db, op, p) = {r \in db : p = NoRecord \/ r[1] < p[1]}
    BY <1>1, <1>2 DEF Reach, Before
  <2> QED
    BY <1>4, <2>1, <2>2 DEF Find
<1>5. CASE op \in DupOps
  <2>1. op = "NEXT_DUP" => Reach(db, op, p) = {r \in {r \in db : r[1] = p[1]} : Before(p, r)}
    BY DEF Reach
  <2>2. op = "PREV_DUP" => Reach(db, op, p) = {r \in {r \in db : r[1] = p[1]} : Before(r, p)}
    BY DEF Reach
  <2> QED
    BY <1>5, <2>1, <2>2 DEF Find
<1> QED
  BY <1>3, <1>4, <1>5

\* r is the first of R, and left what is then left of it.
Takes(forward, R, r, left) ==
  /\ r = NoRecord <=> R = {}
  /\ R # {} => /\ r \in R /\ left = R \ {r}
               /\ \A s \in R : s = r \/ Ahead(forward, r, s)

\* Of what a repeated operation yields, it finds the first, and from there the others.
LEMMA RestStep ==
  ASSUME db \subseteq Records, NEW op \in MoveOps, NEW p \in Records \cup {NoRecord},
         op \in DupOps => p # NoRecord
  PROVE  Takes(Onward(op), Rest(db, op, p), Find(op, p), Rest(db, op, Find(op, p)))
<1> DEFINE r == Find(op, p)
           fw == Onward(op)
           R == Reach(db, op, p)
<1>1. fw \in BOOLEAN /\ R \in SUBSET db /\ R \in SUBSET Records /\ r = First(fw, R)
  BY FindIsFirst DEF Onward, Reach
<1>2. /\ r = NoRecord <=> R = {}
      /\ R # {} => r \in R /\ \A s \in R : s = r \/ Ahead(fw, r, s)
  BY <1>1, FirstIs
<1>3. \A s \in R : s[1] \in Nat /\ s[2] \in Nat
  BY <1>1, RecordNumbers
<1>4. op \in KeyOps => \A q : Rest(db, op, q) = IF fw THEN FirstOfKeys(Reach(db, op, q)) ELSE LastOfKeys(Reach(db, op, q))
  BY DEF Rest
<1>5. Rest(db, op, p) \subseteq R /\ (R # {} => r \in Rest(db, op, p))
  <2>1. CASE op \notin KeyOps
    BY <2>1, <1>2 DEF Rest
  <2>2. CASE op \in KeyOps
    <3>1. Rest(db, op, p) = IF fw THEN FirstOfKeys(R) ELSE LastOfKeys(R)
      BY <2>2, <1>4
    <3> HIDE DEF R, r, fw
    <3> QED
      BY <3>1, <1>1, <1>2, <1>3 DEF FirstOfKeys, LastOfKeys, Ahead, Before
  <2> QED
    BY <2>1, <2>2
<1>6. ASSUME R # {} PROVE Rest(db, op, r) = Rest(db, op, p) \ {r}
  <2> DEFINE Q == Reach(db, op, r)
  <2>1. r \in db /\ r # NoRecord /\ r \in Records /\ r \in R
    BY <1>1, <1>2, <1>6, RecordNumbers
  <2>2. Q = {s \in R : s # r /\ (op \in KeyOps => s[1] # r[1])}
    <3>1. ASSUME NEW s \in db
          PROVE  s \in Q <=> /\ Ahead(fw, r, s)
                             /\ op \in KeyOps => s[1] # r[1]
                             /\ op \in DupOps => s[1] = r[1]
      BY <2>1 DEF Reach
    <3>2. ASSUME NEW s \in db
          PROVE  s \in R <=> \/ op \notin DupOps /\ p = NoRecord
                             \/ /\ Ahead(fw, p, s)
                                /\ op \in KeyOps => s[1] # p[1]
                                /\ op \in DupOps => s[1] = p[1]
      BY DEF Reach
    <3>3. p # NoRecord => p \in Records /\ p[1] \in Nat /\ p[2] \in Nat
      BY RecordNumbers
    <3>4. r[1] \in Nat /\ r[2] \in Nat /\ Q \subseteq db
      BY <2>1, RecordNumbers DEF Reach
    <3>5. \A s \in db : s \in Records /\ s[1] \in Nat /\ s[2] \in Nat
      BY RecordNumbers
    <3>6. /\ \A s, t \in Records : ~(Ahead(fw, s, t) /\ Ahead(fw, t, s))
          /\ \A s, t, u \in Records : Ahead(fw, s, t) /\ Ahead(fw, t, u) => Ahead(fw, s, u)
      BY <1>1, AheadIsOrder
    <3>7. \A s \in R : s # r => Ahead(fw, r, s)
      BY <1>2, <1>6
    <3> HIDE DEF R, r, fw, Q
    <3>8. ASSUME NEW s \in db, s \in Q PROVE s \in R /\ s # r /\ (op \in KeyOps => s[1] # r[1])
      <4>1. Ahead(fw, r, s) /\ s # r
        BY <3>1, <3>5, <3>6, <3>8, <2>1
      <4>2. CASE p = NoRecord
        BY <4>2, <4>1, <3>1, <3>2, <3>8
      <4>3. CASE p # NoRecord
        <5>1. Ahead(fw, p, r) /\ Ahead(fw, p, s)
          BY <4>3, <4>1, <2>1, <3>2, <3>3, <3>5, <3>6
        <5>2. op \in KeyOps => s[1] # p[1]
          BY <5>1, <4>1, <4>3, <3>1, <3>2, <3>3, <3>4, <3>5, <2>1, <3>8 DEF Ahead, Before
        <5> QED
          BY <5>1, <5>2, <4>1, <3>1, <3>2, <2>1, <3>8
      <4> QED
        BY <4>2, <4>3
    <3>9. ASSUME NEW s \in R, s # r, op \in KeyOps => s[1] # r[1] PROVE s \in Q
      BY <3>9, <3>1, <3>2, <3>7, <2>1, <1>1
    <3> QED
      BY <3>8, <3>9, <3>4, <1>1
  <2>3. CASE op \notin KeyOps
    BY <2>2, <2>3 DEF Rest
  <2>4. CASE op \in KeyOps
    <3>1. /\ Rest(db, op, p) = IF fw THEN FirstOfKeys(R) ELSE LastOfKeys(R)
          /\ Rest(db, op, r) = IF fw THEN FirstOfKeys(Q) ELSE LastOfKeys(Q)
      BY <2>4, <1>4
    <3>2. \A s \in R : s = r \/ Ahead(fw, r, s)
      BY <1>2, <1>6
    <3>3. Q = {s \in R : s[1] # r[1]}
      BY <2>2, <2>4
    <3>4. \A s, t \in R : s[1] = t[1] /\ s[2] = t[2] => s = t
      BY <1>1, RecordNumbers
    <3> HIDE DEF R, r, fw, Q
    <3>5. CASE fw
      BY <3>5, <3>1, <3>2, <3>3, <3>4, <1>3, <2>1 DEF FirstOfKeys, Ahead, Before
    <3>6. CASE ~fw
      BY <3>6, <3>1, <3>2, <3>3, <3>4, <1>3, <2>1 DEF LastOfKeys, Ahead, Before
    <3> QED
      BY <3>5, <3>6
  <2> QED
    BY <2>3, <2>4
<1>7. Rest(db, op, p) = {} <=> R = {}
  BY <1>5
<1> QED
  BY <1>2, <1>5, <1>6, <1>7 DEF Takes

-----------------------------------------------------------------------------
(* The iterators *)

LEMMA ItemsDomain ==
  DOMAIN ItemsIterators =
    {"Forward", "ForwardFromNext", "ForwardFromCurrent",
     "Reverse", "ReverseFromPrevious", "ReverseFromCurrent",
     "ForwardByKey", "ForwardFromNextByKey", "ForwardFromCurrentByKey",
     "ReverseByKey", "ReverseFromNextByKey", "ReverseFromCurrentByKey"}
  BY DEF ItemsIterators

LEMMA ValuesDomain ==
  DOMAIN ValuesIterators =
    {"ValuesForward", "ValuesForwardFromNext", "ValuesForwardFromCurrent",
     "ValuesReverse", "ValuesReverseFromPrevious", "ValuesReverseFromCurrent"}
  BY DEF ValuesIterators

\* The operations of an iterator go in the direction its name says.
LEMMA IteratorOps ==
  /\ \A i \in DOMAIN ItemsIterators :
       /\ ItemsIterators[i][2] \in {"NEXT", "PREV"} \cup KeyOps
       /\ \/ ItemsIterators[i][1] = IF Onward(ItemsIterators[i][2]) THEN "FIRST" ELSE "LAST"
          \/ ItemsIterators[i][1] \in {"GET_CURRENT", ItemsIterators[i][2]}
       /\ i \in ForwardIterators <=> Onward(ItemsIterators[i][2])
  /\ \A i \in DOMAIN ValuesIterators :
       /\ ValuesIterators[i][2] \in DupOps
       /\ \/ ValuesIterators[i][1] = IF Onward(ValuesIterators[i][2]) THEN "FIRST_DUP" ELSE "LAST_DUP"
          \/ ValuesIterators[i][1] \in {"GET_CURRENT", ValuesIterators[i][2]}
       /\ i \in ForwardIterators <=> Onward(ValuesIterators[i][2])
BY ItemsDomain, ValuesDomain
   DEF ItemsIterators, ValuesIterators, ForwardIterators, Onward, KeyOps, DupOps

\* What an iterator promises is what its operations find.
LEMMA PromiseIs ==
  ASSUME db \subseteq Records, pos \in Records \cup {NoRecord}, NEW i \in DOMAIN ItemsIterators
  PROVE  Promise(i) = Promised(db, pos, ItemsIterators[i])
<1> DEFINE after == {r \in db : pos = NoRecord \/ Before(pos, r)}
           before == {r \in db : pos = NoRecord \/ Before(r, pos)}
           later == {r \in after : pos = NoRecord \/ r[1] # pos[1]}
           earlier == {r \in before : pos = NoRecord \/ r[1] # pos[1]}
<1>1. /\ Rest(db, "NEXT", NoRecord) = db /\ Rest(db, "PREV", NoRecord) = db
      /\ Rest(db, "NEXT_NODUP", NoRecord) = FirstOfKeys(db)
      /\ Rest(db, "PREV_NODUP", NoRecord) = LastOfKeys(db)
  <2>1. \A op \in {"NEXT", "PREV"} \cup KeyOps : Reach(db, op, NoRecord) = db
    BY DEF Reach, KeyOps, DupOps
  <2> QED
    BY <2>1 DEF Rest, KeyOps, Onward
<1>2. /\ Rest(db, "NEXT", pos) = after /\ Rest(db, "PREV", pos) = before
      /\ Rest(db, "NEXT_NODUP", pos) = FirstOfKeys(later)
      /\ Rest(db, "PREV_NODUP", pos) = LastOfKeys(earlier)
  <2>1. /\ Reach(db, "NEXT", pos) = after /\ Reach(db, "PREV", pos) = before
        /\ Reach(db, "NEXT_NODUP", pos) = later /\ Reach(db, "PREV_NODUP", pos) = earlier
    BY DEF Reach, KeyOps, DupOps, Onward, Ahead
  <2> QED
    BY <2>1 DEF Rest, KeyOps, Onward
<1>3. /\ Promise("Forward") = db /\ Promise("Reverse") = db
      /\ Promise("ForwardByKey") = FirstOfKeys(db) /\ Promise("ReverseByKey") = LastOfKeys(db)
  BY DEF Promise
<1>4. /\ Promise("ForwardFromNext") = after /\ Promise("ReverseFromPrevious") = before
      /\ Promise("ForwardFromNextByKey") = FirstOfKeys(later)
      /\ Promise("ReverseFromNextByKey") = LastOfKeys(earlier)
  BY DEF Promise
<1>5. /\ Promise("ForwardFromCurrent") = {pos} \cup after
      /\ Promise("ReverseFromCurrent") = {pos} \cup before
      /\ Promise("ForwardFromCurrentByKey") = {pos} \cup FirstOfKeys(later)
      /\ Promise("ReverseFromCurrentByKey") = {pos} \cup LastOfKeys(earlier)
  BY DEF Promise
<1> HIDE DEF after, before, later, earlier
<1>6. CASE i \in {"Forward", "Reverse", "ForwardByKey", "ReverseByKey"}
  BY <1>6, <1>1, <1>3 DEF ItemsIterators, Promised
<1>7. CASE i \in {"ForwardFromNext", "ReverseFromPrevious", "ForwardFromNextByKey", "ReverseFromNextByKey"}
  BY <1>7, <1>2, <1>4 DEF ItemsIterators, Promised
<1>8. CASE i \in {"ForwardFromCurrent", "ReverseFromCurrent", "ForwardFromCurrentByKey",
                 "ReverseFromCurrentByKey"}
  BY <1>8, <1>2, <1>5 DEF ItemsIterators, Promised
<1> QED
  BY <1>6, <1>7, <1>8, ItemsDomain

LEMMA ValuesPromiseIs ==
  ASSUME pos \in db, NEW i \in DOMAIN ValuesIterators
  PROVE  ValuesPromise(i) = Promised(db, pos, ValuesIterators[i])
<1> DEFINE dups == {r \in db : r[1] = pos[1]}
           after == {r \in dups : Before(pos, r)}
           before == {r \in dups : Before(r, pos)}
<1>1. Rest(db, "NEXT_DUP", pos) = after /\ Rest(db, "PREV_DUP", pos) = before
  BY DEF Rest, Reach, KeyOps, DupOps, Onward, Ahead
<1>2. ValuesPromise("ValuesForward") = dups /\ ValuesPromise("ValuesReverse") = dups
  BY DEF ValuesPromise
<1>3. ValuesPromise("ValuesForwardFromNext") = after /\ ValuesPromise("ValuesReverseFromPrevious") = before
  BY DEF ValuesPromise
<1>4. /\ ValuesPromise("ValuesForwardFromCurrent") = {pos} \cup after
      /\ ValuesPromise("ValuesReverseFromCurrent") = {pos} \cup before
  BY DEF ValuesPromise
<1> HIDE DEF dups, after, before
<1>5. CASE i \in {"ValuesForward", "ValuesReverse"}
  BY <1>5, <1>2 DEF ValuesIterators, dups, Promised
<1>6. CASE i \in {"ValuesForwardFromNext", "ValuesReverseFromPrevious"}
  BY <1>6, <1>1, <1>3 DEF ValuesIterators, Promised
<1>7. CASE i \in {"ValuesForwardFromCurrent", "ValuesReverseFromCurrent"}
  BY <1>7, <1>1, <1>4 DEF ValuesIterators, Promised
<1> QED
  BY <1>5, <1>6, <1>7, ValuesDomain

\* What is left after a record comes after it.
LEMMA RestIsAhead ==
  ASSUME db \subseteq Records, NEW op \in MoveOps, NEW p \in Records
  PROVE  /\ Rest(db, op, p) \subseteq db /\ p \notin Rest(db, op, p)
         /\ \A s \in Rest(db, op, p) : Ahead(Onward(op), p, s)
<1>1. Rest(db, op, p) \subseteq Reach(db, op, p)
  BY DEF Rest, FirstOfKeys, LastOfKeys
<1>2. Reach(db, op, p) \subseteq db /\ \A s \in Reach(db, op, p) : Ahead(Onward(op), p, s)
  BY RecordNumbers DEF Reach
<1>3. ~Ahead(Onward(op), p, p)
  <2>1. Onward(op) \in BOOLEAN
    BY DEF Onward
  <2> QED
    BY <2>1, AheadIsOrder
<1> QED
  BY <1>1, <1>2, <1>3

\* The first MoveNext of a loop over records or keys takes the first that was promised.
LEMMA ItemsStart ==
  ASSUME db \subseteq Records, pos \in Records \cup {NoRecord}, NEW i \in DOMAIN ItemsIterators,
         ItemsIterators[i][1] = "GET_CURRENT" => pos \in db
  PROVE  LET ops == ItemsIterators[i]
             r   == Find(ops[1], pos)
         IN  Takes(Onward(ops[2]), Promised(db, pos, ops), r, Rest(db, ops[2], r))
<1> DEFINE ops == ItemsIterators[i]
           op == ops[2]
           r == Find(ops[1], pos)
<1>1. op \in MoveOps \ DupOps
  BY IteratorOps DEF MoveOps, KeyOps, DupOps
<1>2. CASE ops[1] = IF Onward(op) THEN "FIRST" ELSE "LAST"
  <2>1. Promised(db, pos, ops) = Rest(db, op, NoRecord)
    BY <1>2 DEF Promised
  <2>2. r = First(Onward(op), db)
    <3>1. Find("FIRST", pos) = Least(db) /\ Find("LAST", pos) = Greatest(db)
      BY DEF Find
    <3> QED
      BY <1>2, <3>1 DEF First
  <2>3. Reach(db, op, NoRecord) = db
    BY <1>1 DEF Reach
  <2>4. r = Find(op, NoRecord)
    BY <1>1, <2>2, <2>3, FindIsFirst
  <2>5. Takes(Onward(op), Rest(db, op, NoRecord), Find(op, NoRecord), Rest(db, op, Find(op, NoRecord)))
    BY <1>1, RestStep
  <2> QED
    BY <2>1, <2>4, <2>5
<1>3. CASE ops[1] = op
  <2>1. Promised(db, pos, ops) = Rest(db, op, pos)
    BY <1>1, <1>3 DEF Promised, MoveOps, KeyOps, DupOps
  <2>2. Takes(Onward(op), Rest(db, op, pos), Find(op, pos), Rest(db, op, Find(op, pos)))
    BY <1>1, RestStep
  <2> QED
    BY <1>3, <2>1, <2>2
<1>4. CASE ops[1] = "GET_CURRENT"
  <2>1. pos \in db /\ pos \in Records /\ pos # NoRecord
    BY <1>4, RecordNumbers
  <2>2. Promised(db, pos, ops) = {pos} \cup Rest(db, op, pos)
    BY <1>4 DEF Promised
  <2>3. r = pos
    <3>1. Find("GET_CURRENT", pos) = IF pos \in db THEN pos ELSE Least({s \in db : Before(pos, s)})
      BY DEF Find
    <3> QED
      BY <1>4, <2>1, <3>1
  <2>4. pos \notin Rest(db, op, pos) /\ \A s \in Rest(db, op, pos) : Ahead(Onward(op), pos, s)
    BY <1>1, <2>1, RestIsAhead
  <2> HIDE DEF r, op
  <2>5. Takes(Onward(op), Promised(db, pos, ops), r, Rest(db, op, r))
    BY <2>1, <2>2, <2>3, <2>4 DEF Takes
  <2> QED
    BY <2>5 DEF r, op
<1> QED
  BY <1>2, <1>3, <1>4, IteratorOps

\* So does that of a loop over values.
LEMMA ValuesStart ==
  ASSUME db \subseteq Records, pos \in db, NEW i \in DOMAIN ValuesIterators
  PROVE  LET ops == ValuesIterators[i]
             r   == Find(ops[1], pos)
         IN  Takes(Onward(ops[2]), Promised(db, pos, ops), r, Rest(db, ops[2], r))
<1> DEFINE ops == ValuesIterators[i]
           op == ops[2]
           r == Find(ops[1], pos)
           dups == {s \in db : s[1] = pos[1]}
<1>1. op \in DupOps /\ op \in MoveOps /\ op \notin KeyOps
  BY IteratorOps DEF MoveOps, KeyOps, DupOps
<1>2. pos \in Records /\ pos # NoRecord
  BY RecordNumbers
<1>3. CASE ops[1] = IF Onward(op) THEN "FIRST_DUP" ELSE "LAST_DUP"
  <2>1. Promised(db, pos, ops) = dups
    BY <1>3 DEF Promised
  <2>2. r = First(Onward(op), dups)
    <3>1. Find("FIRST_DUP", pos) = Least(dups) /\ Find("LAST_DUP", pos) = Greatest(dups)
      BY DEF Find
    <3> QED
      BY <1>3, <3>1 DEF First
  <2>3. Onward(op) \in BOOLEAN /\ dups \in SUBSET Records /\ dups # {}
    BY DEF Onward
  <2>4. r \in dups /\ \A s \in dups : s = r \/ Ahead(Onward(op), r, s)
    BY <2>2, <2>3, FirstIs
  <2>5. r \in Records /\ r # NoRecord /\ r[1] = pos[1]
    BY <2>4, RecordNumbers
  <2>6. Rest(db, op, r) = {s \in dups : Ahead(Onward(op), r, s)}
    BY <1>1, <2>5 DEF Rest, Reach
  <2>7. ~Ahead(Onward(op), r, r)
    BY <2>3, <2>5, AheadIsOrder
  <2> HIDE DEF r, op, dups
  <2>8. Takes(Onward(op), Promised(db, pos, ops), r, Rest(db, op, r))
    BY <2>1, <2>3, <2>4, <2>5, <2>6, <2>7 DEF Takes
  <2> QED
    BY <2>8 DEF r, op
<1>4. CASE ops[1] = op
  <2>1. Promised(db, pos, ops) = Rest(db, op, pos)
    BY <1>1, <1>4 DEF Promised, DupOps
  <2>2. Takes(Onward(op), Rest(db, op, pos), Find(op, pos), Rest(db, op, Find(op, pos)))
    BY <1>1, <1>2, RestStep
  <2> QED
    BY <1>4, <2>1, <2>2
<1>5. CASE ops[1] = "GET_CURRENT"
  <2>1. Promised(db, pos, ops) = {pos} \cup Rest(db, op, pos)
    BY <1>5 DEF Promised
  <2>2. r = pos
    <3>1. Find("GET_CURRENT", pos) = IF pos \in db THEN pos ELSE Least({s \in db : Before(pos, s)})
      BY DEF Find
    <3> QED
      BY <1>5, <3>1
  <2>3. pos \notin Rest(db, op, pos) /\ \A s \in Rest(db, op, pos) : Ahead(Onward(op), pos, s)
    BY <1>1, <1>2, RestIsAhead
  <2> HIDE DEF r, op
  <2>4. Takes(Onward(op), Promised(db, pos, ops), r, Rest(db, op, r))
    BY <1>2, <2>1, <2>2, <2>3 DEF Takes
  <2> QED
    BY <2>4 DEF r, op
<1> QED
  BY <1>3, <1>4, <1>5, IteratorOps

-----------------------------------------------------------------------------
(* Loops make progress *)

LEMMA AppendYields ==
  ASSUME NEW yielded \in Seq(Records), NEW r \in Records
  PROVE  /\ Append(yielded, r) \in Seq(Records)
         /\ ToSet(Append(yielded, r)) = ToSet(yielded) \cup {r}
         /\ DOMAIN Append(yielded, r) = DOMAIN yielded \cup {Len(yielded) + 1}
         /\ \A j \in DOMAIN yielded : Append(yielded, r)[j] = yielded[j] /\ j < Len(yielded) + 1
         /\ Append(yielded, r)[Len(yielded) + 1] = r
<1>1. Len(yielded) \in Nat /\ DOMAIN yielded = 1..Len(yielded)
  BY LenProperties
<1>2. /\ Append(yielded, r) \in Seq(Records) /\ Len(Append(yielded, r)) = Len(yielded) + 1
      /\ \A j \in 1..Len(yielded) : Append(yielded, r)[j] = yielded[j]
      /\ Append(yielded, r)[Len(yielded) + 1] = r
  BY AppendProperties
<1>3. DOMAIN Append(yielded, r) = 1..Len(yielded) + 1
  BY <1>2, LenProperties
<1>4. ToSet(Append(yielded, r)) = ToSet(yielded) \cup {r}
  BY <1>1, <1>2, <1>3 DEF ToSet
<1> QED
  BY <1>1, <1>2, <1>3, <1>4

\* A loop that yields the first of what is left makes progress.
LEMMA Yields ==
  ASSUME NEW i, NEW forward \in BOOLEAN, i \in ForwardIterators <=> forward,
         NEW yielded \in Seq(Records), NEW promised, NEW left, NEW r \in Records, NEW rest,
         Progress(i, yielded, promised, left),
         Takes(forward, left, r, rest)
  PROVE  Progress(i, Append(yielded, r), promised, rest)
<1> DEFINE longer == Append(yielded, r)
<1>1. r \in left /\ rest = left \ {r} /\ \A s \in left : s = r \/ Goes(i, r, s)
  BY RecordNumbers DEF Takes, Goes, Ahead
<1>2. /\ promised = ToSet(yielded) \cup left
      /\ \A j, k \in DOMAIN yielded : j < k => Goes(i, yielded[j], yielded[k])
      /\ \A s \in ToSet(yielded), t \in left : Goes(i, s, t)
  BY DEF Progress
<1>3. /\ ToSet(longer) = ToSet(yielded) \cup {r}
      /\ DOMAIN longer = DOMAIN yielded \cup {Len(yielded) + 1}
      /\ \A j \in DOMAIN yielded : longer[j] = yielded[j] /\ j < Len(yielded) + 1
      /\ longer[Len(yielded) + 1] = r
  BY AppendYields
<1>4. Len(yielded) \in Nat /\ DOMAIN yielded \subseteq Nat
  BY LenProperties
<1> HIDE DEF longer
<1>5. promised = ToSet(longer) \cup rest
  BY <1>1, <1>2, <1>3
<1>6. ASSUME NEW j \in DOMAIN longer, NEW k \in DOMAIN longer, j < k
      PROVE  Goes(i, longer[j], longer[k])
  <2>1. j \in DOMAIN yielded
    BY <1>3, <1>4, <1>6
  <2>2. CASE k \in DOMAIN yielded
    BY <2>1, <2>2, <1>2, <1>3, <1>6
  <2>3. CASE k = Len(yielded) + 1
    BY <2>1, <2>3, <1>1, <1>2, <1>3 DEF ToSet
  <2> QED
    BY <2>2, <2>3, <1>3
<1>7. \A s \in ToSet(longer), t \in rest : Goes(i, s, t)
  BY <1>1, <1>2, <1>3
<1> QED
  BY <1>5, <1>6, <1>7 DEF Progress, longer

\* Progress is what the properties ask for.
LEMMA ProgressVisits ==
  ASSUME NEW e, NEW ops, NEW yielded, NEW promised,
         Progress(e.iter, yielded, promised, Left(db, pos, e, ops))
  PROVE  Visits(e, yielded, promised)
  BY DEF Progress, Visits, Left

LEMMA NothingYielded ==
  ASSUME NEW i, NEW promised
  PROVE  Progress(i, << >>, promised, promised) /\ Progress(i, << >>, {}, {})
  BY DEF Progress, ToSet

\* What MoveNext makes of an enumerator.
LEMMA MoveNextResult ==
  ASSUME NEW iters, NEW e \in Enumerators(iters), e # NoLoop, NEW ops, NEW n, n = MoveNext(e, ops)
  PROVE  /\ n.iter = e.iter /\ n.isInitialized
         /\ n.current = Find(IF e.isInitialized THEN ops[2] ELSE ops[1], pos)
         /\ n.isCurrent <=> n.current # NoRecord
         /\ n.current \in Records \cup {NoRecord} => n \in Enumerators(iters)
         /\ n # NoLoop
  BY DEF MoveNext, Enumerators, NoLoop

-----------------------------------------------------------------------------
(* Steps outside of loops *)

\* While no loop runs the cursor and the database may change in any way.
LEMMA IdleStep ==
  ASSUME NavigationInv, NoLoops, UNCHANGED loops,
         db' \subseteq Records, pos' \in Records \cup {NoRecord}
  PROVE  NavigationInv'
<1> USE DEF NoLoops, loops, NavigationInv
<1>1. TypeOK'
  BY DEF TypeOK
<1>2. OuterLeft = {} /\ OuterLeft' = {} /\ InnerLeft = {} /\ InnerLeft' = {}
  BY DEF OuterLeft, InnerLeft, Left
<1>3. ~outer.isCurrent /\ ~inner.isCurrent
  BY DEF NoLoop
<1>4. OuterInv' /\ InnerInv'
  BY <1>2, <1>3 DEF OuterInv, InnerInv, Progress
<1> QED
  BY <1>1, <1>4

LEMMA LeastFound ==
  ASSUME NEW R \in SUBSET Records
  PROVE  Least(R) \in R \cup {NoRecord} /\ (R # {} => Least(R) \in R)
<1>1. First(TRUE, R) = Least(R)
  BY DEF First
<1> QED
  BY <1>1, FirstIs

LEMMA MoveStep == \A op \in {"NEXT", "PREV", "NEXT_NODUP", "PREV_NODUP"} :
  NavigationInv /\ Move(op) => NavigationInv'
<1> SUFFICES ASSUME NEW op \in {"NEXT", "PREV", "NEXT_NODUP", "PREV_NODUP"}, NavigationInv, Move(op)
             PROVE  NavigationInv'
  OBVIOUS
<1>1. db \subseteq Records /\ pos \in Records \cup {NoRecord}
  BY DEF NavigationInv, TypeOK
<1>2. op \in MoveOps \ DupOps
  BY DEF MoveOps, KeyOps, DupOps
<1>3. Takes(Onward(op), Rest(db, op, pos), Find(op, pos), Rest(db, op, Find(op, pos)))
  BY <1>1, <1>2, RestStep
<1>4. Rest(db, op, pos) \subseteq Records
  BY <1>1 DEF Rest, Reach, FirstOfKeys, LastOfKeys
<1>5. Find(op, pos) \in Records \cup {NoRecord}
  BY <1>3, <1>4 DEF Takes
<1>6. NoLoops /\ UNCHANGED loops /\ db' = db /\ pos' \in Records \cup {NoRecord}
  BY <1>1, <1>5 DEF Move
<1> QED
  BY <1>1, <1>6, IdleStep

LEMMA MoveToStep == \A op \in {"SET", "SET_RANGE", "GET_BOTH", "GET_BOTH_RANGE"}, r \in Records :
  NavigationInv /\ MoveTo(op, r) => NavigationInv'
<1> SUFFICES ASSUME NEW op \in {"SET", "SET_RANGE", "GET_BOTH", "GET_BOTH_RANGE"}, NEW r \in Records,
                    NavigationInv, MoveTo(op, r)
             PROVE  NavigationInv'
  OBVIOUS
<1>1. db \subseteq Records
  BY DEF NavigationInv, TypeOK
<1>2. \E R \in SUBSET Records : Search(op, r) = Least(R)
  <2>1. /\ Search("SET", r) = Least({s \in db : s[1] = r[1]})
        /\ Search("SET_RANGE", r) = Least({s \in db : s[1] >= r[1]})
        /\ Search("GET_BOTH", r) = Least(db \cap {r})
        /\ Search("GET_BOTH_RANGE", r) = Least({s \in db : s[1] = r[1] /\ s[2] >= r[2]})
    BY DEF Search
  <2>2. /\ {s \in db : s[1] = r[1]} \in SUBSET Records
        /\ {s \in db : s[1] >= r[1]} \in SUBSET Records
        /\ db \cap {r} \in SUBSET Records
        /\ {s \in db : s[1] = r[1] /\ s[2] >= r[2]} \in SUBSET Records
    BY <1>1
  <2> QED
    BY <2>1, <2>2
<1>3. Search(op, r) \in Records \cup {NoRecord}
  BY <1>2, LeastFound
<1>4. NoLoops /\ UNCHANGED loops /\ db' = db /\ pos' \in Records \cup {NoRecord}
  BY <1>3 DEF MoveTo
<1> QED
  BY <1>1, <1>4, IdleStep

LEMMA PutStep == \A r \in Records, option \in {"None", "NoOverwrite", "NoDuplicateData"} :
  NavigationInv /\ Put(r, option) => NavigationInv'
<1> SUFFICES ASSUME NEW r \in Records, NEW option \in {"None", "NoOverwrite", "NoDuplicateData"},
                    NavigationInv, Put(r, option)
             PROVE  NavigationInv'
  OBVIOUS
<1>1. db \subseteq Records
  BY DEF NavigationInv, TypeOK
<1>2. PICK there \in SUBSET Records :
        IF there = {} THEN db' = db \cup {r} /\ pos' = r ELSE pos' = Least(there) /\ UNCHANGED db
  <2>1. CASE option = "NoOverwrite"
    <3>1. {s \in db : s[1] = r[1]} \in SUBSET Records
      BY <1>1
    <3> QED
      BY <2>1, <3>1, Zenon DEF Put
  <2>2. CASE option = "NoDuplicateData"
    <3>1. db \cap {r} \in SUBSET Records
      BY <1>1
    <3> QED
      BY <2>2, <3>1, Zenon DEF Put
  <2>3. CASE option = "None"
    <3>1. {} \in SUBSET Records
      OBVIOUS
    <3> QED
      BY <2>3, <3>1, Zenon DEF Put
  <2> QED
    BY <2>1, <2>2, <2>3
<1>3. NoLoops /\ UNCHANGED loops
  BY DEF Put
<1>4. db' \subseteq Records /\ pos' \in Records
  BY <1>1, <1>2, LeastFound
<1> QED
  BY <1>3, <1>4, IdleStep

-----------------------------------------------------------------------------
(* Steps of loops *)

\* An iteration by key does not miss what the body deletes of its key; one over records misses it.
LEMMA RestAfterDelete ==
  ASSUME NEW D, NEW E \in SUBSET D, NEW op \in MoveOps, NEW p \in Records,
         op \in KeyOps => \A s \in D \ E : s[1] = p[1]
  PROVE  Rest(E, op, p) = Rest(D, op, p) \cap E
<1>1. Reach(E, op, p) = Reach(D, op, p) \cap E
  BY DEF Reach
<1>2. CASE op \notin KeyOps
  BY <1>1, <1>2 DEF Rest
<1>3. CASE op \in KeyOps
  <2>1. \A s \in Reach(D, op, p) : s \in E
    BY <1>3, RecordNumbers DEF Reach
  <2>2. Reach(E, op, p) = Reach(D, op, p)
    BY <1>1, <2>1
  <2>3. Rest(D, op, p) \subseteq Reach(D, op, p)
    BY DEF Rest, FirstOfKeys, LastOfKeys
  <2>4. Rest(E, op, p) = Rest(D, op, p)
    BY <2>2 DEF Rest
  <2> QED
    BY <2>1, <2>3, <2>4
<1> QED
  BY <1>2, <1>3

\* What Delete takes from the database is gone from what is left to the loop, and nothing else.
LEMMA DeleteLeft ==
  ASSUME NavigationInv, NEW all \in BOOLEAN, Delete(all)
  PROVE  OuterLeft' = OuterLeft \cap db'
<1> DEFINE op == OuterOps[2]
<1>1. /\ db \subseteq Records /\ pos \in Records /\ outer' = outer /\ pos' = pos
      /\ db' \subseteq db /\ \A s \in db \ db' : s[1] = pos[1]
  BY DEF Delete, NavigationInv, TypeOK
<1>2. CASE outer = NoLoop
  BY <1>1, <1>2 DEF OuterLeft, Left
<1>3. CASE outer # NoLoop
  <2>1. outer.isCurrent /\ outer.isInitialized /\ pos = outer.current
    BY <1>3 DEF Delete, NavigationInv, OuterInv
  <2>2. op \in MoveOps
    BY <1>3, IteratorOps DEF OuterOps, MoveOps, NavigationInv, TypeOK, Enumerators
  <2>3. OuterLeft = Rest(db, op, pos) /\ OuterLeft' = Rest(db', op, pos)
    BY <1>1, <1>3, <2>1 DEF OuterLeft, OuterOps, Left, Finished
  <2>4. Rest(db', op, pos) = Rest(db, op, pos) \cap db'
    BY <1>1, <2>2, RestAfterDelete
  <2> QED
    BY <2>3, <2>4
<1> QED
  BY <1>2, <1>3

LEMMA DeleteStep == \A all \in BOOLEAN : NavigationInv /\ Delete(all) => NavigationInv'
<1> SUFFICES ASSUME NEW all \in BOOLEAN, NavigationInv, Delete(all)
             PROVE  NavigationInv'
  OBVIOUS
<1>1. /\ db \subseteq Records /\ pos \in Records /\ inner = NoLoop /\ inner' = NoLoop
      /\ outer' = outer /\ pos' = pos /\ seen' = seen
      /\ innerSeen' = innerSeen /\ innerGoal' = innerGoal
      /\ db' \subseteq db /\ \A s \in db \ db' : s[1] = pos[1]
      /\ goal' = {r \in goal : r \in db' \/ r \in ToSet(seen)}
  BY DEF Delete, NavigationInv, TypeOK
<1>2. TypeOK'
  BY <1>1 DEF NavigationInv, TypeOK
<1>3. InnerInv'
  BY <1>1 DEF NavigationInv, InnerInv, InnerLeft, Left, NoLoop
<1>4. OuterLeft' = OuterLeft \cap db'
  BY DeleteLeft
<1>5. Progress(outer.iter, seen, goal', OuterLeft')
  BY <1>1, <1>4 DEF NavigationInv, OuterInv, Progress
<1>6. outer # NoLoop => outer.isCurrent
  BY DEF Delete
<1> QED
  BY <1>1, <1>2, <1>3, <1>5, <1>6 DEF NavigationInv, OuterInv, OuterOps

LEMMA PromisedRecords ==
  ASSUME db \subseteq Records, NEW p, NEW ops, ops[1] = "GET_CURRENT" => p \in db
  PROVE  Promised(db, p, ops) \subseteq Records
<1>1. \A o, q : Rest(db, o, q) \subseteq db
  BY DEF Rest, Reach, FirstOfKeys, LastOfKeys
<1> QED
  BY <1>1 DEF Promised

LEMMA ForeachStep == \A i \in DOMAIN ItemsIterators : NavigationInv /\ Foreach(i) => NavigationInv'
<1> SUFFICES ASSUME NEW i \in DOMAIN ItemsIterators, NavigationInv, Foreach(i)
             PROVE  NavigationInv'
  OBVIOUS
<1> USE DEF NavigationInv
<1>1. /\ NoLoops /\ inner' = inner /\ db' = db /\ pos' = pos
      /\ innerSeen' = innerSeen /\ innerGoal' = innerGoal /\ seen' = << >>
      /\ ItemsIterators[i][1] = "GET_CURRENT" => pos \in db
      /\ db \subseteq Records /\ pos \in Records \cup {NoRecord}
  BY DEF Foreach, TypeOK
<1>2. /\ outer' # NoLoop /\ outer'.iter = i /\ ~outer'.isInitialized /\ ~outer'.isCurrent
      /\ outer'.current = NoRecord /\ outer' \in Enumerators(ItemsIterators)
  <2>1. outer' = [NoLoop EXCEPT !.iter = i] /\ i # "none"
    BY ItemsDomain DEF Foreach
  <2> QED
    BY <2>1 DEF NoLoop, Enumerators
<1>3. goal' = Promised(db, pos, ItemsIterators[i])
  BY <1>1, PromiseIs DEF Foreach
<1>4. goal' = OuterLeft'
  BY <1>1, <1>2, <1>3 DEF OuterLeft, OuterOps, Left, Finished
<1>5. goal' \subseteq Records
  BY <1>1, <1>3, PromisedRecords
<1>6. TypeOK'
  BY <1>1, <1>2, <1>5, EmptySeq DEF TypeOK
<1>7. Progress(i, << >>, goal', goal')
  BY NothingYielded
<1>8. OuterInv'
  BY <1>1, <1>2, <1>4, <1>7 DEF OuterInv, OuterOps
<1>9. InnerInv'
  BY <1>1 DEF InnerInv, InnerLeft, Left, NoLoops, NoLoop
<1> QED
  BY <1>6, <1>8, <1>9

LEMMA ForeachValueStep ==
  \A i \in DOMAIN ValuesIterators : NavigationInv /\ ForeachValue(i) => NavigationInv'
<1> SUFFICES ASSUME NEW i \in DOMAIN ValuesIterators, NavigationInv, ForeachValue(i)
             PROVE  NavigationInv'
  OBVIOUS
<1> USE DEF NavigationInv
<1>1. /\ inner = NoLoop /\ outer' = outer /\ db' = db /\ pos' = pos
      /\ seen' = seen /\ goal' = goal /\ innerSeen' = << >>
      /\ pos \in db /\ db \subseteq Records
      /\ outer # NoLoop => outer.isCurrent /\ OuterOps[2] \in KeyOps
  BY DEF ForeachValue, TypeOK, OuterOps, KeyOps
<1>2. /\ inner' # NoLoop /\ inner'.iter = i /\ ~inner'.isInitialized /\ ~inner'.isCurrent
      /\ inner'.current = NoRecord /\ inner' \in Enumerators(ValuesIterators)
  <2>1. inner' = [NoLoop EXCEPT !.iter = i] /\ i # "none"
    BY ValuesDomain DEF ForeachValue
  <2> QED
    BY <2>1 DEF NoLoop, Enumerators
<1>3. innerGoal' = Promised(db, pos, ValuesIterators[i])
  BY <1>1, ValuesPromiseIs DEF ForeachValue
<1>4. innerGoal' = InnerLeft'
  BY <1>1, <1>2, <1>3 DEF InnerLeft, InnerOps, Left, Finished
<1>5. innerGoal' \subseteq Records
  BY <1>1, <1>3, PromisedRecords
<1>6. TypeOK'
  BY <1>1, <1>2, <1>5, EmptySeq DEF TypeOK
<1>7. Progress(i, << >>, innerGoal', innerGoal')
  BY NothingYielded
<1>8. InnerInv'
  BY <1>1, <1>2, <1>4, <1>7 DEF InnerInv, OuterOps
<1>9. OuterLeft' = OuterLeft
  BY <1>1 DEF OuterLeft, OuterOps
<1>10. OuterInv'
  BY <1>1, <1>9 DEF OuterInv, OuterOps
<1> QED
  BY <1>6, <1>8, <1>10

\* The MoveNext of the outer loop takes the first record that is left, wherever in its key the
\* loops over values in its body have moved the cursor.
LEMMA OuterTakes ==
  ASSUME NavigationInv, outer # NoLoop, outer.isInitialized => outer.isCurrent
  PROVE  LET r == MoveNext(outer, OuterOps).current
         IN  Takes(Onward(OuterOps[2]), OuterLeft, r, Rest(db, OuterOps[2], r))
<1> DEFINE op == OuterOps[2]
           r == Find(IF outer.isInitialized THEN OuterOps[2] ELSE OuterOps[1], pos)
<1> USE DEF NavigationInv
<1>1. /\ db \subseteq Records /\ pos \in Records \cup {NoRecord}
      /\ outer \in Enumerators(ItemsIterators) /\ outer.iter \in DOMAIN ItemsIterators
      /\ outer.isCurrent => outer.current \in Records
  BY DEF TypeOK, Enumerators
<1>2. MoveNext(outer, OuterOps).current = r
  BY <1>1, MoveNextResult
<1>3. CASE ~outer.isInitialized
  <2>1. OuterLeft = Promised(db, pos, OuterOps)
    BY <1>3 DEF OuterLeft, Left, Finished
  <2>2. OuterOps[1] = "GET_CURRENT" => pos \in db
    BY <1>3 DEF OuterInv
  <2>3. r = Find(OuterOps[1], pos)
    BY <1>3
  <2> HIDE DEF r
  <2>4. Takes(Onward(op), OuterLeft, r, Rest(db, op, r))
    BY <1>1, <2>1, <2>2, <2>3, ItemsStart DEF OuterOps
  <2> QED
    BY <1>2, <2>4
<1>4. CASE outer.isInitialized
  <2> DEFINE c == outer.current
  <2>1. /\ outer.isCurrent /\ c \in Records /\ c # NoRecord
        /\ pos \in Records /\ pos # NoRecord
    BY <1>1, <1>4, RecordNumbers DEF OuterInv
  <2>2. OuterLeft = Rest(db, op, c)
    BY <1>4, <2>1 DEF OuterLeft, Left, Finished
  <2>3. op \in MoveOps \ DupOps
    BY <1>1, IteratorOps DEF OuterOps, MoveOps, KeyOps, DupOps
  <2>4. Reach(db, op, pos) = Reach(db, op, c)
    <3>1. CASE pos = c
      BY <3>1
    <3>2. CASE op \in KeyOps
      <4>1. pos[1] = c[1]
        BY <2>1 DEF OuterInv
      <4>2. \A s \in db : s[1] # c[1] =>
              (Ahead(Onward(op), pos, s) <=> Ahead(Onward(op), c, s))
        BY <1>1, <2>1, <4>1, RecordNumbers DEF Ahead, Before
      <4>3. \A s \in db : s \in Reach(db, op, pos) <=> s \in Reach(db, op, c)
        BY <2>1, <2>3, <3>2, <4>1, <4>2 DEF Reach
      <4>4. Reach(db, op, pos) \subseteq db /\ Reach(db, op, c) \subseteq db
        BY DEF Reach
      <4> QED
        BY <4>3, <4>4
    <3> QED
      BY <2>1, <3>1, <3>2 DEF OuterInv
  <2>5. Find(op, pos) = Find(op, c)
    BY <1>1, <2>1, <2>3, <2>4, FindIsFirst
  <2>6. Takes(Onward(op), Rest(db, op, c), Find(op, c), Rest(db, op, Find(op, c)))
    BY <1>1, <2>1, <2>3, RestStep
  <2>7. r = Find(op, c)
    BY <1>4, <2>5
  <2> QED
    BY <1>2, <2>2, <2>6, <2>7
<1> QED
  BY <1>3, <1>4

LEMMA InnerTakes ==
  ASSUME NavigationInv, inner # NoLoop, inner.isInitialized => inner.isCurrent
  PROVE  LET r == MoveNext(inner, InnerOps).current
         IN  Takes(Onward(InnerOps[2]), InnerLeft, r, Rest(db, InnerOps[2], r))
<1> DEFINE op == InnerOps[2]
           r == Find(IF inner.isInitialized THEN InnerOps[2] ELSE InnerOps[1], pos)
<1> USE DEF NavigationInv
<1>1. /\ db \subseteq Records /\ pos \in db /\ pos \in Records /\ pos # NoRecord
      /\ inner \in Enumerators(ValuesIterators) /\ inner.iter \in DOMAIN ValuesIterators
  BY RecordNumbers DEF TypeOK, Enumerators, InnerInv
<1>2. MoveNext(inner, InnerOps).current = r
  BY <1>1, MoveNextResult
<1>3. CASE ~inner.isInitialized
  <2>1. InnerLeft = Promised(db, pos, InnerOps)
    BY <1>3 DEF InnerLeft, Left, Finished
  <2>2. r = Find(InnerOps[1], pos)
    BY <1>3
  <2> HIDE DEF r
  <2>3. Takes(Onward(op), InnerLeft, r, Rest(db, op, r))
    BY <1>1, <2>1, <2>2, ValuesStart DEF InnerOps
  <2> QED
    BY <1>2, <2>3
<1>4. CASE inner.isInitialized
  <2>1. inner.isCurrent /\ inner.current = pos
    BY <1>4 DEF InnerInv
  <2>2. InnerLeft = Rest(db, op, pos)
    BY <1>4, <2>1 DEF InnerLeft, Left, Finished
  <2>3. op \in MoveOps
    BY <1>1, IteratorOps DEF InnerOps, MoveOps, KeyOps, DupOps
  <2>4. Takes(Onward(op), Rest(db, op, pos), Find(op, pos), Rest(db, op, Find(op, pos)))
    BY <1>1, <2>3, RestStep
  <2>5. r = Find(op, pos)
    BY <1>4
  <2> QED
    BY <1>2, <2>2, <2>4, <2>5
<1> QED
  BY <1>3, <1>4

\* What a round of the foreach makes of its enumerator and of what is left.
LEMMA MoveOuterYields ==
  ASSUME NavigationInv, MoveOuter
  PROVE  /\ outer'.iter = outer.iter /\ outer'.isInitialized /\ outer' # NoLoop
         /\ outer' \in Enumerators(ItemsIterators)
         /\ outer'.current \in Records \cup {NoRecord}
         /\ outer'.isCurrent <=> outer'.current # NoRecord
         /\ OuterOps' = OuterOps
         /\ OuterLeft' = IF outer'.current = NoRecord THEN {}
                         ELSE Rest(db, OuterOps[2], outer'.current)
         /\ Takes(Onward(OuterOps[2]), OuterLeft, outer'.current, OuterLeft')
<1> USE DEF NavigationInv
<1> DEFINE n == MoveNext(outer, OuterOps)
           r == n.current
           op == OuterOps[2]
<1>1. outer # NoLoop /\ (outer.isInitialized => outer.isCurrent) /\ outer' = n /\ db' = db
  BY DEF MoveOuter, OuterOps
<1>2. outer \in Enumerators(ItemsIterators) /\ goal \subseteq Records
  BY <1>1 DEF TypeOK
<1>3. Takes(Onward(op), OuterLeft, r, Rest(db, op, r))
  BY <1>1, OuterTakes
<1>4. r \in Records \cup {NoRecord}
  BY <1>2, <1>3 DEF Takes, OuterInv, Progress
<1>5. /\ n.iter = outer.iter /\ n.isInitialized /\ n \in Enumerators(ItemsIterators) /\ n # NoLoop
      /\ n.isCurrent <=> r # NoRecord
  <2>1. n = MoveNext(outer, OuterOps)
    OBVIOUS
  <2> HIDE DEF n
  <2>2. outer \in Enumerators(ItemsIterators) /\ outer # NoLoop
    BY <1>1, <1>2
  <2>3. /\ n.iter = outer.iter /\ n.isInitialized /\ n # NoLoop
        /\ n.isCurrent <=> r # NoRecord
        /\ r \in Records \cup {NoRecord} => n \in Enumerators(ItemsIterators)
    BY <2>1, <2>2 DEF MoveNext, Enumerators, NoLoop
  <2> QED
    BY <1>4, <2>3
<1> HIDE DEF n
<1>6. OuterOps' = OuterOps /\ OuterLeft' = IF r = NoRecord THEN {} ELSE Rest(db, op, r)
  BY <1>1, <1>5 DEF OuterLeft, OuterOps, Left, Finished
<1>7. Takes(Onward(op), OuterLeft, r, OuterLeft')
  BY <1>3, <1>6 DEF Takes
<1> QED
  BY <1>1, <1>4, <1>5, <1>6, <1>7

LEMMA MoveOuterStep == NavigationInv /\ MoveOuter => NavigationInv'
<1> SUFFICES ASSUME NavigationInv, MoveOuter
             PROVE  NavigationInv'
  OBVIOUS
<1> USE DEF NavigationInv
<1> DEFINE r == outer'.current
           op == OuterOps[2]
<1>1. /\ outer # NoLoop /\ inner = NoLoop
      /\ db' = db /\ inner' = inner /\ goal' = goal
      /\ innerSeen' = innerSeen /\ innerGoal' = innerGoal
      /\ pos' = IF outer'.isCurrent THEN r ELSE pos
      /\ seen' = IF outer'.isCurrent THEN Append(seen, r) ELSE seen
  BY DEF MoveOuter
<1>2. /\ db \subseteq Records /\ pos \in Records \cup {NoRecord} /\ seen \in Seq(Records)
      /\ outer.iter \in DOMAIN ItemsIterators
  BY <1>1 DEF TypeOK, Enumerators
<1>3. /\ Takes(Onward(op), OuterLeft, r, OuterLeft') /\ OuterOps' = OuterOps
      /\ OuterLeft' = IF r = NoRecord THEN {} ELSE Rest(db, op, r)
  BY MoveOuterYields
<1>4. Progress(outer.iter, seen, goal, OuterLeft)
  BY DEF OuterInv
<1>5. /\ outer'.iter = outer.iter /\ outer'.isInitialized /\ outer' \in Enumerators(ItemsIterators)
      /\ outer'.isCurrent <=> r # NoRecord
      /\ r \in Records \cup {NoRecord}
  BY MoveOuterYields
<1> HIDE DEF r
<1>6. InnerInv'
  BY <1>1 DEF InnerInv, InnerLeft, Left, NoLoop
<1>7. CASE r = NoRecord
  <2>1. OuterLeft = {} /\ OuterLeft' = {}
    BY <1>3, <1>7 DEF Takes
  <2>2. TypeOK'
    BY <1>1, <1>5, <1>7 DEF TypeOK, r
  <2>3. OuterInv'
    BY <1>1, <1>4, <1>5, <1>7, <2>1 DEF OuterInv, r
  <2> QED
    BY <1>6, <2>2, <2>3
<1>8. CASE r # NoRecord
  <2>1. r \in Records
    BY <1>5, <1>8
  <2>2. Onward(op) \in BOOLEAN /\ (outer.iter \in ForwardIterators <=> Onward(op))
    BY <1>2, IteratorOps DEF Onward, OuterOps
  <2>3. OuterLeft' = Rest(db, op, r)
    BY <1>3, <1>8
  <2>4. Progress(outer.iter, Append(seen, r), goal, OuterLeft')
    BY <1>2, <1>3, <1>4, <2>1, <2>2, Yields
  <2>5. TypeOK'
    BY <1>1, <1>5, <1>8, <2>1, AppendYields DEF TypeOK, r
  <2>6. OuterInv'
    BY <1>1, <1>3, <1>5, <1>8, <2>4 DEF OuterInv, r
  <2> QED
    BY <1>6, <2>5, <2>6
<1> QED
  BY <1>7, <1>8

\* A loop over values does not leave the key.
LEMMA InnerStaysOnKey ==
  ASSUME NavigationInv, inner # NoLoop
  PROVE  \A r \in InnerLeft : r \in db /\ r[1] = pos[1]
<1> DEFINE op == InnerOps[2]
<1>1. inner.iter \in DOMAIN ValuesIterators /\ pos \in db /\ op \in DupOps /\ op \notin KeyOps
  BY IteratorOps DEF NavigationInv, TypeOK, Enumerators, InnerInv, InnerOps, DupOps, KeyOps
<1>2. \A r \in Rest(db, op, pos) : r \in db /\ r[1] = pos[1]
  BY <1>1 DEF Rest, Reach
<1>3. InnerOps[1] \notin {"FIRST", "LAST"}
  BY <1>1, IteratorOps DEF InnerOps, DupOps
<1>4. \A r \in Promised(db, pos, InnerOps) : r \in db /\ r[1] = pos[1]
  BY <1>1, <1>2, <1>3 DEF Promised
<1>5. inner.isInitialized /\ ~Finished(inner) => inner.current = pos
  BY DEF Finished, NavigationInv, InnerInv
<1> QED
  BY <1>2, <1>4, <1>5 DEF InnerLeft, Left

\* What a round of the foreach over values makes of its enumerator, of what is left to it, and of
\* what is left to the loop around it.
LEMMA MoveInnerYields ==
  ASSUME NavigationInv, MoveInner
  PROVE  /\ inner'.iter = inner.iter /\ inner'.isInitialized /\ inner' # NoLoop
         /\ inner' \in Enumerators(ValuesIterators)
         /\ inner'.current # NoRecord =>
              inner'.current \in db /\ inner'.current \in Records /\ inner'.current[1] = pos[1]
         /\ inner'.isCurrent <=> inner'.current # NoRecord
         /\ InnerOps' = InnerOps
         /\ InnerLeft' = IF inner'.current = NoRecord THEN {}
                         ELSE Rest(db, InnerOps[2], inner'.current)
         /\ Takes(Onward(InnerOps[2]), InnerLeft, inner'.current, InnerLeft')
         /\ OuterOps' = OuterOps /\ OuterLeft' = OuterLeft
<1> USE DEF NavigationInv
<1> DEFINE n == MoveNext(inner, InnerOps)
           r == n.current
           op == InnerOps[2]
<1>1. /\ inner # NoLoop /\ (inner.isInitialized => inner.isCurrent)
      /\ inner' = n /\ db' = db /\ outer' = outer
  BY DEF MoveInner, InnerOps
<1>2. /\ db \subseteq Records
      /\ inner \in Enumerators(ValuesIterators)
      /\ outer # NoLoop => outer.isCurrent
  BY <1>1 DEF TypeOK, InnerInv
<1>3. Takes(Onward(op), InnerLeft, r, Rest(db, op, r))
  BY <1>1, InnerTakes
<1>4. r # NoRecord => r \in db /\ r \in Records /\ r[1] = pos[1]
  BY <1>1, <1>2, <1>3, InnerStaysOnKey DEF Takes
<1>5. /\ n.iter = inner.iter /\ n.isInitialized /\ n \in Enumerators(ValuesIterators) /\ n # NoLoop
      /\ n.isCurrent <=> r # NoRecord
  <2>1. n = MoveNext(inner, InnerOps)
    OBVIOUS
  <2> HIDE DEF n
  <2>2. inner \in Enumerators(ValuesIterators) /\ inner # NoLoop
    BY <1>1, <1>2
  <2>3. /\ n.iter = inner.iter /\ n.isInitialized /\ n # NoLoop
        /\ n.isCurrent <=> r # NoRecord
        /\ r \in Records \cup {NoRecord} => n \in Enumerators(ValuesIterators)
    BY <2>1, <2>2 DEF MoveNext, Enumerators, NoLoop
  <2> QED
    BY <1>4, <2>3
<1> HIDE DEF n
<1>6. InnerOps' = InnerOps /\ InnerLeft' = IF r = NoRecord THEN {} ELSE Rest(db, op, r)
  BY <1>1, <1>5 DEF InnerLeft, InnerOps, Left, Finished
<1>7. Takes(Onward(op), InnerLeft, r, InnerLeft')
  BY <1>3, <1>6 DEF Takes
<1>8. OuterOps' = OuterOps /\ OuterLeft' = OuterLeft
  <2>1. outer # NoLoop => outer.isInitialized
    BY <1>2 DEF OuterInv
  <2> QED
    BY <1>1, <2>1 DEF OuterLeft, OuterOps, Left
<1> QED
  BY <1>1, <1>4, <1>5, <1>6, <1>7, <1>8

LEMMA MoveInnerStep == NavigationInv /\ MoveInner => NavigationInv'
<1> SUFFICES ASSUME NavigationInv, MoveInner
             PROVE  NavigationInv'
  OBVIOUS
<1> USE DEF NavigationInv
<1> DEFINE r == inner'.current
           op == InnerOps[2]
<1>1. /\ inner # NoLoop
      /\ db' = db /\ outer' = outer /\ goal' = goal /\ seen' = seen /\ innerGoal' = innerGoal
      /\ pos' = IF inner'.isCurrent THEN r ELSE pos
      /\ innerSeen' = IF inner'.isCurrent THEN Append(innerSeen, r) ELSE innerSeen
  BY DEF MoveInner
<1>2. /\ db \subseteq Records /\ pos \in db /\ innerSeen \in Seq(Records)
      /\ inner.iter \in DOMAIN ValuesIterators
      /\ outer # NoLoop => outer.isCurrent /\ OuterOps[2] \in KeyOps
  BY <1>1 DEF TypeOK, Enumerators, InnerInv
<1>3. /\ Takes(Onward(op), InnerLeft, r, InnerLeft') /\ InnerOps' = InnerOps
      /\ InnerLeft' = IF r = NoRecord THEN {} ELSE Rest(db, op, r)
      /\ OuterOps' = OuterOps /\ OuterLeft' = OuterLeft
  BY MoveInnerYields
<1>4. Progress(inner.iter, innerSeen, innerGoal, InnerLeft)
  BY DEF InnerInv
<1>5. /\ inner'.iter = inner.iter /\ inner'.isInitialized /\ inner' \in Enumerators(ValuesIterators)
      /\ inner'.isCurrent <=> r # NoRecord
      /\ r # NoRecord => r \in db /\ r \in Records /\ r[1] = pos[1]
  BY MoveInnerYields
<1> HIDE DEF r
<1>6. pos' \in db /\ pos' \in Records /\ pos' # NoRecord /\ pos'[1] = pos[1]
  BY <1>1, <1>2, <1>5, RecordNumbers
<1>7. OuterInv'
  <2>1. outer.isCurrent => outer # NoLoop
    BY DEF NoLoop
  <2> QED
    BY <1>1, <1>2, <1>3, <1>6, <2>1 DEF OuterInv
<1>8. CASE r = NoRecord
  <2>1. InnerLeft = {} /\ InnerLeft' = {}
    BY <1>3, <1>8 DEF Takes
  <2>2. TypeOK'
    BY <1>1, <1>5, <1>8 DEF TypeOK, r
  <2>3. InnerInv'
    BY <1>1, <1>2, <1>3, <1>4, <1>5, <1>8, <2>1 DEF InnerInv, r
  <2> QED
    BY <1>7, <2>2, <2>3
<1>9. CASE r # NoRecord
  <2>1. Onward(op) \in BOOLEAN /\ (inner.iter \in ForwardIterators <=> Onward(op))
    BY <1>2, IteratorOps DEF Onward, InnerOps
  <2>2. Progress(inner.iter, Append(innerSeen, r), innerGoal, InnerLeft')
    BY <1>2, <1>3, <1>4, <1>5, <1>9, <2>1, Yields
  <2>3. TypeOK'
    BY <1>1, <1>5, <1>6, <1>9, AppendYields DEF TypeOK, r
  <2>4. InnerInv'
    BY <1>1, <1>2, <1>3, <1>5, <1>6, <1>9, <2>2 DEF InnerInv, r
  <2> QED
    BY <1>7, <2>3, <2>4
<1> QED
  BY <1>8, <1>9

LEMMA LeaveStep == NavigationInv /\ (LeaveOuter \/ LeaveInner) => NavigationInv'
<1> USE DEF NavigationInv
<1>1. ASSUME NavigationInv, LeaveOuter PROVE NavigationInv'
  <2>1. TypeOK'
    BY <1>1, EmptySeq DEF LeaveOuter, TypeOK, Enumerators, NoLoop
  <2>2. OuterLeft' = {} /\ Progress("none", << >>, {}, {})
    BY <1>1, NothingYielded DEF LeaveOuter, OuterLeft, Left
  <2>3. OuterInv'
    BY <1>1, <2>2 DEF LeaveOuter, OuterInv, NoLoop
  <2>4. InnerInv'
    BY <1>1 DEF LeaveOuter, InnerInv, InnerLeft, Left, NoLoop
  <2> QED
    BY <2>1, <2>3, <2>4
<1>2. ASSUME NavigationInv, LeaveInner PROVE NavigationInv'
  <2>1. TypeOK'
    BY <1>2, EmptySeq DEF LeaveInner, TypeOK, Enumerators, NoLoop
  <2>2. InnerLeft' = {} /\ Progress("none", << >>, {}, {})
    BY <1>2, NothingYielded DEF LeaveInner, InnerLeft, Left
  <2>3. InnerInv'
    BY <1>2, <2>2 DEF LeaveInner, InnerInv, NoLoop
  <2>4. OuterInv'
    BY <1>2 DEF LeaveInner, OuterInv, OuterLeft, OuterOps
  <2> QED
    BY <2>1, <2>3, <2>4
<1> QED
  BY <1>1, <1>2

-----------------------------------------------------------------------------
(* The loops implement IterationContract. *)

\* A step of each contract, or one it does not see.
LoopSteps == /\ ItemsLoop!Next \/ UNCHANGED ItemsLoop!vars
             /\ ValuesLoop!Next \/ UNCHANGED ValuesLoop!vars

LEMMA ItemsUnseen ==
  ASSUME db' = db, outer' = outer, OuterLeft' = OuterLeft
  PROVE  UNCHANGED ItemsLoop!vars
  BY DEF ItemsLoop!vars

LEMMA ValuesUnseen ==
  ASSUME db' = db, inner' = inner, InnerLeft' = InnerLeft
  PROVE  UNCHANGED ValuesLoop!vars
  BY DEF ValuesLoop!vars

\* A loop that does not run has nothing left.
LEMMA NothingLeft ==
  /\ outer = NoLoop => OuterLeft = {} /\ outer.iter = "none" /\ outer.current = NoRecord
  /\ inner = NoLoop => InnerLeft = {} /\ inner.iter = "none" /\ inner.current = NoRecord
  BY DEF OuterLeft, InnerLeft, Left, NoLoop

LEMMA NothingLeftNext ==
  /\ outer' = NoLoop => OuterLeft' = {} /\ outer'.iter = "none" /\ outer'.current = NoRecord
  /\ inner' = NoLoop => InnerLeft' = {} /\ inner'.iter = "none" /\ inner'.current = NoRecord
  BY DEF OuterLeft, InnerLeft, Left, NoLoop

LEMMA ItemsWrite ==
  ASSUME outer = NoLoop, outer' = NoLoop, db' \subseteq Records
  PROVE  ItemsLoop!Next
  BY NothingLeft, NothingLeftNext DEF ItemsLoop!Next, ItemsLoop!Write

LEMMA ValuesWrite ==
  ASSUME inner = NoLoop, inner' = NoLoop, db' \subseteq Records
  PROVE  ValuesLoop!Next
  BY NothingLeft, NothingLeftNext DEF ValuesLoop!Next, ValuesLoop!Write

\* Outside of loops the database may change.
LEMMA IdleLoops ==
  ASSUME NoLoops, UNCHANGED loops, db' \subseteq Records
  PROVE  LoopSteps
<1>1. outer = NoLoop /\ outer' = NoLoop /\ inner = NoLoop /\ inner' = NoLoop
  BY DEF NoLoops, loops
<1> QED
  BY <1>1, ItemsWrite, ValuesWrite DEF LoopSteps

\* Delete strikes out of a running loop's list what it takes from the database.
LEMMA DeleteLoops ==
  ASSUME NavigationInv, NavigationInv', NEW all \in BOOLEAN, Delete(all)
  PROVE  LoopSteps
<1>1. /\ inner = NoLoop /\ inner' = NoLoop /\ outer' = outer
      /\ db' \subseteq db /\ db' \subseteq Records
      /\ outer # NoLoop => outer.current \in Records
  BY DEF Delete, NavigationInv, TypeOK
<1>2. ValuesLoop!Next
  BY <1>1, ValuesWrite
<1>3. CASE outer = NoLoop
  BY <1>1, <1>2, <1>3, ItemsWrite DEF LoopSteps
<1>4. CASE outer # NoLoop
  <2>1. OuterLeft' = OuterLeft \cap db'
    BY DeleteLeft
  <2>2. outer.current # NoRecord
    BY <1>1, <1>4, RecordNumbers
  <2>3. ItemsLoop!Remove
    BY <1>1, <2>1, <2>2 DEF ItemsLoop!Remove
  <2> QED
    BY <1>2, <2>3 DEF LoopSteps, ItemsLoop!Next
<1> QED
  BY <1>3, <1>4

\* What a loop is to visit is in the database when it starts.
LEMMA StartsWithin ==
  ASSUME NEW p, NEW e, NEW ops, ops[1] = "GET_CURRENT" => p \in db, ~e.isInitialized
  PROVE  Left(db, p, e, ops) \subseteq db
<1>1. \A o, q : Rest(db, o, q) \subseteq db
  BY DEF Rest, Reach, FirstOfKeys, LastOfKeys
<1> QED
  BY <1>1 DEF Promised, Left

LEMMA ForeachLoops ==
  ASSUME NavigationInv, NavigationInv', NEW i \in DOMAIN ItemsIterators, Foreach(i)
  PROVE  LoopSteps
<1>1. /\ outer = NoLoop /\ inner = NoLoop /\ inner' = NoLoop /\ db' = db /\ pos' = pos
      /\ ItemsIterators[i][1] = "GET_CURRENT" => pos \in db
      /\ outer' = [NoLoop EXCEPT !.iter = i]
  BY DEF Foreach, NoLoops
<1>2. /\ outer'.iter = i /\ outer'.current = NoRecord /\ ~outer'.isInitialized
      /\ OuterOps' = ItemsIterators[i]
  BY <1>1 DEF NoLoop, OuterOps
<1>3. OuterLeft' \subseteq db
  BY <1>1, <1>2, StartsWithin DEF OuterLeft
<1>4. ItemsLoop!Start(i)
  BY <1>1, <1>2, <1>3, NothingLeft DEF ItemsLoop!Start
<1>5. i \in DOMAIN OrderOf(ItemsIterators)
  BY DEF OrderOf
<1>6. UNCHANGED ValuesLoop!vars
  BY <1>1, NothingLeft, NothingLeftNext, ValuesUnseen
<1> QED
  BY <1>4, <1>5, <1>6 DEF LoopSteps, ItemsLoop!Next

LEMMA ForeachValueLoops ==
  ASSUME NavigationInv, NavigationInv', NEW i \in DOMAIN ValuesIterators, ForeachValue(i)
  PROVE  LoopSteps
<1>1. /\ inner = NoLoop /\ outer' = outer /\ db' = db /\ pos' = pos /\ pos \in db
      /\ inner' = [NoLoop EXCEPT !.iter = i]
  BY DEF ForeachValue
<1>2. /\ inner'.iter = i /\ inner'.current = NoRecord /\ ~inner'.isInitialized
      /\ InnerOps' = ValuesIterators[i]
  BY <1>1 DEF NoLoop, InnerOps
<1>3. InnerLeft' \subseteq db
  BY <1>1, <1>2, StartsWithin DEF InnerLeft
<1>4. ValuesLoop!Start(i)
  BY <1>1, <1>2, <1>3, NothingLeft DEF ValuesLoop!Start
<1>5. i \in DOMAIN OrderOf(ValuesIterators)
  BY DEF OrderOf
<1>6. OuterLeft' = OuterLeft
  BY <1>1 DEF OuterLeft, OuterOps
<1>7. UNCHANGED ItemsLoop!vars
  BY <1>1, <1>6, ItemsUnseen
<1> QED
  BY <1>4, <1>5, <1>7 DEF LoopSteps, ValuesLoop!Next

\* The first of what is left, in the order of the iterator, comes before the rest of it.
LEMMA FirstInOrder ==
  ASSUME NEW iters, NEW i \in DOMAIN iters, NEW forward \in BOOLEAN, i \in ForwardIterators <=> forward,
         NEW left \in SUBSET Records, NEW r \in left, NEW rest, Takes(forward, left, r, rest)
  PROVE  rest = left \ {r} /\ \A s \in left \ {r} : <<r, s>> \in OrderOf(iters)[i]
<1>1. rest = left \ {r} /\ \A s \in left : s = r \/ Goes(i, r, s)
  BY DEF Takes, Goes, Ahead
<1>2. OrderOf(iters)[i] = {p \in Records \X Records : Goes(i, p[1], p[2])}
  BY DEF OrderOf
<1> QED
  BY <1>1, <1>2

LEMMA MoveOuterLoops ==
  ASSUME NavigationInv, MoveOuter
  PROVE  LoopSteps
<1> DEFINE fw == Onward(OuterOps[2])
<1>1. /\ outer # NoLoop /\ inner = NoLoop /\ inner' = NoLoop /\ db' = db
      /\ outer.iter \in DOMAIN ItemsIterators /\ outer.iter # "none"
  BY ItemsDomain DEF MoveOuter, NavigationInv, TypeOK, Enumerators
<1>2. outer'.iter = outer.iter /\ Takes(fw, OuterLeft, outer'.current, OuterLeft')
  BY MoveOuterYields
<1>3. OuterLeft \subseteq Records
  BY DEF NavigationInv, OuterInv, Progress, TypeOK
<1>4. ASSUME outer'.current = NoRecord PROVE ItemsLoop!Next
  <2>1. OuterLeft = {} /\ OuterLeft' = {}
    BY <1>2, <1>4, MoveOuterYields DEF Takes
  <2>2. ItemsLoop!End
    BY <1>1, <1>2, <1>4, <2>1 DEF ItemsLoop!End
  <2> QED
    BY <2>2 DEF ItemsLoop!Next
<1>5. ASSUME outer'.current # NoRecord PROVE ItemsLoop!Next
  <2>1. PICK r \in OuterLeft : r = outer'.current
    BY <1>2, <1>5 DEF Takes
  <2>2. fw \in BOOLEAN /\ (outer.iter \in ForwardIterators <=> fw)
    BY <1>1, IteratorOps DEF Onward, OuterOps
  <2>3. OuterLeft' = OuterLeft \ {r} /\ \A s \in OuterLeft \ {r} :
          <<r, s>> \in OrderOf(ItemsIterators)[outer.iter]
    <3> HIDE DEF fw
    <3>1. Takes(fw, OuterLeft, r, OuterLeft')
      BY <1>2, <2>1
    <3>2. outer.iter \in DOMAIN ItemsIterators /\ OuterLeft \in SUBSET Records
      BY <1>1, <1>3
    <3> QED
      BY <2>2, <3>1, <3>2, FirstInOrder
  <2>4. ItemsLoop!Yield(r)
    BY <1>1, <1>2, <2>1, <2>3 DEF ItemsLoop!Yield
  <2> QED
    BY <2>4 DEF ItemsLoop!Next
<1>6. UNCHANGED ValuesLoop!vars
  BY <1>1, NothingLeft, NothingLeftNext, ValuesUnseen
<1> QED
  BY <1>4, <1>5, <1>6 DEF LoopSteps

\* A loop over values takes the next of its own list, and the list of the loop around it stays.
LEMMA MoveInnerLoops ==
  ASSUME NavigationInv, MoveInner
  PROVE  LoopSteps
<1> DEFINE fw == Onward(InnerOps[2])
<1>1. /\ inner # NoLoop /\ outer' = outer /\ db' = db
      /\ inner.iter \in DOMAIN ValuesIterators /\ inner.iter # "none"
  BY ValuesDomain DEF MoveInner, NavigationInv, TypeOK, Enumerators
<1>2. inner'.iter = inner.iter /\ Takes(fw, InnerLeft, inner'.current, InnerLeft')
  BY MoveInnerYields
<1>3. InnerLeft \subseteq Records
  BY DEF NavigationInv, InnerInv, Progress, TypeOK
<1>4. ASSUME inner'.current = NoRecord PROVE ValuesLoop!Next
  <2>1. InnerLeft = {} /\ InnerLeft' = {}
    BY <1>2, <1>4, MoveInnerYields DEF Takes
  <2>2. ValuesLoop!End
    BY <1>1, <1>2, <1>4, <2>1 DEF ValuesLoop!End
  <2> QED
    BY <2>2 DEF ValuesLoop!Next
<1>5. ASSUME inner'.current # NoRecord PROVE ValuesLoop!Next
  <2>1. PICK r \in InnerLeft : r = inner'.current
    BY <1>2, <1>5 DEF Takes
  <2>2. fw \in BOOLEAN /\ (inner.iter \in ForwardIterators <=> fw)
    BY <1>1, IteratorOps DEF Onward, InnerOps
  <2>3. InnerLeft' = InnerLeft \ {r} /\ \A s \in InnerLeft \ {r} :
          <<r, s>> \in OrderOf(ValuesIterators)[inner.iter]
    <3> HIDE DEF fw
    <3>1. Takes(fw, InnerLeft, r, InnerLeft')
      BY <1>2, <2>1
    <3>2. inner.iter \in DOMAIN ValuesIterators /\ InnerLeft \in SUBSET Records
      BY <1>1, <1>3
    <3> QED
      BY <2>2, <3>1, <3>2, FirstInOrder
  <2>4. ValuesLoop!Yield(r)
    BY <1>1, <1>2, <2>1, <2>3 DEF ValuesLoop!Yield
  <2> QED
    BY <2>4 DEF ValuesLoop!Next
<1>6. UNCHANGED ItemsLoop!vars
  BY <1>1, MoveInnerYields, ItemsUnseen
<1> QED
  BY <1>4, <1>5, <1>6 DEF LoopSteps

LEMMA LeaveLoops ==
  ASSUME LeaveOuter \/ LeaveInner
  PROVE  LoopSteps
<1>1. CASE LeaveOuter
  <2>1. outer' = NoLoop /\ inner = NoLoop /\ inner' = NoLoop /\ db' = db
    BY <1>1 DEF LeaveOuter
  <2>2. ItemsLoop!Leave
    BY <2>1, NothingLeftNext DEF ItemsLoop!Leave
  <2>3. UNCHANGED ValuesLoop!vars
    BY <2>1, NothingLeft, NothingLeftNext, ValuesUnseen
  <2> QED
    BY <2>2, <2>3 DEF LoopSteps, ItemsLoop!Next
<1>2. CASE LeaveInner
  <2>1. inner' = NoLoop /\ outer' = outer /\ db' = db /\ pos' = pos
    BY <1>2 DEF LeaveInner
  <2>2. ValuesLoop!Leave
    BY <2>1, NothingLeftNext DEF ValuesLoop!Leave
  <2>3. OuterLeft' = OuterLeft
    BY <2>1 DEF OuterLeft, OuterOps
  <2> QED
    BY <2>1, <2>2, <2>3, ItemsUnseen DEF LoopSteps, ValuesLoop!Next
<1> QED
  BY <1>1, <1>2

LEMMA UnchangedLoops ==
  ASSUME UNCHANGED <<db, pos, outer, inner>>
  PROVE  LoopSteps
<1>1. OuterLeft' = OuterLeft /\ InnerLeft' = InnerLeft
  BY DEF OuterLeft, InnerLeft, OuterOps, InnerOps
<1> QED
  BY <1>1, ItemsUnseen, ValuesUnseen DEF LoopSteps

LEMMA NavigationLoops == NavigationInv /\ NavigationInv' /\ [Next]_vars => LoopSteps
<1> SUFFICES ASSUME NavigationInv, NavigationInv', [Next]_vars PROVE LoopSteps
  OBVIOUS
<1>1. db' \subseteq Records
  BY DEF NavigationInv, TypeOK
<1>2. ASSUME NEW op, Move(op) PROVE LoopSteps
  BY <1>1, <1>2, IdleLoops DEF Move
<1>3. ASSUME NEW op, NEW r, MoveTo(op, r) PROVE LoopSteps
  BY <1>1, <1>3, IdleLoops DEF MoveTo
<1>4. ASSUME NEW r, NEW option, Put(r, option) PROVE LoopSteps
  BY <1>1, <1>4, IdleLoops DEF Put
<1>5. CASE UNCHANGED vars
  BY <1>5, UnchangedLoops DEF vars
<1> QED
  BY <1>2, <1>3, <1>4, <1>5, DeleteLoops, ForeachLoops, ForeachValueLoops, MoveOuterLoops,
     MoveInnerLoops, LeaveLoops DEF Next

LEMMA LoopsInit == Init => ItemsLoop!Init /\ ValuesLoop!Init
<1> SUFFICES ASSUME Init PROVE ItemsLoop!Init /\ ValuesLoop!Init
  OBVIOUS
<1>1. outer = NoLoop /\ inner = NoLoop /\ db \subseteq Records
  BY DEF Init
<1> QED
  BY <1>1, NothingLeft DEF ItemsLoop!Init, ValuesLoop!Init

-----------------------------------------------------------------------------
(* Each round takes something off what is left. *)

LEMMA MoveOuterShorter ==
  ASSUME NavigationInv, MoveOuter
  PROVE  GetsShorter(outer, outer', OuterLeft, OuterLeft')
<1>1. CASE outer'.current = NoRecord
  <2>1. OuterLeft' = {} /\ ~outer'.isCurrent
    BY <1>1, MoveOuterYields
  <2> QED
    BY <2>1 DEF GetsShorter
<1>2. CASE outer'.current # NoRecord
  <2>1. outer'.current \in OuterLeft /\ OuterLeft' = OuterLeft \ {outer'.current}
    BY <1>2, MoveOuterYields DEF Takes
  <2> QED
    BY <2>1 DEF GetsShorter
<1> QED
  BY <1>1, <1>2

LEMMA MoveInnerShorter ==
  ASSUME NavigationInv, MoveInner
  PROVE  /\ GetsShorter(inner, inner', InnerLeft, InnerLeft')
         /\ OuterLeft' = OuterLeft
<1>1. CASE inner'.current = NoRecord
  <2>1. InnerLeft' = {} /\ ~inner'.isCurrent
    BY <1>1, MoveInnerYields
  <2> QED
    BY <2>1, MoveInnerYields DEF GetsShorter
<1>2. CASE inner'.current # NoRecord
  <2>1. inner'.current \in InnerLeft /\ InnerLeft' = InnerLeft \ {inner'.current}
    BY <1>2, MoveInnerYields DEF Takes
  <2> QED
    BY <2>1, MoveInnerYields DEF GetsShorter
<1> QED
  BY <1>1, <1>2

\* Both loops at once.
Shorter == /\ GetsShorter(outer, outer', OuterLeft, OuterLeft')
           /\ GetsShorter(inner, inner', InnerLeft, InnerLeft')

LEMMA SameLoops ==
  ASSUME UNCHANGED <<db, pos, outer, inner>>
  PROVE  Shorter
  BY DEF Shorter, GetsShorter, OuterLeft, InnerLeft, OuterOps, InnerOps

LEMMA NavigationShorter ==
  ASSUME NavigationInv, [Next]_vars
  PROVE  Shorter
<1>1. ASSUME NoLoops
      PROVE  Shorter
  BY <1>1 DEF NoLoops, Shorter, GetsShorter
<1>2. ASSUME NEW all \in BOOLEAN, Delete(all)
      PROVE  Shorter
  <2>1. inner = NoLoop /\ outer' = outer
    BY <1>2 DEF Delete
  <2>2. OuterLeft' \subseteq OuterLeft
    BY <1>2, DeleteLeft
  <2> QED
    BY <2>1, <2>2 DEF Shorter, GetsShorter
<1>3. ASSUME NEW i, ForeachValue(i)
      PROVE  Shorter
  <2>1. inner = NoLoop /\ outer' = outer /\ OuterLeft' = OuterLeft
    BY <1>3 DEF ForeachValue, OuterLeft, OuterOps
  <2> QED
    BY <2>1 DEF Shorter, GetsShorter
<1>4. CASE MoveOuter
  <2>1. inner = NoLoop
    BY <1>4 DEF MoveOuter
  <2> QED
    BY <1>4, <2>1, MoveOuterShorter DEF Shorter, GetsShorter
<1>5. CASE MoveInner
  <2>1. outer' = outer
    BY <1>5 DEF MoveInner
  <2> QED
    BY <1>5, <2>1, MoveInnerShorter DEF Shorter, GetsShorter
<1>6. CASE LeaveOuter
  BY <1>6 DEF LeaveOuter, Shorter, GetsShorter
<1>7. CASE LeaveInner
  <2>1. inner' = NoLoop /\ outer' = outer /\ OuterLeft' = OuterLeft
    BY <1>7 DEF LeaveInner, OuterLeft, OuterOps
  <2> QED
    BY <2>1 DEF Shorter, GetsShorter
<1>8. CASE UNCHANGED vars
  BY <1>8, SameLoops DEF vars
<1> QED
  BY <1>1, <1>2, <1>3, <1>4, <1>5, <1>6, <1>7, <1>8 DEF Next, Move, MoveTo, Put, Foreach

-----------------------------------------------------------------------------
(* Theorems *)

LEMMA NavigationInit == Init => NavigationInv
<1> SUFFICES ASSUME Init PROVE NavigationInv
  OBVIOUS
<1>1. TypeOK
  BY EmptySeq DEF Init, TypeOK, Enumerators, NoLoop
<1>2. OuterLeft = {} /\ InnerLeft = {}
  BY DEF Init, OuterLeft, InnerLeft, Left
<1>3. Progress("none", << >>, {}, {})
  BY NothingYielded
<1> QED
  BY <1>1, <1>2, <1>3 DEF Init, NavigationInv, OuterInv, InnerInv, NoLoop

LEMMA NavigationStep == NavigationInv /\ [Next]_vars => NavigationInv'
<1>1. NavigationInv /\ Next => NavigationInv'
  BY MoveStep, MoveToStep, PutStep, DeleteStep, ForeachStep, ForeachValueStep,
     MoveOuterStep, MoveInnerStep, LeaveStep DEF Next
<1>2. NavigationInv /\ UNCHANGED vars => NavigationInv'
  <2> SUFFICES ASSUME NavigationInv, UNCHANGED vars PROVE NavigationInv'
    OBVIOUS
  <2>1. TypeOK'
    BY DEF NavigationInv, TypeOK, vars
  <2>2. OuterInv'
    BY DEF NavigationInv, OuterInv, OuterLeft, OuterOps, vars
  <2>3. InnerInv'
    BY DEF NavigationInv, InnerInv, InnerLeft, InnerOps, OuterOps, vars
  <2> QED
    BY <2>1, <2>2, <2>3 DEF NavigationInv
<1> QED
  BY <1>1, <1>2

LEMMA NavigationInvariant == Spec => []NavigationInv
  BY NavigationInit, NavigationStep, PTL DEF Spec

\* What the invariant says of the loops.
LEMMA NavigationInvImplies ==
  NavigationInv => TypeOK /\ LoopVisitsAll /\ ValuesLoopVisitsAll /\ BodyStaysOnKey
<1> SUFFICES ASSUME NavigationInv
             PROVE  TypeOK /\ LoopVisitsAll /\ ValuesLoopVisitsAll /\ BodyStaysOnKey
  OBVIOUS
<1> USE DEF NavigationInv
<1>1. LoopVisitsAll
  BY ProgressVisits DEF LoopVisitsAll, OuterInv, OuterLeft
<1>2. ValuesLoopVisitsAll
  BY ProgressVisits DEF ValuesLoopVisitsAll, InnerInv, InnerLeft
<1>3. BodyStaysOnKey
  BY DEF BodyStaysOnKey, OuterInv
<1> QED
  BY <1>1, <1>2, <1>3

\* The variables of a cursor and its loops keep their types; Current is a record exactly when it
\* does not throw (Cursor.cs, MultiValueCursor.cs).
THEOREM CursorTypesCorrect == Spec => []TypeOK
  BY NavigationInvariant, NavigationInvImplies, PTL

\* Each of the twelve iterators yields what it promises, in order and once each, whatever loops
\* over values move the shared cursor in its body and whatever of its Currents the body deletes
\* (Cursor.cs ItemsEnumerator, MultiValueCursor.cs): for any finite set of records.
THEOREM LoopsVisitAll == Spec => []LoopVisitsAll
  BY NavigationInvariant, NavigationInvImplies, PTL

\* The same for the six iterators over the values of a key (MultiValueCursor.cs ValuesEnumerator).
THEOREM ValuesLoopsVisitAll == Spec => []ValuesLoopVisitsAll
  BY NavigationInvariant, NavigationInvImplies, PTL

\* The cursor never leaves the key of Current inside the body of a loop, so that a loop over values
\* started there is about that key (MultiValueCursor.cs).
THEOREM CursorStaysOnKey == Spec => []BodyStaysOnKey
  BY NavigationInvariant, NavigationInvImplies, PTL

\* The loops keep the promise of IterationContract: each goes through a list made at its start, and
\* the loops over values in its body, which move the same cursor, make no difference to it
\* (Cursor.cs ItemsEnumerator, MultiValueCursor.cs).
THEOREM LoopsKeepContract == Spec => KeepsContract
<1>1. NavigationInv /\ NavigationInv' /\ [Next]_vars =>
        [ItemsLoop!Next]_(ItemsLoop!vars) /\ [ValuesLoop!Next]_(ValuesLoop!vars)
  BY NavigationLoops DEF LoopSteps
<1> QED
  BY <1>1, LoopsInit, NavigationInvariant, PTL DEF Spec, KeepsContract, ItemsLoop!Spec, ValuesLoop!Spec

\* For any finite set of records: a foreach comes closer to its end with each round, and nothing in
\* its body, a Delete included, takes it back (Cursor.cs 533, MultiValueCursor.cs 229).
THEOREM RoundsShorten == Spec => RoundsProgress
<1>1. NavigationInv /\ [Next]_vars => [Shorter]_vars
  BY NavigationShorter
<1> QED
  BY <1>1, NavigationInvariant, PTL DEF Spec, RoundsProgress, Shorter

=============================================================================
