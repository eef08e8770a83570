--------------------- MODULE FixedMultiValueCursorProofs ---------------------
(***************************************************************************)
(* A FixedMultiValueCursor, for any finite set of records, item size,      *)
(* length of buffer, item counts and width of int: the loops over records, *)
(* keys, values and pages that share its position, and PutMultiple with    *)
(* the caller's buffer.                                                    *)
(***************************************************************************)
EXTENDS FixedMultiValueCursor, CursorNavigationProofs

-----------------------------------------------------------------------------
(* PutMultiple *)

\* A value an int can hold is not changed.
LEMMA ToIntExact ==
  ASSUME NEW n \in -Half .. Half - 1
  PROVE  ToInt(n) = n
<1>1. n + Half \in 0 .. 2 * Half - 1
  BY FixedItemsAssumption
<1>2. \A m, k \in Nat : m < k => m % k = m
  BY SMT
<1> QED
  BY <1>1, <1>2, FixedItemsAssumption DEF ToInt

\* The check of PutMultiple lets no positive count pass that exceeds the buffer, if the size of
\* the items fits into an int: for every size of items, length of buffer and width of int.
THEOREM BufferRespected ==
  ASSUME NEW count \in Nat, NEW items \in Nat, SizeFits(count),
         ~TooManyItems(count, DataSize * items)
  PROVE  count <= items
<1>1. ToInt(DataSize * count) = DataSize * count
  BY ToIntExact DEF SizeFits
<1>2. DataSize * count <= DataSize * items
  BY <1>1, FixedItemsAssumption DEF TooManyItems
<1>3. \A d \in Nat \ {0}, a, b \in Nat : d * a <= d * b => a <= b
  BY SMT
<1> QED
  BY <1>2, <1>3, FixedItemsAssumption

\* A buffer has a length.
LEMMA BufferLength ==
  ASSUME NEW items \in Buffers
  PROVE  Len(items) \in Nat
<1>1. PICK m \in 0..MaxItems : items \in [1..m -> {r[2] : r \in Records}]
  BY DEF Buffers, BoundedSeq, SeqOf
<1> QED
  BY <1>1

\* LMDB is sent beyond a buffer only by PutMultiple, with the count it got.
LEMMA OnlyPutMultipleOverreads ==
  ASSUME FixedNext, overread' # overread
  PROVE  \E items \in Buffers, n \in ItemCounts :
            /\ ~TooManyItems(n, DataSize * Len(items))
            /\ n \notin 1..Len(items)
            /\ overread' = n
<1>1. PICK k \in {r[1] : r \in Records}, items \in Buffers, n \in ItemCounts :
        PutMultiple(k, items, n)
  BY DEF FixedNext, fixedVars, Inherited, MovePage, ForeachPage, MovePaged, LeavePaged
<1> QED
  BY <1>1 DEF PutMultiple

\* Whatever loops and moves go before it, no PutMultiple with a positive count whose size an int
\* can hold sends LMDB beyond the caller's buffer (FixedMultiValueCursor.cs 71).
THEOREM BufferNeverOverread == FixedSpec => []ReadsWithinBuffer
<1>1. FixedInit => ReadsWithinBuffer
  BY DEF FixedInit, ReadsWithinBuffer
<1>2. ReadsWithinBuffer /\ [FixedNext]_fixedVars => ReadsWithinBuffer'
  <2> SUFFICES ASSUME ReadsWithinBuffer, FixedNext, overread' # overread, overread' > 0,
                      SizeFits(overread')
               PROVE  FALSE
    BY DEF ReadsWithinBuffer, SizeFits, fixedVars
  <2>1. PICK items \in Buffers, n \in ItemCounts :
          ~TooManyItems(n, DataSize * Len(items)) /\ n \notin 1..Len(items) /\ overread' = n
    BY OnlyPutMultipleOverreads
  <2>2. n \in Nat /\ n > 0 /\ SizeFits(n)
    BY <2>1, FixedCursorAssumption, FixedItemsAssumption
  <2>3. Len(items) \in Nat
    BY BufferLength
  <2>4. n <= Len(items)
    BY <2>1, <2>2, <2>3, BufferRespected
  <2> QED
    BY <2>1, <2>2, <2>3, <2>4
<1> QED
  BY <1>1, <1>2, PTL DEF FixedSpec

-----------------------------------------------------------------------------
(* The loop over pages *)

OnePage(r, s, cuts) == r[1] = s[1] /\ \A b \in cuts : b <= r[2] <=> b <= s[2]

\* The values of p's key on the pages beyond that of p.
Beyond(D, forward, p, cuts) ==
  {s \in D : s[1] = p[1] /\ ~OnePage(s, p, cuts) /\ Ahead(forward, p, s)}

FromHere(D, forward, p) == {s \in D : s[1] = p[1] /\ (s = p \/ Ahead(forward, p, s))}

\* What the loop over pages has still to yield.
PagesLeft ==
  IF paged = NoLoop \/ Finished(paged) THEN {}
  ELSE IF paged.isInitialized THEN Beyond(db, PagesForward, pos, breaks)
       ELSE FromHere(db, PagesForward, pos) \cup Page(pos, breaks)

PagesProgress(forward, yielded, promised, left) ==
  /\ promised = (UNION {yielded[j] : j \in DOMAIN yielded}) \cup left
  /\ \A j, k \in DOMAIN yielded : j < k =>
       \A r \in yielded[j], s \in yielded[k] : Ahead(forward, r, s)
  /\ \A j \in DOMAIN yielded : \A r \in yielded[j], s \in left : Ahead(forward, r, s)

PageEnumerators ==
  {NoLoop} \cup [iter : DOMAIN PageIterators, isInitialized : BOOLEAN, isCurrent : BOOLEAN,
                 current : {NoRecord}]

\* The loop over pages runs where one over values may, and leaves the cursor on the last record
\* of a page.
PagedInv ==
  /\ paged \in PageEnumerators /\ breaks \in Cuts
  /\ pagesSeen \in Seq(SUBSET Records)
  /\ paged # NoLoop => /\ inner = NoLoop /\ pos \in db
                       /\ outer # NoLoop => outer.isCurrent /\ OuterOps[2] \in KeyOps
  /\ ~paged.isInitialized => ~paged.isCurrent /\ pagesSeen = << >>
  /\ paged.isCurrent => \A s \in db : OnePage(s, pos, breaks) => s = pos \/ Before(s, pos)
  /\ paged = NoLoop => pagesStart = NoRecord
  /\ PagesProgress(PagesForward, pagesSeen, PagesExpected, PagesLeft)

FixedInv == NavigationInv /\ PagedInv

LEMMA PageIs ==
  ASSUME NEW r, NEW cuts
  PROVE  Page(r, cuts) = {s \in db : OnePage(s, r, cuts)}
  BY DEF Page, OnePage

\* Of two pages of a key one is ahead of the other as a whole.
LEMMA PagesApart ==
  ASSUME NEW forward \in BOOLEAN, NEW cuts \in SUBSET Nat,
         NEW p \in Records, NEW q \in Records, p[1] = q[1],
         ~OnePage(q, p, cuts), Ahead(forward, p, q),
         NEW s \in Records, OnePage(s, p, cuts), NEW t \in Records, OnePage(t, q, cuts)
  PROVE  Ahead(forward, s, t)
<1>1. p[2] \in Nat /\ q[2] \in Nat /\ s[2] \in Nat /\ t[2] \in Nat
      /\ p[1] \in Nat /\ q[1] \in Nat /\ s[1] \in Nat /\ t[1] \in Nat
  BY RecordNumbers
<1>2. PICK b \in cuts : ~(b <= q[2] <=> b <= p[2])
  BY DEF OnePage
<1>3. (b <= s[2] <=> b <= p[2]) /\ (b <= t[2] <=> b <= q[2]) /\ s[1] = t[1] /\ b \in Nat
  BY <1>2 DEF OnePage
<1> QED
  BY <1>1, <1>2, <1>3 DEF Ahead, Before

\* How far the loop is when the cursor is on p and mdb_cursor_get returns the page of q.
LEMMA NextPage ==
  ASSUME db \subseteq Records, NEW forward \in BOOLEAN, NEW cuts \in SUBSET Nat,
         NEW p \in db, NEW q \in Beyond(db, forward, p, cuts),
         \A s \in Beyond(db, forward, p, cuts) : s = q \/ Ahead(forward, q, s),
         NEW last \in Page(q, cuts)
  PROVE  LET left == Beyond(db, forward, p, cuts)
             rest == Beyond(db, forward, last, cuts)
         IN  /\ Page(q, cuts) \subseteq left /\ rest \subseteq left
             /\ left \subseteq Page(q, cuts) \cup rest
             /\ \A s \in Page(q, cuts), t \in rest : Ahead(forward, s, t)
<1> DEFINE left == Beyond(db, forward, p, cuts)
           rest == Beyond(db, forward, last, cuts)
           page == Page(q, cuts)
<1>1. /\ q \in db /\ q[1] = p[1] /\ ~OnePage(q, p, cuts) /\ Ahead(forward, p, q)
      /\ last \in db /\ OnePage(last, q, cuts)
      /\ page = {s \in db : OnePage(s, q, cuts)}
  BY PageIs DEF Beyond
<1>2. \A s, t, u : /\ OnePage(s, s, cuts)
                   /\ OnePage(s, t, cuts) => OnePage(t, s, cuts) /\ s[1] = t[1]
                   /\ OnePage(s, t, cuts) /\ OnePage(t, u, cuts) => OnePage(s, u, cuts)
  BY DEF OnePage
<1>3. /\ \A s \in db : s \in left <=> s[1] = p[1] /\ ~OnePage(s, p, cuts) /\ Ahead(forward, p, s)
      /\ \A s \in db : s \in rest <=> s[1] = last[1] /\ ~OnePage(s, last, cuts) /\ Ahead(forward, last, s)
      /\ left \subseteq db /\ rest \subseteq db
  BY DEF Beyond
<1>4. /\ \A s, t \in db : ~(Ahead(forward, s, t) /\ Ahead(forward, t, s))
      /\ \A s, t, u \in db : Ahead(forward, s, t) /\ Ahead(forward, t, u) => Ahead(forward, s, u)
  BY AheadIsOrder
<1>5. \A u, v, s, t \in db :
        /\ u[1] = v[1] /\ ~OnePage(v, u, cuts) /\ Ahead(forward, u, v)
        /\ OnePage(s, u, cuts) /\ OnePage(t, v, cuts)
        => Ahead(forward, s, t)
  BY PagesApart
<1> HIDE DEF left, rest, page
<1>6. page \subseteq left
  <2> SUFFICES ASSUME NEW s \in page PROVE s \in left
    OBVIOUS
  <2>1. s \in db /\ OnePage(s, q, cuts) /\ s[1] = p[1]
    BY <1>1, <1>2
  <2>2. ~OnePage(s, p, cuts)
    BY <2>1, <1>1, <1>2
  <2>3. Ahead(forward, p, s)
    BY <2>1, <1>1, <1>2, <1>5
  <2> QED
    BY <2>1, <2>2, <2>3, <1>3
<1>7. ASSUME NEW s \in rest
      PROVE  s \in left /\ \A t \in page : Ahead(forward, t, s)
  <2>1. s \in db /\ s[1] = q[1] /\ ~OnePage(s, last, cuts) /\ Ahead(forward, last, s)
    BY <1>1, <1>2, <1>3
  <2>2. \A t \in page : Ahead(forward, t, s)
    <3>1. \A t \in page : t \in db /\ OnePage(t, last, cuts)
      BY <1>1, <1>2
    <3> QED
      BY <2>1, <3>1, <1>1, <1>2, <1>5
  <2>3. Ahead(forward, q, s) /\ Ahead(forward, p, s)
    BY <2>1, <2>2, <1>1, <1>2, <1>4
  <2>4. ~OnePage(s, p, cuts)
    <3>1. OnePage(s, p, cuts) => Ahead(forward, s, q)
      BY <2>1, <1>1, <1>2, <1>5
    <3> QED
      BY <2>1, <2>3, <3>1, <1>1, <1>4
  <2> QED
    BY <2>1, <2>2, <2>3, <2>4, <1>1, <1>3
<1>8. ASSUME NEW s \in left, s \notin page
      PROVE  s \in rest
  <2>1. s \in db /\ s[1] = q[1] /\ ~OnePage(s, q, cuts)
    BY <1>1, <1>3, <1>8
  <2>2. Ahead(forward, q, s)
    BY <2>1, <1>2 DEF left
  <2>3. Ahead(forward, last, s) /\ ~OnePage(s, last, cuts) /\ s[1] = last[1]
    BY <2>1, <2>2, <1>1, <1>2, <1>5
  <2> QED
    BY <2>1, <2>3, <1>3
<1> QED
  BY <1>6, <1>7, <1>8 DEF left, rest, page

\* The first page: the whole one the cursor is on, and what is beyond it.
LEMMA FirstPage ==
  ASSUME db \subseteq Records, NEW forward \in BOOLEAN, NEW cuts \in SUBSET Nat,
         NEW p \in db, NEW last \in Page(p, cuts)
  PROVE  LET rest == Beyond(db, forward, last, cuts)
         IN  /\ FromHere(db, forward, p) \cup Page(p, cuts) = Page(p, cuts) \cup rest
             /\ \A s \in Page(p, cuts), t \in rest : Ahead(forward, s, t)
<1> DEFINE rest == Beyond(db, forward, last, cuts)
           page == Page(p, cuts)
<1>1. last \in db /\ OnePage(last, p, cuts) /\ page = {s \in db : OnePage(s, p, cuts)}
  BY PageIs
<1>2. \A s, t, u : /\ OnePage(s, s, cuts)
                   /\ OnePage(s, t, cuts) => OnePage(t, s, cuts) /\ s[1] = t[1]
                   /\ OnePage(s, t, cuts) /\ OnePage(t, u, cuts) => OnePage(s, u, cuts)
  BY DEF OnePage
<1>3. /\ \A s \in db : s \in rest <=> s[1] = last[1] /\ ~OnePage(s, last, cuts) /\ Ahead(forward, last, s)
      /\ rest \subseteq db
  BY DEF Beyond
<1>4. \A u, v, s, t \in db :
        /\ u[1] = v[1] /\ ~OnePage(v, u, cuts) /\ Ahead(forward, u, v)
        /\ OnePage(s, u, cuts) /\ OnePage(t, v, cuts)
        => Ahead(forward, s, t)
  BY PagesApart
<1> HIDE DEF rest, page
<1>5. ASSUME NEW s \in FromHere(db, forward, p), s \notin page
      PROVE  s \in rest
  <2>1. s \in db /\ s[1] = p[1] /\ ~OnePage(s, p, cuts)
    BY <1>1, <1>5 DEF FromHere
  <2>2. Ahead(forward, p, s)
    BY <2>1, <1>2 DEF FromHere
  <2>3. Ahead(forward, last, s) /\ ~OnePage(s, last, cuts) /\ s[1] = last[1]
    BY <2>1, <2>2, <1>1, <1>2, <1>4
  <2> QED
    BY <2>1, <2>3, <1>3
<1>6. ASSUME NEW s \in page, NEW t \in rest
      PROVE  Ahead(forward, s, t)
  <2>1. OnePage(s, last, cuts) /\ s \in db
    BY <1>1, <1>2
  <2>2. t \in db /\ t[1] = last[1] /\ ~OnePage(t, last, cuts) /\ Ahead(forward, last, t)
    BY <1>3
  <2> QED
    BY <2>1, <2>2, <1>1, <1>2, <1>4
<1>7. ASSUME NEW s \in rest
      PROVE  s \in FromHere(db, forward, p)
  <2>1. s \in db /\ s[1] = p[1] /\ ~OnePage(s, last, cuts) /\ Ahead(forward, last, s)
    BY <1>1, <1>2, <1>3
  <2>2. Ahead(forward, p, s)
    BY <2>1, <1>1, <1>2, <1>4
  <2> QED
    BY <2>1, <2>2 DEF FromHere
<1> QED
  BY <1>5, <1>6, <1>7 DEF rest, page

LEMMA AppendPage ==
  ASSUME NEW yielded \in Seq(SUBSET Records), NEW page \in SUBSET Records
  PROVE  /\ Append(yielded, page) \in Seq(SUBSET Records)
         /\ DOMAIN Append(yielded, page) = DOMAIN yielded \cup {Len(yielded) + 1}
         /\ \A j \in DOMAIN yielded : Append(yielded, page)[j] = yielded[j] /\ j < Len(yielded) + 1
         /\ Append(yielded, page)[Len(yielded) + 1] = page
         /\ yielded = << >> => DOMAIN yielded = {}
<1>1. Len(yielded) \in Nat /\ DOMAIN yielded = 1..Len(yielded)
  BY LenProperties
<1>2. /\ Append(yielded, page) \in Seq(SUBSET Records)
      /\ Len(Append(yielded, page)) = Len(yielded) + 1
      /\ \A j \in 1..Len(yielded) : Append(yielded, page)[j] = yielded[j]
      /\ Append(yielded, page)[Len(yielded) + 1] = page
  BY AppendProperties
<1>3. DOMAIN Append(yielded, page) = 1..Len(yielded) + 1
  BY <1>2, LenProperties
<1> QED
  BY <1>1, <1>2, <1>3

\* A loop that yields a whole page makes progress.
LEMMA PageYields ==
  ASSUME NEW forward \in BOOLEAN, NEW yielded \in Seq(SUBSET Records), NEW promised,
         NEW left, NEW page \in SUBSET Records, NEW rest,
         PagesProgress(forward, yielded, promised, left),
         left = page \cup rest,
         \A s \in page, t \in rest : Ahead(forward, s, t)
  PROVE  PagesProgress(forward, Append(yielded, page), promised, rest)
<1> DEFINE longer == Append(yielded, page)
<1>1. /\ DOMAIN longer = DOMAIN yielded \cup {Len(yielded) + 1}
      /\ \A j \in DOMAIN yielded : longer[j] = yielded[j] /\ j < Len(yielded) + 1
      /\ longer[Len(yielded) + 1] = page
      /\ yielded = << >> => DOMAIN yielded = {}
  BY AppendPage
<1>2. Len(yielded) \in Nat /\ DOMAIN yielded \subseteq Nat
  BY LenProperties
<1>3. /\ promised = (UNION {yielded[j] : j \in DOMAIN yielded}) \cup left
      /\ \A j, k \in DOMAIN yielded : j < k =>
           \A r \in yielded[j], s \in yielded[k] : Ahead(forward, r, s)
      /\ \A j \in DOMAIN yielded : \A r \in yielded[j], s \in left : Ahead(forward, r, s)
  BY DEF PagesProgress
<1> HIDE DEF longer
<1>4. promised = (UNION {longer[j] : j \in DOMAIN longer}) \cup rest
  <2>1. ASSUME NEW r \in promised, r \notin rest
        PROVE  \E j \in DOMAIN longer : r \in longer[j]
    BY <1>1, <1>3, <2>1
  <2>2. ASSUME NEW j \in DOMAIN longer, NEW r \in longer[j]
        PROVE  r \in promised
    BY <1>1, <1>3, <2>2
  <2>3. rest \subseteq promised
    BY <1>3
  <2> QED
    BY <2>1, <2>2, <2>3
<1>5. ASSUME NEW j \in DOMAIN longer, NEW k \in DOMAIN longer, j < k
      PROVE  \A r \in longer[j], s \in longer[k] : Ahead(forward, r, s)
  <2>1. j \in DOMAIN yielded /\ longer[j] = yielded[j]
    BY <1>1, <1>2, <1>5
  <2>2. CASE k \in DOMAIN yielded
    BY <2>1, <2>2, <1>1, <1>3, <1>5
  <2>3. CASE k = Len(yielded) + 1
    BY <2>1, <2>3, <1>1, <1>3
  <2> QED
    BY <2>2, <2>3, <1>1
<1>6. ASSUME NEW j \in DOMAIN longer
      PROVE  \A r \in longer[j], s \in rest : Ahead(forward, r, s)
  <2>1. CASE j \in DOMAIN yielded
    BY <2>1, <1>1, <1>3
  <2>2. CASE j = Len(yielded) + 1
    BY <2>2, <1>1
  <2> QED
    BY <2>1, <2>2, <1>1
<1> QED
  BY <1>4, <1>5, <1>6 DEF PagesProgress, longer

\* From the last record of a page LMDB finds the page of the first record that is left.
LEMMA PageFound ==
  ASSUME db \subseteq Records, NEW forward \in BOOLEAN, NEW cuts \in SUBSET Nat, pos \in db,
         \A s \in db : OnePage(s, pos, cuts) => s = pos \/ Before(s, pos),
         NEW op, op = IF forward THEN "NEXT_MULTIPLE" ELSE "PREV_MULTIPLE",
         NEW page, page = FindPage(op, pos, cuts)
  PROVE  LET left == Beyond(db, forward, pos, cuts)
         IN  \/ page = {} /\ left = {}
             \/ \E q \in left : /\ page = Page(q, cuts)
                               /\ \A s \in left : s = q \/ Ahead(forward, q, s)
<1> DEFINE left == Beyond(db, forward, pos, cuts)
           found == First(forward, left)
<1>1. pos \in Records /\ pos # NoRecord /\ left \in SUBSET Records
  BY RecordNumbers DEF Beyond
<1>2. /\ found = NoRecord <=> left = {}
      /\ left # {} => found \in left /\ \A s \in left : s = found \/ Ahead(forward, found, s)
  BY <1>1, FirstIs
<1>3. page = PageOf(found, cuts)
  <2>1. CASE forward
    <3>1. page = PageOf(Find("NEXT_DUP", pos), cuts)
      BY <2>1 DEF FindPage
    <3>2. Reach(db, "NEXT_DUP", pos) = left
      <4>1. \A s \in db : s \in left <=> s[1] = pos[1] /\ ~OnePage(s, pos, cuts) /\ Before(pos, s)
        BY <2>1 DEF Beyond, Ahead
      <4>2. \A s \in db : s \in Reach(db, "NEXT_DUP", pos) <=> s[1] = pos[1] /\ Before(pos, s)
        BY <1>1 DEF Reach, DupOps, KeyOps, Onward, Ahead
      <4>3. \A s \in db : ~(Before(pos, s) /\ (s = pos \/ Before(s, pos)))
        BY <1>1, RecordNumbers DEF Before
      <4>4. left \subseteq db /\ Reach(db, "NEXT_DUP", pos) \subseteq db
        BY DEF Beyond, Reach
      <4> HIDE DEF left
      <4> QED
        BY <4>1, <4>2, <4>3, <4>4
    <3>3. Find("NEXT_DUP", pos) = First(TRUE, Reach(db, "NEXT_DUP", pos))
      BY <1>1, FindIsFirst DEF MoveOps, DupOps, KeyOps, Onward
    <3> QED
      BY <2>1, <3>1, <3>2, <3>3
  <2>2. CASE ~forward
    <3> DEFINE first == Least(Page(pos, cuts))
    <3>1. page = PageOf(Find("PREV_DUP", first), cuts)
      BY <2>2 DEF FindPage
    <3>2. /\ first \in db /\ OnePage(first, pos, cuts) /\ first[1] = pos[1]
          /\ \A s \in db : OnePage(s, pos, cuts) => s = first \/ Before(first, s)
      <4>1. Page(pos, cuts) = {s \in db : OnePage(s, pos, cuts)} /\ OnePage(pos, pos, cuts)
        BY PageIs DEF OnePage
      <4>2. Page(pos, cuts) \in SUBSET Records /\ Page(pos, cuts) # {}
        BY <4>1
      <4>3. first = First(TRUE, Page(pos, cuts))
        BY DEF First
      <4> HIDE DEF first
      <4>4. /\ first \in Page(pos, cuts)
            /\ \A s \in Page(pos, cuts) : s = first \/ Ahead(TRUE, first, s)
        BY <4>2, <4>3, FirstIs
      <4> QED
        BY <4>1, <4>4 DEF Ahead, OnePage
    <3> HIDE DEF first
    <3>3. first \in Records /\ first # NoRecord
      BY <3>2, RecordNumbers
    <3>4. Reach(db, "PREV_DUP", first) = left
      <4>1. \A s \in db : s \in left <=> s[1] = pos[1] /\ ~OnePage(s, pos, cuts) /\ Before(s, pos)
        BY <2>2 DEF Beyond, Ahead
      <4>2. \A s \in db : s \in Reach(db, "PREV_DUP", first) <=> s[1] = first[1] /\ Before(s, first)
        BY <3>3 DEF Reach, DupOps, KeyOps, Onward, Ahead
      <4>3. left \subseteq db /\ Reach(db, "PREV_DUP", first) \subseteq db
        BY DEF Beyond, Reach
      <4>4. ASSUME NEW s \in left PROVE Before(s, first)
        <5>1. s \in db /\ s \in Records /\ s[1] = pos[1] /\ ~OnePage(s, pos, cuts) /\ Before(s, pos)
          BY <4>1, <4>3
        <5>2. Ahead(FALSE, pos, s) /\ OnePage(s, s, cuts) /\ pos[1] = s[1]
          BY <5>1 DEF Ahead, OnePage
        <5>3. Ahead(FALSE, first, s)
          BY <5>1, <5>2, <3>2, <3>3, <1>1, PagesApart
        <5> QED
          BY <5>3 DEF Ahead
      <4>5. ASSUME NEW s \in db, s[1] = first[1], Before(s, first)
            PROVE  ~OnePage(s, pos, cuts) /\ Before(s, pos)
        <5>1. first = pos \/ Before(first, pos)
          BY <3>2
        <5>2. s \in Records /\ ~Before(first, s) /\ s # first
          BY <4>5, <3>3, RecordNumbers DEF Before
        <5>3. Before(s, pos)
          BY <4>5, <5>1, <5>2, <3>3, <1>1, RecordNumbers DEF Before
        <5> QED
          BY <5>2, <5>3, <3>2
      <4> HIDE DEF left
      <4> QED
        BY <4>1, <4>2, <4>3, <4>4, <4>5, <3>2
    <3>5. Find("PREV_DUP", first) = First(FALSE, Reach(db, "PREV_DUP", first))
      <4>1. "PREV_DUP" \in MoveOps /\ Onward("PREV_DUP") = FALSE
        BY DEF MoveOps, DupOps, KeyOps, Onward
      <4> QED
        BY <3>3, <4>1, FindIsFirst
    <3> QED
      BY <2>2, <3>1, <3>4, <3>5
  <2> QED
    BY <2>1, <2>2
<1>4. left # {} => page = Page(found, cuts)
  BY <1>2, <1>3 DEF PageOf
<1>5. left = {} => page = {}
  BY <1>2, <1>3 DEF PageOf
<1> QED
  BY <1>2, <1>4, <1>5

-----------------------------------------------------------------------------
(* Steps *)

LEMMA CutsAreNumbers == Cuts \subseteq SUBSET Nat
  BY RecordNumbers DEF Cuts

LEMMA GreatestOfPage ==
  ASSUME NEW page \in SUBSET Records, page # {}
  PROVE  Greatest(page) \in page /\ \A s \in page : s = Greatest(page) \/ Before(s, Greatest(page))
<1>1. First(FALSE, page) = Greatest(page)
  BY DEF First
<1>2. /\ First(FALSE, page) \in page
      /\ \A s \in page : s = First(FALSE, page) \/ Ahead(FALSE, First(FALSE, page), s)
  BY FirstIs
<1> QED
  BY <1>1, <1>2 DEF Ahead

LEMMA FindPageRecords ==
  ASSUME db \subseteq Records, NEW op \in {"GET_MULTIPLE", "NEXT_MULTIPLE", "PREV_MULTIPLE"},
         NEW p, NEW cuts
  PROVE  FindPage(op, p, cuts) \subseteq db
<1>1. \A r : Page(r, cuts) \subseteq db /\ PageOf(r, cuts) \subseteq db
  BY DEF PageOf, Page
<1>2. /\ FindPage("GET_MULTIPLE", p, cuts) = Page(p, cuts)
      /\ FindPage("NEXT_MULTIPLE", p, cuts) = PageOf(Find("NEXT_DUP", p), cuts)
      /\ FindPage("PREV_MULTIPLE", p, cuts) = PageOf(Find("PREV_DUP", Least(Page(p, cuts))), cuts)
  BY DEF FindPage
<1> QED
  BY <1>1, <1>2

LEMMA NothingExpected ==
  /\ pagesStart = NoRecord => PagesExpected = {}
  /\ pagesStart' = NoRecord => PagesExpected' = {}
<1>1. pagesStart = NoRecord => PagesPromise = {} /\ PageOf(pagesStart, breaks) = {}
  BY DEF PagesPromise, PageOf
<1>2. pagesStart' = NoRecord => PagesPromise' = {} /\ PageOf(pagesStart, breaks)' = {}
  BY DEF PagesPromise, PageOf
<1> QED
  BY <1>1, <1>2 DEF PagesExpected

LEMMA NoPagesStep ==
  ASSUME PagedInv, paged = NoLoop, UNCHANGED pages
  PROVE  PagedInv'
<1>1. PagesLeft = {} /\ PagesLeft' = {}
  BY DEF PagesLeft, pages
<1>2. ~paged.isCurrent /\ ~paged.isInitialized /\ PagesForward' = PagesForward
  BY DEF NoLoop, PagesForward, pages
<1>3. PagesExpected = {} /\ PagesExpected' = {}
  BY NothingExpected DEF PagedInv, pages
<1> QED
  BY <1>1, <1>2, <1>3 DEF PagedInv, pages

LEMMA InheritedStep == FixedInv /\ Inherited => FixedInv'
<1> SUFFICES ASSUME FixedInv, Inherited PROVE FixedInv'
  OBVIOUS
<1>1. NavigationInv'
  BY NavigationStep DEF FixedInv, Inherited
<1>2. PagedInv'
  BY NoPagesStep DEF FixedInv, Inherited
<1> QED
  BY <1>1, <1>2 DEF FixedInv

LEMMA MovePageStep ==
  \A op \in {"GET_MULTIPLE", "NEXT_MULTIPLE", "PREV_MULTIPLE"}, cuts \in Cuts :
    FixedInv /\ MovePage(op, cuts) => FixedInv'
<1> SUFFICES ASSUME NEW op \in {"GET_MULTIPLE", "NEXT_MULTIPLE", "PREV_MULTIPLE"}, NEW cuts \in Cuts,
                    FixedInv, MovePage(op, cuts)
             PROVE  FixedInv'
  OBVIOUS
<1>1. db \subseteq Records /\ pos \in Records \cup {NoRecord}
  BY DEF FixedInv, NavigationInv, TypeOK
<1>2. FindPage(op, pos, cuts) \in SUBSET Records
  BY <1>1, FindPageRecords
<1>3. LastOf(FindPage(op, pos, cuts)) \in Records \cup {NoRecord}
  BY <1>1, <1>2, GreatestOfPage DEF LastOf
<1>4. NavigationInv'
  BY <1>1, <1>3, IdleStep DEF MovePage, FixedInv
<1>5. PagedInv'
  BY NoPagesStep DEF MovePage, FixedInv
<1> QED
  BY <1>4, <1>5 DEF FixedInv

LEMMA NavigationUnchanged ==
  ASSUME NavigationInv, UNCHANGED vars
  PROVE  NavigationInv'
  BY NavigationStep

LEMMA ForeachPageStep ==
  \A i \in DOMAIN PageIterators, cuts \in Cuts : FixedInv /\ ForeachPage(i, cuts) => FixedInv'
<1> SUFFICES ASSUME NEW i \in DOMAIN PageIterators, NEW cuts \in Cuts, FixedInv, ForeachPage(i, cuts)
             PROVE  FixedInv'
  OBVIOUS
<1> USE DEF FixedInv
<1>1. NavigationInv'
  BY NavigationUnchanged DEF ForeachPage
<1>2. /\ inner = NoLoop /\ paged = NoLoop /\ pos \in db
      /\ outer # NoLoop => outer.isCurrent /\ OuterOps[2] \in KeyOps
      /\ outer' = outer /\ inner' = inner /\ pos' = pos /\ db' = db
      /\ breaks' = cuts /\ pagesSeen' = pagesSeen
      /\ paged' = [NoLoop EXCEPT !.iter = i]
      /\ pagesStart' = pos
  BY DEF ForeachPage, vars, OuterOps, KeyOps
<1>3. /\ paged' # NoLoop /\ paged'.iter = i /\ ~paged'.isInitialized /\ ~paged'.isCurrent
      /\ paged' \in PageEnumerators
  <2>1. i # "none"
    BY DEF PageIterators
  <2> QED
    BY <1>2, <2>1 DEF NoLoop, PageEnumerators
<1>4. pagesSeen = << >> /\ pagesSeen \in Seq(SUBSET Records)
  BY <1>2 DEF PagedInv, NoLoop
<1>5. PagesExpected' = FromHere(db, PagesForward', pos) \cup Page(pos, cuts)
  <2>1. pos # NoRecord
    BY <1>2, RecordNumbers DEF NavigationInv, TypeOK
  <2>2. PagesPromise' = FromHere(db, PagesForward', pos)
    BY <1>2, <2>1 DEF PagesPromise, FromHere, PagesForward, Ahead
  <2>3. PageOf(pagesStart, breaks)' = Page(pos, cuts)
    BY <1>2, <2>1 DEF PageOf, Page
  <2> QED
    BY <2>2, <2>3 DEF PagesExpected
<1>6. PagesLeft' = PagesExpected'
  BY <1>2, <1>3, <1>5 DEF PagesLeft, Finished, Page
<1>7. \A forward : PagesProgress(forward, << >>, PagesExpected', PagesExpected')
  BY DEF PagesProgress
<1>8. PagedInv'
  BY <1>2, <1>3, <1>4, <1>6, <1>7 DEF PagedInv, OuterOps
<1> QED
  BY <1>1, <1>8

LEMMA LeavePagedStep == FixedInv /\ LeavePaged => FixedInv'
<1> SUFFICES ASSUME FixedInv, LeavePaged PROVE FixedInv'
  OBVIOUS
<1> USE DEF FixedInv
<1>1. NavigationInv'
  BY NavigationUnchanged DEF LeavePaged
<1>2. paged' = NoLoop /\ breaks' = {} /\ pagesSeen' = << >> /\ pagesStart' = NoRecord /\ PagesExpected' = {}
  BY NothingExpected DEF LeavePaged
<1>3. PagesLeft' = {} /\ \A forward : PagesProgress(forward, << >>, {}, {})
  BY <1>2 DEF PagesLeft, PagesProgress
<1>4. paged' \in PageEnumerators /\ ~paged'.isInitialized /\ ~paged'.isCurrent
  BY <1>2 DEF PageEnumerators, NoLoop
<1>5. breaks' \in Cuts /\ << >> \in Seq(SUBSET Records)
  BY <1>2, EmptySeq DEF Cuts
<1>6. PagedInv'
  BY <1>2, <1>3, <1>4, <1>5 DEF PagedInv
<1> QED
  BY <1>1, <1>6

LEMMA PutMultipleStep ==
  \A k \in {r[1] : r \in Records}, items \in Buffers, n \in ItemCounts :
    FixedInv /\ PutMultiple(k, items, n) => FixedInv'
<1> SUFFICES ASSUME NEW k \in {r[1] : r \in Records}, NEW items \in Buffers, NEW n \in ItemCounts,
                    FixedInv, PutMultiple(k, items, n)
             PROVE  FixedInv'
  OBVIOUS
<1>1. db \subseteq Records /\ pos \in Records \cup {NoRecord}
  BY DEF FixedInv, NavigationInv, TypeOK
<1>2. NoLoops /\ paged = NoLoop /\ UNCHANGED loops /\ UNCHANGED pages
  BY DEF PutMultiple
<1>3. db' \subseteq Records /\ pos' \in Records \cup {NoRecord}
  <2>1. CASE n \in 1..Len(items)
    <3>1. PICK stored \in 0..n :
            /\ {<<k, items[j]>> : j \in 1..stored} \subseteq Records
            /\ db' = db \cup {<<k, items[j]>> : j \in 1..stored}
            /\ pos' \in IF stored = n THEN {<<k, items[stored]>>} ELSE Records \cup {NoRecord}
      BY <2>1 DEF PutMultiple
    <3>2. stored = n => stored \in 1..stored
      BY <2>1, BufferLength
    <3> QED
      BY <1>1, <3>1, <3>2
  <2>2. CASE n \notin 1..Len(items)
    BY <1>1, <2>2 DEF PutMultiple
  <2> QED
    BY <2>1, <2>2
<1>4. NavigationInv'
  BY <1>2, <1>3, IdleStep DEF FixedInv
<1>5. PagedInv'
  BY <1>2, NoPagesStep DEF FixedInv
<1> QED
  BY <1>4, <1>5 DEF FixedInv

\* The page is the first of what is left, whole and of the cursor's key; or nothing is left.
TakesPage(page) ==
  LET rest == Beyond(db, PagesForward, Greatest(page), breaks) IN
  /\ page = {} => paged.isInitialized /\ PagesLeft = {}
  /\ page # {} =>
       /\ \A s \in page : s[1] = pos[1] /\ \A t \in db : OnePage(t, s, breaks) => t \in page
       /\ PagesLeft = page \cup rest
       /\ \A s \in page, t \in rest : Ahead(PagesForward, s, t)

\* MoveNext of the loop over pages: the first page, or the next of what is left.
LEMMA MovePagedStep == FixedInv /\ MovePaged => FixedInv'
<1> SUFFICES ASSUME FixedInv, MovePaged PROVE FixedInv'
  OBVIOUS
<1> USE DEF FixedInv
<1> DEFINE ops == PageIterators[paged.iter]
    page == FindPage(IF paged.isInitialized THEN ops[2] ELSE ops[1], pos, breaks)
<1>1. /\ paged # NoLoop /\ (paged.isInitialized => paged.isCurrent)
      /\ paged' = [paged EXCEPT !.isInitialized = TRUE, !.isCurrent = page # {}]
      /\ pos' = LastOf(page)
      /\ pagesSeen' = IF page = {} THEN pagesSeen ELSE Append(pagesSeen, page)
      /\ db' = db /\ outer' = outer /\ inner' = inner /\ seen' = seen /\ goal' = goal
      /\ innerSeen' = innerSeen /\ innerGoal' = innerGoal
      /\ breaks' = breaks /\ pagesStart' = pagesStart
  BY DEF MovePaged, loops
<1>2. /\ inner = NoLoop /\ pos \in db /\ db \subseteq Records
      /\ outer # NoLoop => outer.isCurrent /\ OuterOps[2] \in KeyOps
      /\ pagesSeen \in Seq(SUBSET Records) /\ breaks \in SUBSET Nat
      /\ paged \in PageEnumerators /\ paged.iter \in {"ForwardMultiple", "ReverseMultiple"}
      /\ PagesProgress(PagesForward, pagesSeen, PagesExpected, PagesLeft)
      /\ PagesForward \in BOOLEAN
  BY <1>1, CutsAreNumbers DEF PagedInv, NavigationInv, TypeOK, PageEnumerators, PageIterators, PagesForward
<1>3. /\ ops[1] = "GET_MULTIPLE"
      /\ ops[2] = IF PagesForward THEN "NEXT_MULTIPLE" ELSE "PREV_MULTIPLE"
  BY <1>2 DEF PageIterators, PagesForward
<1>4. /\ PagesForward' = PagesForward
      /\ paged'.iter = paged.iter /\ paged'.isInitialized /\ (paged'.isCurrent <=> page # {})
      /\ paged' # NoLoop /\ paged' \in PageEnumerators
      /\ PagesExpected' = PagesExpected
  BY <1>1, <1>2 DEF PageEnumerators, NoLoop, PagesForward, PagesExpected, PagesPromise, PageOf, Page
<1>5. page \subseteq db /\ page \in SUBSET Records
  <2>1. (IF paged.isInitialized THEN ops[2] ELSE ops[1]) \in {"GET_MULTIPLE", "NEXT_MULTIPLE", "PREV_MULTIPLE"}
    BY <1>3
  <2> QED
    BY <1>2, <2>1, FindPageRecords
<1>6. ASSUME ~paged.isInitialized PROVE TakesPage(page)
  <2>1. page = Page(pos, breaks) /\ page = {s \in db : OnePage(s, pos, breaks)}
    <3>1. FindPage("GET_MULTIPLE", pos, breaks) = Page(pos, breaks)
      BY DEF FindPage
    <3> QED
      BY <1>3, <1>6, <3>1, PageIs
  <2>2. pos \in page
    BY <1>2, <2>1 DEF OnePage
  <2>3. PagesLeft = FromHere(db, PagesForward, pos) \cup Page(pos, breaks)
    BY <1>1, <1>6 DEF PagedInv, PagesLeft, Finished
  <2>4. Greatest(page) \in Page(pos, breaks)
    BY <1>5, <2>1, <2>2, GreatestOfPage
  <2>5. LET rest == Beyond(db, PagesForward, Greatest(page), breaks)
        IN  /\ PagesLeft = page \cup rest
            /\ \A s \in page, t \in rest : Ahead(PagesForward, s, t)
    BY <1>2, <2>1, <2>3, <2>4, FirstPage
  <2>6. \A s \in page : s[1] = pos[1] /\ \A t \in db : OnePage(t, s, breaks) => t \in page
    BY <2>1 DEF OnePage
  <2> HIDE DEF page
  <2> QED
    BY <2>2, <2>3, <2>5, <2>6 DEF TakesPage
<1>7. ASSUME paged.isInitialized PROVE TakesPage(page)
  <2>1. /\ PagesLeft = Beyond(db, PagesForward, pos, breaks)
        /\ \A s \in db : OnePage(s, pos, breaks) => s = pos \/ Before(s, pos)
    BY <1>1, <1>7 DEF PagedInv, PagesLeft, Finished
  <2>2. page = FindPage(IF PagesForward THEN "NEXT_MULTIPLE" ELSE "PREV_MULTIPLE", pos, breaks)
    BY <1>3, <1>7
  <2> HIDE DEF page
  <2>3. \/ page = {} /\ PagesLeft = {}
        \/ \E q \in PagesLeft : /\ page = Page(q, breaks)
                               /\ \A s \in PagesLeft : s = q \/ Ahead(PagesForward, q, s)
    BY <1>2, <2>1, <2>2, PageFound
  <2>4. CASE page = {} /\ PagesLeft = {}
    BY <1>7, <2>4 DEF TakesPage
  <2>5. ASSUME NEW q \in PagesLeft, page = Page(q, breaks),
               \A s \in PagesLeft : s = q \/ Ahead(PagesForward, q, s)
        PROVE  TakesPage(page)
    <3>1. q \in db /\ q[1] = pos[1] /\ page = {s \in db : OnePage(s, q, breaks)}
      BY <2>1, <2>5, PageIs DEF Beyond
    <3>2. q \in page
      BY <3>1 DEF OnePage
    <3>3. Greatest(page) \in Page(q, breaks)
      BY <1>5, <2>5, <3>2, GreatestOfPage
    <3>4. LET rest == Beyond(db, PagesForward, Greatest(page), breaks)
          IN  /\ page \subseteq PagesLeft /\ rest \subseteq PagesLeft
              /\ PagesLeft \subseteq page \cup rest
              /\ \A s \in page, t \in rest : Ahead(PagesForward, s, t)
      BY <1>2, <2>1, <2>5, <3>3, NextPage
    <3>5. \A s \in page : s[1] = pos[1] /\ \A t \in db : OnePage(t, s, breaks) => t \in page
      BY <3>1 DEF OnePage
    <3> QED
      BY <3>2, <3>4, <3>5 DEF TakesPage
  <2> QED
    BY <2>3, <2>4, <2>5
<1>8. TakesPage(page)
  BY <1>6, <1>7
<1> HIDE DEF page
<1>9. pos' \in db /\ pos' \in Records /\ pos' # NoRecord /\ pos'[1] = pos[1]
  <2>1. page # {} => Greatest(page) \in page
    BY <1>5, GreatestOfPage
  <2> QED
    BY <1>1, <1>2, <1>5, <1>8, <2>1, RecordNumbers DEF LastOf, TakesPage
<1>10. NavigationInv'
  <2>1. TypeOK'
    BY <1>1, <1>9 DEF NavigationInv, TypeOK
  <2>2. OuterInv'
    <3>1. OuterOps' = OuterOps /\ OuterLeft' = OuterLeft
      <4>1. outer # NoLoop => outer.isInitialized
        BY <1>2 DEF NavigationInv, OuterInv
      <4> QED
        BY <1>1, <4>1 DEF OuterLeft, OuterOps, Left
    <3>2. outer.isCurrent => outer # NoLoop
      BY DEF NoLoop
    <3> QED
      BY <1>1, <1>2, <1>9, <3>1, <3>2 DEF NavigationInv, OuterInv
  <2>3. InnerInv'
    BY <1>1, <1>2 DEF NavigationInv, InnerInv, InnerLeft, Left, NoLoop
  <2> QED
    BY <2>1, <2>2, <2>3 DEF NavigationInv
<1>11. CASE page = {}
  <2>1. PagesLeft' = {}
    BY <1>4, <1>11 DEF PagesLeft, Finished
  <2>2. PagedInv'
    BY <1>1, <1>2, <1>4, <1>8, <1>9, <1>11, <2>1 DEF PagedInv, OuterOps, TakesPage
  <2> QED
    BY <1>10, <2>2
<1>12. CASE page # {}
  <2>1. pos' = Greatest(page) /\ Greatest(page) \in page
    BY <1>1, <1>5, <1>12, GreatestOfPage DEF LastOf
  <2>2. \A s \in db : OnePage(s, pos', breaks) => s = pos' \/ Before(s, pos')
    BY <1>5, <1>8, <1>12, <2>1, GreatestOfPage DEF TakesPage
  <2>3. PagesLeft' = Beyond(db, PagesForward, pos', breaks)
    BY <1>1, <1>4, <1>12 DEF PagesLeft, Finished
  <2>4. PagesProgress(PagesForward, Append(pagesSeen, page), PagesExpected, Beyond(db, PagesForward, pos', breaks))
    BY <1>2, <1>5, <1>8, <1>12, <2>1, PageYields DEF TakesPage
  <2>5. Append(pagesSeen, page) \in Seq(SUBSET Records)
    BY <1>2, <1>5, AppendPage
  <2>6. PagedInv'
    BY <1>1, <1>2, <1>4, <1>9, <1>12, <2>2, <2>3, <2>4, <2>5 DEF PagedInv, OuterOps
  <2> QED
    BY <1>10, <2>6
<1> QED
  BY <1>11, <1>12

-----------------------------------------------------------------------------
(* The loops implement IterationContract also here. *)

\* A round of a loop over pages moves the cursor, but takes nothing off the list of the loop
\* around it: that goes on from the key, which the pages do not leave.
LEMMA MovePagedLoops ==
  ASSUME FixedInv, MovePaged
  PROVE  LoopSteps
<1>1. /\ paged # NoLoop /\ db' = db
      /\ outer' = outer /\ inner' = inner
  BY DEF MovePaged, loops
<1>2. inner = NoLoop /\ (outer # NoLoop => outer.isInitialized)
  BY <1>1 DEF FixedInv, PagedInv, NavigationInv, OuterInv
<1>3. OuterLeft' = OuterLeft
  BY <1>1, <1>2 DEF OuterLeft, OuterOps, Left
<1>4. UNCHANGED ItemsLoop!vars
  BY <1>1, <1>3, ItemsUnseen
<1>5. UNCHANGED ValuesLoop!vars
  BY <1>1, <1>2, NothingLeft, NothingLeftNext, ValuesUnseen
<1> QED
  BY <1>4, <1>5 DEF LoopSteps

LEMMA FixedLoops == FixedInv /\ FixedInv' /\ [FixedNext]_fixedVars => LoopSteps
<1> SUFFICES ASSUME FixedInv, FixedInv', [FixedNext]_fixedVars PROVE LoopSteps
  OBVIOUS
<1>1. NavigationInv /\ NavigationInv' /\ db' \subseteq Records
  BY DEF FixedInv, NavigationInv, TypeOK
<1>2. CASE Inherited
  BY <1>1, <1>2, NavigationLoops DEF Inherited
<1>3. ASSUME NEW op, NEW cuts, MovePage(op, cuts) PROVE LoopSteps
  BY <1>1, <1>3, IdleLoops DEF MovePage
<1>4. ASSUME NEW i, NEW cuts, ForeachPage(i, cuts) PROVE LoopSteps
  BY <1>4, UnchangedLoops DEF ForeachPage, vars
<1>5. CASE LeavePaged
  BY <1>5, UnchangedLoops DEF LeavePaged, vars
<1>6. ASSUME NEW k, NEW items, NEW n, PutMultiple(k, items, n) PROVE LoopSteps
  BY <1>1, <1>6, IdleLoops DEF PutMultiple
<1>7. CASE UNCHANGED fixedVars
  BY <1>7, UnchangedLoops DEF fixedVars, vars
<1> QED
  BY <1>2, <1>3, <1>4, <1>5, <1>6, <1>7, MovePagedLoops DEF FixedNext

\* Nor do the rounds of a loop over pages give the loops around it more to do.
LEMMA FixedShorter ==
  ASSUME FixedInv, [FixedNext]_fixedVars
  PROVE  [Shorter]_vars
<1>1. NavigationInv
  BY DEF FixedInv
<1>2. CASE Inherited
  BY <1>1, <1>2, NavigationShorter DEF Inherited
<1>3. ASSUME NoLoops
      PROVE  Shorter
  BY <1>3 DEF NoLoops, Shorter, GetsShorter
<1>4. CASE MovePaged
  <2>1. paged # NoLoop /\ db' = db /\ outer' = outer
    BY <1>4 DEF MovePaged, loops
  <2>2. inner = NoLoop /\ (outer # NoLoop => outer.isInitialized)
    BY <2>1 DEF FixedInv, PagedInv, NavigationInv, OuterInv
  <2>3. OuterLeft' = OuterLeft
    BY <2>1, <2>2 DEF OuterLeft, OuterOps, Left
  <2> QED
    BY <2>1, <2>2, <2>3 DEF Shorter, GetsShorter
<1>5. ASSUME NEW i, NEW cuts, ForeachPage(i, cuts)
      PROVE  UNCHANGED vars
  BY <1>5 DEF ForeachPage
<1>6. CASE LeavePaged
  BY <1>6 DEF LeavePaged
<1>7. CASE UNCHANGED fixedVars
  BY <1>7 DEF fixedVars
<1> QED
  BY <1>2, <1>3, <1>4, <1>5, <1>6, <1>7 DEF FixedNext, MovePage, PutMultiple

-----------------------------------------------------------------------------
(* Theorems about the loops *)

LEMMA FixedInvInit == FixedInit => FixedInv
<1> SUFFICES ASSUME FixedInit PROVE FixedInv
  OBVIOUS
<1>1. NavigationInv
  BY NavigationInit DEF FixedInit
<1>2. PagesLeft = {} /\ PagesExpected = {} /\ \A forward : PagesProgress(forward, << >>, {}, {})
  BY NothingExpected DEF FixedInit, PagesLeft, PagesProgress
<1>3. /\ paged \in PageEnumerators /\ ~paged.isInitialized /\ ~paged.isCurrent
      /\ breaks \in Cuts /\ << >> \in Seq(SUBSET Records)
  BY EmptySeq DEF FixedInit, PageEnumerators, NoLoop, Cuts
<1>4. PagedInv
  BY <1>2, <1>3 DEF FixedInit, PagedInv
<1> QED
  BY <1>1, <1>4 DEF FixedInv

LEMMA FixedUnchanged == FixedInv /\ UNCHANGED fixedVars => FixedInv'
<1> SUFFICES ASSUME FixedInv, UNCHANGED fixedVars PROVE FixedInv'
  OBVIOUS
<1>1. NavigationInv'
  BY NavigationUnchanged DEF FixedInv, fixedVars
<1>2. UNCHANGED <<db, pos, outer, inner, breaks, paged, pagesSeen, pagesStart>>
  BY DEF fixedVars, vars, pages
<1>3. /\ PagesLeft' = PagesLeft /\ PagesForward' = PagesForward /\ OuterOps' = OuterOps
      /\ PagesExpected' = PagesExpected
  BY <1>2 DEF PagesLeft, PagesForward, OuterOps, PagesExpected, PagesPromise, PageOf, Page
<1>4. PagedInv'
  BY <1>2, <1>3 DEF FixedInv, PagedInv
<1> QED
  BY <1>1, <1>4 DEF FixedInv

LEMMA FixedStep == FixedInv /\ [FixedNext]_fixedVars => FixedInv'
  BY InheritedStep, MovePageStep, ForeachPageStep, MovePagedStep, LeavePagedStep, PutMultipleStep,
     FixedUnchanged DEF FixedNext

LEMMA FixedInvariant == FixedSpec => []FixedInv
  BY FixedInvInit, FixedStep, PTL DEF FixedSpec

LEMMA FixedInvImplies == FixedInv => PagesLoopVisitsAll
<1> SUFFICES ASSUME FixedInv PROVE PagesLoopVisitsAll
  OBVIOUS
<1>1. PagesProgress(PagesForward, pagesSeen, PagesExpected, PagesLeft)
  BY DEF FixedInv, PagedInv
<1>2. Finished(paged) => PagesLeft = {}
  BY DEF PagesLeft
<1> QED
  BY <1>1, <1>2 DEF PagesProgress, PagesLoopVisitsAll

\* A FixedMultiValueCursor keeps its types as a MultiValueCursor does.
THEOREM FixedTypesCorrect == FixedSpec => []TypeOK
  BY FixedInvariant, NavigationInvImplies, PTL DEF FixedInv

\* The loops over records and keys visit all they promise also when loops over pages move the
\* cursor in their bodies (FixedMultiValueCursor.cs, MultiValueCursor.cs).
THEOREM FixedLoopsVisitAll == FixedSpec => []LoopVisitsAll
  BY FixedInvariant, NavigationInvImplies, PTL DEF FixedInv

\* So do those over values, which take turns with the loops over pages.
THEOREM FixedValuesLoopsVisitAll == FixedSpec => []ValuesLoopVisitsAll
  BY FixedInvariant, NavigationInvImplies, PTL DEF FixedInv

\* A loop over pages does not leave the key of the loop it runs in.
THEOREM FixedCursorStaysOnKey == FixedSpec => []BodyStaysOnKey
  BY FixedInvariant, NavigationInvImplies, PTL DEF FixedInv

\* ForwardMultiple and ReverseMultiple yield page by page, in order, the duplicates from the position
\* at their start on and the rest of the first page, no more and no less, wherever LMDB cuts the
\* pages (FixedMultiValueCursor.cs 97).
THEOREM PagesLoopsVisitAll == FixedSpec => []PagesLoopVisitsAll
  BY FixedInvariant, FixedInvImplies, PTL

\* Loops over pages in the bodies of the others make no difference to them either: each foreach
\* over records, keys or values still goes through its list (FixedMultiValueCursor.cs,
\* Cursor.cs 309, MultiValueCursor.cs 117).
THEOREM FixedLoopsKeepContract == FixedSpec => KeepsContract
<1>1. FixedInit => ItemsLoop!Init /\ ValuesLoop!Init
  BY LoopsInit DEF FixedInit
<1> QED
  BY <1>1, FixedInvariant, FixedLoops, PTL
     DEF FixedSpec, KeepsContract, ItemsLoop!Spec, ValuesLoop!Spec, LoopSteps

\* The same for those of a FixedMultiValueCursor (FixedMultiValueCursor.cs 97).
THEOREM FixedRoundsShorten == FixedSpec => RoundsProgress
<1>1. FixedInv /\ [FixedNext]_fixedVars => [Shorter]_vars
  BY FixedShorter
<1> QED
  BY <1>1, FixedInvariant, PTL DEF FixedSpec, RoundsProgress, Shorter

=============================================================================
