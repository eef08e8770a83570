------------------------ MODULE FixedMultiValueCursor ------------------------
(***************************************************************************)
(* A FixedMultiValueCursor (src/Lmdb): a MultiValueCursor that also reads  *)
(* the duplicates of a key a page at a time and stores several with one    *)
(* call. The foreach over pages shares the cursor's native position with   *)
(* the loops of CursorNavigation and runs where one over values may run.   *)
(*                                                                         *)
(* How the duplicates of a key are laid out in pages is LMDB's choice.     *)
(***************************************************************************)
EXTENDS CursorNavigation, FixedItems

CONSTANTS
  MaxItems,   \* the number of items a caller's buffer holds (a bound)
  ItemCounts  \* the arguments itemCount (a bound)

\* The length of a buffer is an int. What LMDB does with a count of zero is left out: it cannot
\* be read from its caller.
ASSUME FixedCursorAssumption ==
  /\ MaxItems \in Nat /\ DataSize * MaxItems < Half
  /\ ItemCounts \subseteq (-Half .. Half - 1) \ {0}

VARIABLES
  breaks,     \* native: the data that begin a new page
  paged,      \* the ValuesEnumerator over pages that is running, or NoLoop
  pagesSeen,  \* history: what Current has been so far, the set of records of each page
  pagesStart, \* history: the position at the start of that loop, or NoRecord
  overread    \* history: the itemCount with which LMDB was sent beyond a buffer, or 0

pages == <<breaks, paged, pagesSeen, pagesStart>>
fixedVars == <<vars, pages, overread>>

-----------------------------------------------------------------------------
(* Pages *)

\* The page with the record r, where the data in cuts begin a new page.
Page(r, cuts) == {s \in db : s[1] = r[1] /\ \A b \in cuts : b <= s[2] <=> b <= r[2]}

PageOf(r, cuts) == IF r = NoRecord THEN {} ELSE Page(r, cuts)

\* Pages are for keys with several values: nothing under src/ reads one, or shows what LMDB returns,
\* for a key with a single value.
HasDuplicates(p) == \E r \in db : r[1] = p[1] /\ r # p

\* The page mdb_cursor_get finds, {} for MDB_NOTFOUND; the cursor is then on its last record.
\* LMDB returns a page whole, also what is before the cursor's position.
FindPage(op, p, cuts) ==
  CASE op = "GET_MULTIPLE"  -> Page(p, cuts)
    [] op = "NEXT_MULTIPLE" -> PageOf(Find("NEXT_DUP", p), cuts)
    [] op = "PREV_MULTIPLE" -> PageOf(Find("PREV_DUP", Least(Page(p, cuts))), cuts)

\* A slip: the second operation of a loop over single values.
PageIterators_Single ==
  [ForwardMultiple |-> <<"GET_MULTIPLE", "NEXT_MULTIPLE">>,
   ReverseMultiple |-> <<"GET_MULTIPLE", "GET_MULTIPLE">>]

\* The operation of the first MoveNext and that of the others.
PageIterators ==
  [ForwardMultiple |-> <<"GET_MULTIPLE", "NEXT_MULTIPLE">>,
   ReverseMultiple |-> <<"GET_MULTIPLE", "PREV_MULTIPLE">>]

Cuts == SUBSET {r[2] : r \in Records}
LastOf(page) == IF page = {} THEN pos ELSE Greatest(page)

\* GetMultiple, GetNextMultiple, GetPreviousMultiple outside of a loop.
MovePage(op, cuts) ==
  /\ NoLoops /\ paged = NoLoop /\ pos \in db /\ HasDuplicates(pos)
  /\ pos' = LastOf(FindPage(op, pos, cuts))
  /\ UNCHANGED <<db, loops, pages, overread>>

\* foreach over the pages of the key the cursor is on, on its own or in an iteration by key.
ForeachPage(i, cuts) ==
  /\ inner = NoLoop /\ paged = NoLoop /\ pos \in db /\ HasDuplicates(pos)
  /\ outer # NoLoop => /\ outer.isCurrent
                       /\ ItemsIterators[outer.iter][2] \in {"NEXT_NODUP", "PREV_NODUP"}
  /\ breaks' = cuts
  /\ paged' = [NoLoop EXCEPT !.iter = i]
  /\ pagesStart' = pos
  /\ UNCHANGED <<vars, pagesSeen, overread>>

\* MoveNext of the same ValuesEnumerator as in CursorNavigation; Current is a span of a page.
MovePaged ==
  LET ops  == PageIterators[paged.iter]
      page == FindPage(IF paged.isInitialized THEN ops[2] ELSE ops[1], pos, breaks)
  IN
  /\ paged # NoLoop /\ (paged.isInitialized => paged.isCurrent)
  /\ paged' = [paged EXCEPT !.isInitialized = TRUE, !.isCurrent = page # {}]
  /\ pos' = LastOf(page)
  /\ pagesSeen' = IF page = {} THEN pagesSeen ELSE Append(pagesSeen, page)
  /\ UNCHANGED <<db, loops, breaks, pagesStart, overread>>

LeavePaged ==
  /\ paged # NoLoop
  /\ paged' = NoLoop /\ breaks' = {} /\ pagesSeen' = << >> /\ pagesStart' = NoRecord
  /\ UNCHANGED <<vars, overread>>

-----------------------------------------------------------------------------
(* PutMultiple *)

\* PutMultiple, unless TooManyFixedItems is thrown. LMDB reports in itemCount how many items it
\* has stored: all of them, or fewer when it fails and PutMultiple throws. A count the buffer
\* does not hold, or a negative one, which is a huge size_t, sends it beyond the buffer.
PutMultiple(key, items, itemCount) ==
  /\ NoLoops /\ paged = NoLoop
  /\ ~TooManyItems(itemCount, DataSize * Len(items))
  /\ IF itemCount \in 1..Len(items)
     THEN /\ \E stored \in 0..itemCount :
               LET new == {<<key, items[i]>> : i \in 1..stored} IN
               /\ new \subseteq Records
               /\ db' = db \cup new
               /\ pos' \in IF stored = itemCount THEN {<<key, items[stored]>>}
                                                 ELSE Records \cup {NoRecord}
          /\ UNCHANGED overread
     ELSE overread' = itemCount /\ UNCHANGED <<db, pos>>
  /\ UNCHANGED <<loops, pages>>

-----------------------------------------------------------------------------
(* Specification *)

Buffers == BoundedSeq({r[2] : r \in Records}, MaxItems)

FixedInit ==
  /\ Init
  /\ breaks = {} /\ paged = NoLoop /\ pagesSeen = << >> /\ pagesStart = NoRecord
  /\ overread = 0

\* The operations of CursorNavigation, of which none runs inside a loop over pages.
Inherited == paged = NoLoop /\ Next /\ UNCHANGED <<pages, overread>>

\* After a native call that read beyond its buffer anything may happen: the model stays there.
FixedNext ==
  \/ /\ overread = 0
     /\ \/ Inherited
        \/ \E op \in {"GET_MULTIPLE", "NEXT_MULTIPLE", "PREV_MULTIPLE"}, cuts \in Cuts :
             MovePage(op, cuts)
        \/ \E i \in DOMAIN PageIterators, cuts \in Cuts : ForeachPage(i, cuts)
        \/ MovePaged \/ LeavePaged
        \/ \E k \in {r[1] : r \in Records}, items \in Buffers, n \in ItemCounts :
             PutMultiple(k, items, n)
  \/ overread # 0 /\ UNCHANGED fixedVars

FixedSpec == FixedInit /\ [][FixedNext]_fixedVars

-----------------------------------------------------------------------------
(* Properties *)

PagesForward == paged.iter = "ForwardMultiple"

\* What the documentation of the iterators promises: the duplicates from the position at the start
\* on, in the iterator's direction.
PagesPromise ==
  {r \in db : /\ pagesStart # NoRecord
             /\ r[1] = pagesStart[1]
             /\ (r = pagesStart \/ Ahead(PagesForward, pagesStart, r))}

\* What the iterators yield: these, and the rest of the page the loop starts on.
PagesExpected == PagesPromise \cup PageOf(pagesStart, breaks)

\* A foreach over pages yields each page after, or for ReverseMultiple before, all it has yielded
\* so far, and in the end the duplicates from the position at its start on and the rest of its
\* first page, no more and no less, wherever LMDB cuts the pages and whatever loop it runs in.
PagesLoopVisitsAll ==
  /\ \A i, j \in DOMAIN pagesSeen : i < j =>
       \A r \in pagesSeen[i], s \in pagesSeen[j] : Ahead(PagesForward, r, s)
  /\ UNION {pagesSeen[i] : i \in DOMAIN pagesSeen} \subseteq PagesExpected
  /\ Finished(paged) => PagesExpected \subseteq UNION {pagesSeen[i] : i \in DOMAIN pagesSeen}

\* FixedMultiValueCursor.cs 97 and 103: ForwardMultiple and ReverseMultiple iterate over duplicates
\* "from the current position on". Their first page has also what is on the other side of it.
PagesFromPosition == \A i \in DOMAIN pagesSeen : pagesSeen[i] \subseteq PagesPromise

\* The check on the size keeps LMDB within the caller's buffer for every positive count whose
\* size in bytes an int can hold; the others get past it (see the README).
ReadsWithinBuffer == overread > 0 => ~SizeFits(overread)

=============================================================================
