------------------------ MODULE DatabaseRegistryProofs ------------------------
(***************************************************************************)
(* Proofs about DatabaseRegistry, for any number of threads, transactions, *)
(* databases, names and dbi slots: handles refer to the dbi of their own   *)
(* name, the dictionary has exactly the committed databases, an abort      *)
(* leaves nothing usable, and the promise of DatabaseContract is kept.     *)
(***************************************************************************)
EXTENDS DatabaseRegistry, SequenceTheorems, TLAPS

\* The databases a transaction has opened and not published.
Private(x) == ToSet(newDatabases[x])

\* Its commit has succeeded, and Committed is still to come.
Publishing(x) == At("closed", x) \/ At("committed", x)

Closers == {"closeDbi", "clear", "notify"}

\* A list has a Database once.
Distinct == \A x \in Txns : \A i, j \in DOMAIN newDatabases[x] :
              newDatabases[x][i] = newDatabases[x][j] => i = j

\* What a thread in the middle of a call knows about its transaction and its database.
Knows(th) ==
  /\ pc[th] \in {"idle", "lookup"} \cup Closers => curTxn[th] = NoTxn
  /\ pc[th] \notin {"idle", "lookup"} \cup Closers =>
       curTxn[th] \in Txns /\ owner[curTxn[th]] = th
  /\ pc[th] \in {"lock", "mutex"} => txn[curTxn[th]] = "unborn" /\ kind[curTxn[th]] # "none"
  /\ pc[th] = "open" =>
       txn[curTxn[th]] = "open" /\ kind[curTxn[th]] = "db" /\ curName[th] \in Names
  /\ pc[th] = "release" => txn[curTxn[th]] = "aborted"
  /\ pc[th] = "ended" => txn[curTxn[th]] \in {"failed", "aborted"}
  /\ pc[th] \in {"closed", "committed"} => txn[curTxn[th]] = "committed"
  /\ pc[th] \in Closers <=> curDb[th] # NoDb
  /\ pc[th] \in {"closeDbi", "notify"} => dbi[curDb[th]] = 0
  /\ pc[th] = "closeDbi" <=> handle[th] # 0
  /\ pc[th] = "clear" => Alive(curDb[th])
  /\ pc[th] \in Closers => disposed[curDb[th]] # "none"
  /\ pc[th] \in Closers /\ disposed[curDb[th]] = "new" => owner[creator[curDb[th]]] = th

Focus ==
  /\ \A th \in Threads : Knows(th)
  /\ \A th, t \in Threads : th # t /\ curDb[th] # NoDb => curDb[th] # curDb[t]
  /\ ~envOpen => \A th \in Threads : pc[th] = "idle"

\* A transaction and the databases it has opened.
Objects ==
  /\ \A x \in Txns : /\ kind[x] = "none" => txn[x] = "unborn"
                     /\ txn[x] = "unborn" => newDatabases[x] = << >>
                     /\ txn[x] = "failed" => "failed" \in lapses
  /\ \A d \in Dbs :
       /\ name[d] = NoName <=> disposed[d] = "none"
       /\ name[d] = NoName => dbi[d] = 0 /\ creator[d] = NoTxn
       /\ name[d] # NoName => creator[d] \in Txns /\ txn[creator[d]] # "unborn"
                              /\ kind[creator[d]] = "db"
       /\ disposed[d] = "committed" => txn[creator[d]] = "committed"

\* A usable Database that is not published is in the list of its transaction. A list has nothing
\* published until Committed gets to it, and nothing at all once the transaction's end is complete,
\* unless a name clashed.
Lists ==
  /\ \A x \in Txns, d \in Dbs : d \in Private(x) =>
       /\ creator[d] = x
       /\ txn[x] # "committed" \/ Publishing(x) => disposed[d] = "new"
       /\ disposed[d] = "new" => Alive(d) \/ Closing(d)
       /\ txn[x] = "committed" => Publishing(x) \/ "clash" \in lapses
       /\ txn[x] = "aborted" => At("release", x)
  /\ \A d \in Dbs : Alive(d) /\ disposed[d] = "new" => d \in Private(creator[d])

\* The dictionary has published databases, each under its own key. Until a write is lost, it has
\* all that are usable or being closed.
Registered ==
  /\ \A e \in databases : e = Entry(e[2]) /\ disposed[e[2]] = "committed"
  /\ \A e, f \in databases : e[1] = f[1] => e = f
  /\ "raced" \notin lapses =>
       /\ \A e \in databases : Alive(e[2]) \/ Closing(e[2])
       /\ \A d \in Dbs : disposed[d] = "committed" /\ (Alive(d) \/ Closing(d)) =>
                           Entry(d) \in databases
  /\ ~envOpen => databases = {}

\* The writer mutex: one write transaction, and new dbis are those of a database transaction.
Writing ==
  /\ \A x \in Txns : envOpen /\ txn[x] = "open" => writer = x
  /\ writer # NoTxn => txn[writer] = "open"
  /\ writer = NoTxn \/ kind[writer] = "write" => fresh = {}

\* A Database that is neither being dropped nor aborted.
Solid(d) == /\ Alive(d) /\ ~At("release", creator[d])
            /\ \A th \in Threads : pc[th] = "clear" => curDb[th] # d

\* Native handles belong to one Database each, or to the Dispose that is about to close one.
Owned ==
  envOpen /\ lapses \cap {"aliased", "failed"} = {} =>
    /\ \A d \in Dbs : Solid(d) =>
         /\ table[dbi[d]] = name[d]
         /\ dbi[d] \in fresh => creator[d] = writer
         /\ \A e \in Dbs : Solid(e) /\ dbi[e] = dbi[d] => d = e
    /\ \A th \in Threads : pc[th] = "closeDbi" =>
         /\ table[handle[th]] = name[curDb[th]]
         /\ handle[th] \in fresh => owner[writer] = th
         /\ \A d \in Dbs : Solid(d) => dbi[d] # handle[th]
         /\ \A t \in Threads \ {th} : handle[t] # handle[th]

DatabaseInv ==
  /\ TypeOK /\ Distinct /\ Focus /\ Objects /\ Lists /\ Registered /\ Writing /\ Owned

-----------------------------------------------------------------------------
(* Lists of databases *)

\* List.Remove takes one database out of a list that has it once, and nothing else.
LEMMA RemovedOne ==
  ASSUME NEW s \in Seq(Dbs), NEW d \in Dbs,
         \A i, j \in DOMAIN s : s[i] = s[j] => i = j
  PROVE  LET r == Without(s, d) IN
         /\ r \in Seq(Dbs)
         /\ ToSet(r) = ToSet(s) \ {d}
         /\ \A i, j \in DOMAIN r : r[i] = r[j] => i = j
<1> DEFINE r == Without(s, d)
<1>1. CASE d \notin ToSet(s)
  BY <1>1 DEF Without
<1>2. CASE d \in ToSet(s)
  <2> DEFINE k == CHOOSE i \in DOMAIN s : s[i] = d
  <2>1. k \in DOMAIN s /\ s[k] = d
    BY <1>2 DEF ToSet
  <2>2. r = RemoveAt(s, k)
    BY <1>2 DEF Without
  <2> HIDE DEF k
  <2>3. k \in 1..Len(s) /\ s[k] = d /\ Len(s) \in Nat
    BY <2>1
  <2>4. r = SubSeq(s, 1, k - 1) \o SubSeq(s, k + 1, Len(s))
    BY <2>2 DEF RemoveAt
  <2> HIDE DEF r
  <2>5. /\ r \in Seq(Dbs) /\ Len(r) = Len(s) - 1
        /\ \A i \in 1..(Len(s) - 1) : r[i] = IF i < k THEN s[i] ELSE s[i + 1]
    <3> DEFINE a == SubSeq(s, 1, k - 1)
               b == SubSeq(s, k + 1, Len(s))
    <3>1. a \in Seq(Dbs) /\ Len(a) = k - 1 /\ \A i \in 1..(k - 1) : a[i] = s[i]
      BY <2>3
    <3>2. b \in Seq(Dbs) /\ Len(b) = Len(s) - k /\ \A i \in 1..(Len(s) - k) : b[i] = s[i + k]
      BY <2>3
    <3> HIDE DEF a, b
    <3>3. /\ a \o b \in Seq(Dbs) /\ Len(a \o b) = Len(a) + Len(b)
          /\ \A i \in 1..(Len(a) + Len(b)) :
               (a \o b)[i] = IF i <= Len(a) THEN a[i] ELSE b[i - Len(a)]
      BY <3>1, <3>2, ConcatProperties
    <3>4. r = a \o b
      BY <2>4 DEF a, b
    <3>5. ASSUME NEW i \in 1..(Len(s) - 1) PROVE r[i] = IF i < k THEN s[i] ELSE s[i + 1]
      <4>1. CASE i < k
        BY <2>3, <3>1, <3>2, <3>3, <3>4, <4>1
      <4>2. CASE i >= k
        <5>1. i - (k - 1) \in 1..(Len(s) - k) /\ (i - (k - 1)) + k = i + 1
          BY <2>3, <4>2
        <5>2. b[i - (k - 1)] = s[i + 1]
          BY <3>2, <5>1
        <5>3. QED
          BY <2>3, <3>1, <3>2, <3>3, <3>4, <4>2, <5>2
      <4>3. QED
        BY <2>3, <4>1, <4>2
    <3>6. Len(r) = Len(s) - 1
      BY <2>3, <3>1, <3>2, <3>3, <3>4
    <3>7. QED
      BY <3>3, <3>4, <3>5, <3>6
  <2>6. \A i \in 1..Len(s) : i # k => s[i] # d
    BY <2>3
  <2>7. ToSet(r) \subseteq ToSet(s) \ {d}
    BY <2>3, <2>5, <2>6 DEF ToSet
  <2>8. ASSUME NEW e \in ToSet(s) \ {d} PROVE e \in ToSet(r)
    <3>1. PICK i \in 1..Len(s) : s[i] = e /\ i # k
      BY <2>3, <2>8 DEF ToSet
    <3>2. CASE i < k
      BY <2>3, <2>5, <3>1, <3>2 DEF ToSet
    <3>3. CASE i > k
      <4>1. i - 1 \in 1..(Len(s) - 1) /\ r[i - 1] = e
        BY <2>3, <2>5, <3>1, <3>3
      <4>2. QED
        BY <2>5, <4>1 DEF ToSet
    <3>4. QED
      BY <2>3, <3>1, <3>2, <3>3
  <2>9. ASSUME NEW i \in 1..(Len(s) - 1), NEW j \in 1..(Len(s) - 1), r[i] = r[j] PROVE i = j
    <3> DEFINE from(n) == IF n < k THEN n ELSE n + 1
    <3>1. \A n \in 1..(Len(s) - 1) : from(n) \in 1..Len(s) /\ r[n] = s[from(n)]
      BY <2>3, <2>5
    <3>2. from(i) = from(j)
      BY <2>9, <3>1
    <3>3. QED
      BY <2>3, <3>2
  <2>10. QED
    BY <2>5, <2>7, <2>8, <2>9 DEF r
<1>3. QED
  BY <1>1, <1>2

\* Committed adds part of its list, under keys that are free and tell its databases apart.
LEMMA AddedPart ==
  ASSUME NEW s \in Seq(Dbs)
  PROVE  /\ Added(s) \subseteq ToSet(s) /\ ToSet(s) \subseteq Dbs
         /\ \A d \in Added(s) : ~KeyTaken(name[d])
         /\ \A d, e \in Added(s) : Fold[name[d]] = Fold[name[e]] => d = e
<1>1. Added(s) \subseteq ToSet(s) /\ ToSet(s) \subseteq Dbs
  BY DEF Added, ToSet
<1>2. DOMAIN s = 1..Len(s) /\ Len(s) \in Nat
  OBVIOUS
<1>3. ASSUME NEW d \in Added(s)
      PROVE  \E i \in 1..Len(s) : s[i] = d /\ \A j \in 1..i : ~Clashes(s, j)
  BY <1>2 DEF Added
<1>4. ASSUME NEW d \in Added(s) PROVE ~KeyTaken(name[d])
  <2>1. PICK i \in 1..Len(s) : s[i] = d /\ \A j \in 1..i : ~Clashes(s, j)
    BY <1>3
  <2>2. ~Clashes(s, i)
    BY <1>2, <2>1
  <2>3. QED
    BY <2>1, <2>2 DEF Clashes
<1>5. ASSUME NEW d \in Added(s), NEW e \in Added(s), Fold[name[d]] = Fold[name[e]]
      PROVE  d = e
  <2>1. PICK i \in 1..Len(s) : s[i] = d /\ \A j \in 1..i : ~Clashes(s, j)
    BY <1>3
  <2>2. PICK k \in 1..Len(s) : s[k] = e /\ \A j \in 1..k : ~Clashes(s, j)
    BY <1>3
  <2>3. ~Clashes(s, i) /\ ~Clashes(s, k)
    BY <1>2, <2>1, <2>2
  <2>4. ~(i < k) /\ ~(k < i)
    BY <1>2, <1>5, <2>1, <2>2, <2>3 DEF Clashes
  <2>5. QED
    BY <1>2, <2>1, <2>2, <2>4
<1>6. QED
  BY <1>1, <1>4, <1>5

\* What the four steps that change a list do to it.
LEMMA ListSame ==
  ASSUME UNCHANGED newDatabases
  PROVE  (Distinct => Distinct') /\ \A x \in Txns : Private(x)' = Private(x)
BY DEF Distinct, Private

\* A list that is emptied.
LEMMA ListEmptied ==
  ASSUME TypeOK, Distinct, NEW t \in Txns, newDatabases' = [newDatabases EXCEPT ![t] = << >>]
  PROVE  /\ newDatabases' \in [Txns -> Seq(Dbs)] /\ Distinct'
         /\ \A x \in Txns : Private(x)' = IF x = t THEN {} ELSE Private(x)
BY DEF TypeOK, Distinct, Private, ToSet

\* A list that gets a database it did not have.
LEMMA ListGrows ==
  ASSUME TypeOK, Distinct, NEW t \in Txns, NEW d \in Dbs, d \notin Private(t),
         newDatabases' = [newDatabases EXCEPT ![t] = Append(@, d)]
  PROVE  /\ newDatabases' \in [Txns -> Seq(Dbs)] /\ Distinct'
         /\ \A x \in Txns : Private(x)' = IF x = t THEN Private(x) \cup {d} ELSE Private(x)
<1> DEFINE s == newDatabases[t]
<1>1. s \in Seq(Dbs) /\ Len(s) \in Nat /\ DOMAIN s = 1..Len(s)
  BY DEF TypeOK
<1>2. \A i \in 1..Len(s) : s[i] # d
  BY <1>1 DEF Private, ToSet
<1>3. \A i, j \in 1..Len(s) : s[i] = s[j] => i = j
  BY <1>1 DEF Distinct
<1>4. newDatabases'[t] = Append(s, d) /\ \A x \in Txns \ {t} : newDatabases'[x] = newDatabases[x]
  BY DEF TypeOK
<1> DEFINE r == Append(s, d)
<1> HIDE DEF s
<1>5. /\ r \in Seq(Dbs) /\ Len(r) = Len(s) + 1 /\ r[Len(s) + 1] = d
      /\ \A i \in 1..Len(s) : r[i] = s[i]
  BY <1>1, AppendProperties
<1> HIDE DEF r
<1>6. \A i \in 1..(Len(s) + 1) : i = Len(s) + 1 \/ i \in 1..Len(s)
  BY <1>1
<1>7. ASSUME NEW i \in 1..(Len(s) + 1), NEW j \in 1..(Len(s) + 1), r[i] = r[j] PROVE i = j
  BY <1>2, <1>3, <1>5, <1>6, <1>7
<1>8. DOMAIN r = 1..(Len(s) + 1)
  BY <1>1, <1>5
<1>9. ToSet(r) = ToSet(s) \cup {d}
  BY <1>1, <1>5, <1>6, <1>8 DEF ToSet
<1>10. newDatabases' \in [Txns -> Seq(Dbs)]
  BY <1>5 DEF TypeOK, r, s
<1>11. Distinct'
  BY <1>4, <1>7, <1>8 DEF Distinct, r
<1>12. Private(t)' = Private(t) \cup {d}
  BY <1>4, <1>9 DEF Private, r, s
<1>13. \A x \in Txns \ {t} : Private(x)' = Private(x)
  BY <1>4 DEF Private
<1>14. QED
  BY <1>10, <1>11, <1>12, <1>13

\* A list that loses a database.
LEMMA ListShrinks ==
  ASSUME TypeOK, Distinct, NEW t \in Txns, NEW d \in Dbs,
         newDatabases' = [newDatabases EXCEPT ![t] = Without(@, d)]
  PROVE  /\ newDatabases' \in [Txns -> Seq(Dbs)] /\ Distinct'
         /\ \A x \in Txns : Private(x)' = IF x = t THEN Private(x) \ {d} ELSE Private(x)
<1> DEFINE s == newDatabases[t]
           r == Without(s, d)
<1>1. newDatabases'[t] = r /\ \A x \in Txns \ {t} : newDatabases'[x] = newDatabases[x]
  BY DEF TypeOK
<1>2. s \in Seq(Dbs) /\ \A i, j \in DOMAIN s : s[i] = s[j] => i = j
  BY DEF TypeOK, Distinct
<1>3. /\ r \in Seq(Dbs) /\ ToSet(r) = ToSet(s) \ {d}
      /\ \A i, j \in DOMAIN r : r[i] = r[j] => i = j
  BY <1>2, RemovedOne
<1> HIDE DEF r
<1>4. newDatabases' \in [Txns -> Seq(Dbs)]
  BY <1>3 DEF TypeOK, r
<1>5. Distinct'
  BY <1>1, <1>3 DEF Distinct
<1>6. Private(t)' = Private(t) \ {d}
  BY <1>1, <1>3 DEF Private
<1>7. \A x \in Txns \ {t} : Private(x)' = Private(x)
  BY <1>1 DEF Private
<1>8. QED
  BY <1>4, <1>5, <1>6, <1>7

\* The lists after each of these steps.
LEMMA OpenNativeLists ==
  ASSUME DatabaseInv, NEW th \in Threads, NEW d \in Dbs, OpenNative(th, d)
  PROVE  /\ curTxn[th] \in Txns /\ newDatabases' \in [Txns -> Seq(Dbs)] /\ Distinct'
         /\ \A x \in Txns : Private(x)' = IF x = curTxn[th] THEN Private(x) \cup {d} ELSE Private(x)
<1>1. pc[th] = "open" /\ name[d] = NoName
      /\ newDatabases' = [newDatabases EXCEPT ![curTxn[th]] = Append(@, d)]
  BY DEF OpenNative
<1>2. curTxn[th] \in Txns
  BY <1>1 DEF DatabaseInv, Focus, Knows, Closers
<1>3. d \notin Private(curTxn[th])
  BY <1>1, <1>2, DatabaseAssumption DEF DatabaseInv, Objects, Lists
<1>4. TypeOK /\ Distinct
  BY DEF DatabaseInv
<1>5. QED
  BY <1>1, <1>2, <1>3, <1>4, ListGrows

\* NewDatabaseDisposed takes the database out of its creator's list.
LEMMA NewDatabaseDisposedLists ==
  ASSUME DatabaseInv, NEW th \in Threads, NewDatabaseDisposed(th)
  PROVE  /\ curDb[th] \in Dbs /\ creator[curDb[th]] \in Txns
         /\ newDatabases' \in [Txns -> Seq(Dbs)] /\ Distinct'
         /\ \A x \in Txns :
              Private(x)' = IF x = creator[curDb[th]] THEN Private(x) \ {curDb[th]} ELSE Private(x)
<1> DEFINE d == curDb[th]
<1>1. pc[th] = "notify" /\ disposed[d] = "new"
      /\ newDatabases' = [newDatabases EXCEPT ![creator[d]] = Without(@, d)]
  BY DEF NewDatabaseDisposed
<1>2. TypeOK /\ Distinct
  BY DEF DatabaseInv
<1>3. d \in Dbs
  BY <1>1, <1>2 DEF TypeOK, DatabaseInv, Focus, Knows, Closers
<1>4. creator[d] \in Txns
  BY <1>1, <1>3 DEF DatabaseInv, Objects
<1> HIDE DEF d
<1>5. QED
  BY <1>1, <1>2, <1>3, <1>4, ListShrinks DEF d

\* ReleaseManagedResources empties the list and clears the handles of what was in it.
LEMMA ReleaseLists ==
  ASSUME DatabaseInv, NEW th \in Threads, ReleaseManagedResources(th)
  PROVE  /\ curTxn[th] \in Txns /\ newDatabases' \in [Txns -> Seq(Dbs)] /\ Distinct'
         /\ \A x \in Txns : Private(x)' = IF x = curTxn[th] THEN {} ELSE Private(x)
         /\ dbi' = [d \in Dbs |-> IF d \in Private(curTxn[th]) THEN 0 ELSE dbi[d]]
<1>1. pc[th] = "release" /\ newDatabases' = [newDatabases EXCEPT ![curTxn[th]] = << >>]
  BY DEF ReleaseManagedResources
<1>2. curTxn[th] \in Txns
  BY <1>1 DEF DatabaseInv, Focus, Knows, Closers
<1>3. TypeOK /\ Distinct
  BY DEF DatabaseInv
<1>4. dbi' = [d \in Dbs |-> IF d \in Private(curTxn[th]) THEN 0 ELSE dbi[d]]
  BY DEF ReleaseManagedResources, Private
<1>5. QED
  BY <1>1, <1>2, <1>3, <1>4, ListEmptied

\* What Committed adds, and what it leaves in the list.
Published(x) == Added(newDatabases[x])

\* Committed publishes the whole list and empties it, unless a name clashes.
LEMMA CommittedLists ==
  ASSUME DatabaseInv, NEW th \in Threads, Committed(th)
  PROVE  /\ curTxn[th] \in Txns /\ newDatabases' \in [Txns -> Seq(Dbs)] /\ Distinct'
         /\ \/ /\ Published(curTxn[th]) = Private(curTxn[th])
               /\ \A x \in Txns : Private(x)' = IF x = curTxn[th] THEN {} ELSE Private(x)
            \/ "clash" \in lapses' /\ \A x \in Txns : Private(x)' = Private(x)
         /\ Published(curTxn[th]) \subseteq Private(curTxn[th])
         /\ Private(curTxn[th]) \subseteq Dbs
         /\ \A d \in Published(curTxn[th]) : \A e \in databases : e[1] # Fold[name[d]]
         /\ \A d, e \in Published(curTxn[th]) : Fold[name[d]] = Fold[name[e]] => d = e
         /\ \E lost \in SUBSET Published(curTxn[th]) :
              /\ databases' = databases \cup {Entry(d) : d \in Published(curTxn[th]) \ lost}
              /\ lost # {} => "raced" \in lapses'
         /\ disposed' = [d \in Dbs |-> IF d \in Published(curTxn[th]) THEN "committed"
                                       ELSE disposed[d]]
         /\ lapses \subseteq lapses' /\ lapses' \subseteq lapses \cup {"clash", "raced"}
<1> DEFINE x == curTxn[th]
           clash == Published(x) # Private(x)
<1>1. /\ pc[th] = "committed"
      /\ newDatabases' = IF clash THEN newDatabases ELSE [newDatabases EXCEPT ![x] = << >>]
      /\ disposed' = [d \in Dbs |-> IF d \in Published(x) THEN "committed" ELSE disposed[d]]
  BY DEF Committed, Published, Private
<1>2. PICK lost \in SUBSET Published(x) :
        /\ databases' = databases \cup {Entry(d) : d \in Published(x) \ lost}
        /\ lapses' = lapses \cup {l \in {"clash"} : clash} \cup {l \in {"raced"} : lost # {}}
  <2>1. PICK lost \in IF Racing(th) THEN SUBSET Published(x) ELSE {{}} :
          /\ databases' = databases \cup {Entry(d) : d \in Published(x) \ lost}
          /\ lapses' = lapses \cup {l \in {"clash"} : clash} \cup {l \in {"raced"} : lost # {}}
    BY DEF Committed, Published, Private
  <2>2. QED
    BY <2>1
<1>3. x \in Txns
  BY <1>1 DEF DatabaseInv, Focus, Knows, Closers
<1>4. TypeOK /\ Distinct
  BY DEF DatabaseInv
<1>5. newDatabases[x] \in Seq(Dbs)
  BY <1>3, <1>4 DEF TypeOK
<1>6. /\ Published(x) \subseteq Private(x) /\ Private(x) \subseteq Dbs
      /\ \A d \in Published(x) : ~KeyTaken(name[d])
      /\ \A d, e \in Published(x) : Fold[name[d]] = Fold[name[e]] => d = e
  BY <1>5, AddedPart DEF Published, Private
<1>7. \A d \in Published(x) : \A e \in databases : e[1] # Fold[name[d]]
  BY <1>6 DEF KeyTaken
<1> HIDE DEF x
<1>8. CASE clash
  <2>1. UNCHANGED newDatabases
    BY <1>1, <1>8
  <2>2. /\ newDatabases' \in [Txns -> Seq(Dbs)] /\ Distinct'
        /\ \A y \in Txns : Private(y)' = Private(y)
    BY <1>4, <2>1, ListSame DEF TypeOK
  <2>3. "clash" \in lapses'
    BY <1>2, <1>8
  <2>4. QED
    BY <1>1, <1>2, <1>3, <1>6, <1>7, <2>2, <2>3 DEF x
<1>9. CASE ~clash
  <2>1. newDatabases' = [newDatabases EXCEPT ![x] = << >>]
    BY <1>1, <1>9
  <2>2. /\ newDatabases' \in [Txns -> Seq(Dbs)] /\ Distinct'
        /\ \A y \in Txns : Private(y)' = IF y = x THEN {} ELSE Private(y)
    BY <1>3, <1>4, <2>1, ListEmptied
  <2>3. QED
    BY <1>1, <1>2, <1>3, <1>6, <1>7, <1>9, <2>2 DEF x
<1>10. QED
  BY <1>8, <1>9

\* A step keeps every variable's type.
LEMMA TypeNext == DatabaseInv /\ [Next]_vars => TypeOK'
<1> SUFFICES ASSUME DatabaseInv, [Next]_vars PROVE TypeOK'
  OBVIOUS
<1> USE DatabaseAssumption DEF TypeOK, Labels, Focus, Knows, Closers, vars, objects, txns,
     threads, nativeSt
<1>a. TypeOK /\ Focus
  BY DEF DatabaseInv
<1>c. Objects /\ Lists
  BY DEF DatabaseInv
<1>1. ASSUME NEW th \in Threads, NEW x \in Txns, BeginDatabaseTransaction(th, x) PROVE TypeOK'
  BY <1>1, <1>a DEF BeginDatabaseTransaction, Begin, MayBegin, Idle, Goto
<1>2. ASSUME NEW th \in Threads, NEW x \in Txns, BeginWriteTransaction(th, x) PROVE TypeOK'
  BY <1>2, <1>a DEF BeginWriteTransaction, Begin, MayBegin, Idle, Goto
<1>3. ASSUME NEW th \in Threads, LockDbTxn(th) PROVE TypeOK'
  BY <1>3, <1>a DEF LockDbTxn, Goto
<1>4. ASSUME NEW th \in Threads, BeginNative(th) PROVE TypeOK'
  BY <1>4, <1>a DEF BeginNative, Leave, Goto
<1>5. ASSUME NEW th \in Threads, NEW x \in Txns, Commit(th, x) PROVE TypeOK'
  <2>1. table' \in [Slots -> Names \cup {NoName}]
    BY <1>5, <1>a DEF Commit, EndNative
  <2>2. txn' \in [Txns -> {"unborn", "open", "committed", "failed", "aborted"}]
    BY <1>5, <1>a DEF Commit, EndNative
  <2>3. pc' \in [Threads -> Labels] /\ curTxn' \in [Threads -> Txns \cup {NoTxn}]
    <3>1. CASE kind[x] = "db"
      <4>1. pc' = [pc EXCEPT ![th] = "closed"] /\ curTxn' = [curTxn EXCEPT ![th] = x]
        BY <1>5, <3>1 DEF Commit, EndNative, Goto
      <4>2. QED
        BY <1>a, <4>1
    <3>2. CASE kind[x] # "db"
      BY <1>5, <1>a, <3>2 DEF Commit, EndNative
    <3>3. QED
      BY <3>1, <3>2
  <2>4. lapses' \subseteq Lapses
    BY <1>5, <1>a DEF Commit, Lapses
  <2>5. QED
    BY <1>5, <1>a, <2>1, <2>2, <2>3, <2>4 DEF Commit, EndNative
<1>6. ASSUME NEW th \in Threads, NEW x \in Txns, CommitFails(th, x) PROVE TypeOK'
  <2>1. table' \in [Slots -> Names \cup {NoName}]
    BY <1>6, <1>a DEF CommitFails, EndNative
  <2>2. txn' \in [Txns -> {"unborn", "open", "committed", "failed", "aborted"}]
    BY <1>6, <1>a DEF CommitFails, EndNative
  <2>3. pc' \in [Threads -> Labels] /\ curTxn' \in [Threads -> Txns \cup {NoTxn}]
    <3>1. CASE kind[x] = "db"
      <4>1. pc' = [pc EXCEPT ![th] = "ended"] /\ curTxn' = [curTxn EXCEPT ![th] = x]
        BY <1>6, <3>1 DEF CommitFails, EndNative, Goto
      <4>2. QED
        BY <1>a, <4>1
    <3>2. CASE kind[x] # "db"
      BY <1>6, <1>a, <3>2 DEF CommitFails, EndNative
    <3>3. QED
      BY <3>1, <3>2
  <2>4. lapses' \subseteq Lapses
    BY <1>6, <1>a DEF CommitFails, Lapses
  <2>5. QED
    BY <1>6, <1>a, <2>1, <2>2, <2>3, <2>4 DEF CommitFails, EndNative
<1>7. ASSUME NEW th \in Threads, NEW x \in Txns, Dispose(th, x) PROVE TypeOK'
  <2>1. table' \in [Slots -> Names \cup {NoName}]
    BY <1>7, <1>a DEF Dispose, EndNative
  <2>2. txn' \in [Txns -> {"unborn", "open", "committed", "failed", "aborted"}]
    BY <1>7, <1>a DEF Dispose, EndNative
  <2>3. pc' \in [Threads -> Labels] /\ curTxn' \in [Threads -> Txns \cup {NoTxn}]
    <3>1. CASE kind[x] = "db"
      <4>1. pc' = [pc EXCEPT ![th] = "release"] /\ curTxn' = [curTxn EXCEPT ![th] = x]
        BY <1>7, <3>1 DEF Dispose, EndNative, Goto
      <4>2. QED
        BY <1>a, <4>1
    <3>2. CASE kind[x] # "db"
      BY <1>7, <1>a, <3>2 DEF Dispose, EndNative
    <3>3. QED
      BY <3>1, <3>2
  <2>4. lapses' \subseteq Lapses
    BY <1>7, <1>a DEF Dispose, Lapses
  <2>5. QED
    BY <1>7, <1>a, <2>1, <2>2, <2>3, <2>4 DEF Dispose, EndNative
<1>8. ASSUME NEW th \in Threads, ReleaseManagedResources(th) PROVE TypeOK'
  <2>1. newDatabases' \in [Txns -> Seq(Dbs)] /\ dbi' \in [Dbs -> Slots \cup {0}]
    BY <1>8, <1>a, ReleaseLists
  <2>2. QED
    BY <1>8, <1>a, <2>1 DEF ReleaseManagedResources, Goto
<1>9. ASSUME NEW th \in Threads, DatabaseTransactionClosed(th) PROVE TypeOK'
  <2>1. CASE pc[th] = "closed"
    <3>1. pc' = [pc EXCEPT ![th] = "committed"] /\ UNCHANGED <<curTxn, curDb, curName, handle>>
      BY <1>9, <2>1 DEF DatabaseTransactionClosed, Goto
    <3>2. QED
      BY <1>9, <1>a, <3>1 DEF DatabaseTransactionClosed
  <2>2. CASE pc[th] = "ended"
    <3>1. Leave(th)
      BY <1>9, <2>2 DEF DatabaseTransactionClosed
    <3>2. UNCHANGED <<envOpen, dbTxnLock, databases, objects, txns, nativeSt, lapses>>
      BY <1>9 DEF DatabaseTransactionClosed
    <3>3. QED
      BY <1>a, <3>1, <3>2 DEF Leave, Goto
  <2>3. QED
    BY <1>9, <2>1, <2>2 DEF DatabaseTransactionClosed
<1>10. ASSUME NEW th \in Threads, Committed(th) PROVE TypeOK'
  <2>1. PICK lost \in SUBSET Published(curTxn[th]) :
          databases' = databases \cup {Entry(d) : d \in Published(curTxn[th]) \ lost}
    BY <1>10, CommittedLists
  <2>2. \A d \in Published(curTxn[th]) : d \in Dbs /\ name[d] \in Names
    <3>1. Published(curTxn[th]) \subseteq Private(curTxn[th]) /\ Private(curTxn[th]) \subseteq Dbs
          /\ curTxn[th] \in Txns
      BY <1>10, CommittedLists
    <3>2. \A d \in Private(curTxn[th]) : name[d] # NoName
      BY <3>1, <1>c DEF Objects, Lists
    <3>3. QED
      BY <1>a, <3>1, <3>2
  <2>3. databases' \subseteq {Fold[n] : n \in Names} \X Dbs
    BY <1>a, <2>1, <2>2 DEF Entry
  <2>4. lapses' \subseteq Lapses /\ newDatabases' \in [Txns -> Seq(Dbs)]
    BY <1>10, <1>a, CommittedLists DEF Lapses
  <2>5. disposed' \in [Dbs -> {"none", "new", "committed"}]
    BY <1>10, <1>a DEF Committed
  <2>6. QED
    BY <1>10, <1>a, <2>3, <2>4, <2>5 DEF Committed, Leave, Goto
<1>11. ASSUME NEW th \in Threads, NEW x \in Txns, NEW n \in Names, OpenDatabase(th, x, n)
      PROVE  TypeOK'
  BY <1>11, <1>a DEF OpenDatabase, Idle, Goto
<1>12. ASSUME NEW th \in Threads, NEW d \in Dbs, OpenNative(th, d) PROVE TypeOK'
  <2>1. PICK s \in DbiFor(curName[th]) :
          /\ table' = [table EXCEPT ![s] = curName[th]]
          /\ fresh' = IF table[s] = curName[th] THEN fresh ELSE fresh \cup {s}
          /\ dbi' = [dbi EXCEPT ![d] = s]
          /\ lapses' = lapses \cup {l \in {"aliased"} : table[s] = curName[th]}
    BY <1>12 DEF OpenNative
  <2>2. s \in Slots
    BY <2>1 DEF DbiFor
  <2>3. curName[th] \in Names
    BY <1>12, <1>a DEF OpenNative
  <2>4. /\ table' \in [Slots -> Names \cup {NoName}] /\ fresh' \subseteq Slots
        /\ dbi' \in [Dbs -> Slots \cup {0}] /\ lapses' \subseteq Lapses
    <3>1. table' \in [Slots -> Names \cup {NoName}]
      BY <1>a, <2>1, <2>2, <2>3
    <3>2. fresh' \subseteq Slots
      BY <1>a, <2>1, <2>2
    <3>3. dbi' \in [Dbs -> Slots \cup {0}]
      BY <1>a, <2>1, <2>2
    <3>4. lapses' \subseteq Lapses
      BY <1>a, <2>1 DEF Lapses
    <3>5. QED
      BY <3>1, <3>2, <3>3, <3>4
  <2>5. newDatabases' \in [Txns -> Seq(Dbs)] /\ curTxn[th] \in Txns
    BY <1>12, OpenNativeLists
  <2>6. QED
    BY <1>12, <1>a, <2>3, <2>4, <2>5 DEF OpenNative, Leave, Goto
<1>13. ASSUME NEW th \in Threads, OpenFails(th) PROVE TypeOK'
  BY <1>13, <1>a DEF OpenFails, Leave, Goto
<1>14. ASSUME NEW th \in Threads, NEW d \in Dbs, DisposeDatabase(th, d) PROVE TypeOK'
  BY <1>14, <1>a DEF DisposeDatabase, MayClose, Idle, Goto
<1>15. ASSUME NEW th \in Threads, CloseDbi(th) PROVE TypeOK'
  BY <1>15, <1>a DEF CloseDbi, Goto
<1>16. ASSUME NEW th \in Threads, NEW x \in Txns, NEW d \in Dbs, Drop(th, x, d) PROVE TypeOK'
  BY <1>16, <1>a DEF Drop, MayClose, Idle, Goto
<1>17. ASSUME NEW th \in Threads, ClearHandle(th) PROVE TypeOK'
  BY <1>17, <1>a DEF ClearHandle, Goto
<1>18. ASSUME NEW th \in Threads, NewDatabaseDisposed(th) PROVE TypeOK'
  BY <1>18, <1>a, NewDatabaseDisposedLists DEF NewDatabaseDisposed, Leave, Goto
<1>19. ASSUME NEW th \in Threads, DatabaseDisposed(th) PROVE TypeOK'
  <2>1. databases' \subseteq databases /\ lapses' \subseteq Lapses
    BY <1>19, <1>a DEF DatabaseDisposed, Lapses
  <2>2. QED
    BY <1>19, <1>a, <2>1 DEF DatabaseDisposed, Leave, Goto
<1>20. ASSUME NEW th \in Threads, Lookup(th) PROVE TypeOK'
  BY <1>20, <1>a DEF Lookup, Idle, Goto
<1>21. ASSUME NEW th \in Threads, LookupEnds(th) PROVE TypeOK'
  BY <1>21, <1>a DEF LookupEnds, Leave, Goto
<1>22. ASSUME NEW th \in Threads, DisposeEnvironment(th) PROVE TypeOK'
  <2>1. txn' \in [Txns -> {"unborn", "open", "committed", "failed", "aborted"}]
    BY <1>22, <1>a DEF DisposeEnvironment
  <2>2. dbi' \in [Dbs -> Slots \cup {0}] /\ table' \in [Slots -> Names \cup {NoName}]
    BY <1>22, <1>a DEF DisposeEnvironment
  <2>3. QED
    BY <1>22, <1>a, <2>1, <2>2 DEF DisposeEnvironment
<1>23. CASE UNCHANGED vars
  BY <1>23, <1>a
<1>24. QED
  BY <1>1, <1>2, <1>3, <1>4, <1>5, <1>6, <1>7, <1>8, <1>9, <1>10, <1>11, <1>12, <1>13, <1>14,
     <1>15, <1>16, <1>17, <1>18, <1>19, <1>20, <1>21, <1>22, <1>23 DEF Next, Transaction,
     Database

\* What these steps do, object by object.
Others(th) ==
  \A t \in Threads \ {th} : /\ pc'[t] = pc[t] /\ curTxn'[t] = curTxn[t] /\ curDb'[t] = curDb[t]
                            /\ curName'[t] = curName[t] /\ handle'[t] = handle[t]

\* A call that returns.
LEMMA Left ==
  ASSUME TypeOK, NEW th \in Threads, Leave(th)
  PROVE  /\ Others(th)
         /\ pc'[th] = "idle" /\ curTxn'[th] = NoTxn /\ curDb'[th] = NoDb /\ handle'[th] = 0
BY DEF TypeOK, Leave, Goto, Others

\* The native end of a transaction.
LEMMA EndedNative ==
  ASSUME TypeOK, NEW th \in Threads, NEW x \in Txns, NEW result, NEW label,
         EndNative(th, x, result, label)
  PROVE  /\ Others(th) /\ curDb'[th] = curDb[th] /\ handle'[th] = handle[th]
         /\ kind[x] = "db" => pc'[th] = label /\ curTxn'[th] = x
         /\ kind[x] # "db" => pc'[th] = "idle" /\ curTxn'[th] = curTxn[th]
         /\ envOpen /\ pc[th] = "idle" /\ txn[x] = "open" /\ owner[x] = th
         /\ \A y \in Txns : txn'[y] = IF y = x THEN result ELSE txn[y]
<1>1. CASE kind[x] = "db"
  <2>1. pc' = [pc EXCEPT ![th] = label] /\ curTxn' = [curTxn EXCEPT ![th] = x]
    BY <1>1 DEF EndNative, Goto
  <2>2. QED
    BY <1>1, <2>1 DEF EndNative, TypeOK, Idle, Others
<1>2. CASE kind[x] # "db"
  BY <1>2 DEF EndNative, TypeOK, Idle, Others
<1>3. QED
  BY <1>1, <1>2

\* A new Database is alive and private to the transaction of its thread.
LEMMA OpenNativeStep ==
  ASSUME DatabaseInv, NEW th \in Threads, NEW d \in Dbs, NEW x, x = curTxn[th], OpenNative(th, d)
  PROVE  /\ pc[th] = "open" /\ x \in Txns /\ txn[x] = "open" /\ kind[x] = "db" /\ owner[x] = th
         /\ curName[th] \in Names /\ curDb[th] = NoDb /\ handle[th] = 0
         /\ name[d] = NoName /\ dbi[d] = 0 /\ disposed[d] = "none" /\ creator[d] = NoTxn
         /\ Others(th)
         /\ pc'[th] = "idle" /\ curTxn'[th] = NoTxn /\ curDb'[th] = NoDb /\ handle'[th] = 0
         /\ \A e \in Dbs \ {d} : /\ dbi'[e] = dbi[e] /\ disposed'[e] = disposed[e]
                                 /\ name'[e] = name[e] /\ creator'[e] = creator[e]
         /\ name'[d] = curName[th] /\ disposed'[d] = "new" /\ creator'[d] = x /\ dbi'[d] # 0
         /\ UNCHANGED <<envOpen, dbTxnLock, databases, txn, kind, owner, writer>>
         /\ lapses \subseteq lapses' /\ lapses' \subseteq lapses \cup {"aliased"}
         /\ \A y \in Txns : d \notin Private(y)
         /\ \A y \in Txns : Private(y)' = IF y = x THEN Private(y) \cup {d} ELSE Private(y)
         /\ \A y \in Txns \ {x} : newDatabases'[y] = newDatabases[y]
<1>1. TypeOK /\ Knows(th) /\ Objects /\ Lists
  BY DEF DatabaseInv, Focus
<1>2. pc[th] = "open" /\ name[d] = NoName
  BY DEF OpenNative
<1>3. /\ x \in Txns /\ txn[x] = "open" /\ kind[x] = "db" /\ owner[x] = th
      /\ curName[th] \in Names /\ curDb[th] = NoDb /\ handle[th] = 0
  BY <1>1, <1>2 DEF Knows, Closers
<1>4. dbi[d] = 0 /\ disposed[d] = "none" /\ creator[d] = NoTxn
  BY <1>1, <1>2 DEF Objects
<1>5. Others(th) /\ pc'[th] = "idle" /\ curTxn'[th] = NoTxn /\ curDb'[th] = NoDb /\ handle'[th] = 0
  BY <1>1, Left DEF OpenNative
<1>6. PICK s \in DbiFor(curName[th]) : dbi' = [dbi EXCEPT ![d] = s]
  BY DEF OpenNative
<1>7. s # 0
  BY <1>6, DatabaseAssumption DEF DbiFor
<1>8. /\ \A e \in Dbs \ {d} : /\ dbi'[e] = dbi[e] /\ disposed'[e] = disposed[e]
                              /\ name'[e] = name[e] /\ creator'[e] = creator[e]
      /\ name'[d] = curName[th] /\ disposed'[d] = "new" /\ creator'[d] = x /\ dbi'[d] # 0
  BY <1>1, <1>6, <1>7 DEF OpenNative, TypeOK
<1>9. /\ UNCHANGED <<envOpen, dbTxnLock, databases, txn, kind, owner, writer>>
      /\ lapses \subseteq lapses' /\ lapses' \subseteq lapses \cup {"aliased"}
  BY DEF OpenNative
<1>10. \A y \in Txns : Private(y)' = IF y = x THEN Private(y) \cup {d} ELSE Private(y)
  BY OpenNativeLists
<1>11. \A y \in Txns : d \notin Private(y)
  BY <1>1, <1>4, DatabaseAssumption DEF Lists
<1>12. \A y \in Txns \ {x} : newDatabases'[y] = newDatabases[y]
  BY <1>1 DEF OpenNative, TypeOK
<1>13. QED
  BY <1>2, <1>3, <1>4, <1>5, <1>8, <1>9, <1>10, <1>11, <1>12

\* After an abort the private databases, and no others, lose their handles.
LEMMA ReleaseStep ==
  ASSUME DatabaseInv, NEW th \in Threads, NEW x, x = curTxn[th], ReleaseManagedResources(th)
  PROVE  /\ pc[th] = "release" /\ x \in Txns /\ txn[x] = "aborted" /\ owner[x] = th
         /\ Others(th) /\ pc'[th] = "ended" /\ curDb[th] = NoDb
         /\ UNCHANGED <<envOpen, dbTxnLock, databases, name, creator, disposed, txn, kind, owner,
                        curTxn, curDb, curName, handle, table, fresh, writer, lapses>>
         /\ \A d \in Private(x) : d \in Dbs /\ creator[d] = x /\ disposed[d] = "new"
         /\ \A d \in Dbs : dbi'[d] = IF d \in Private(x) THEN 0 ELSE dbi[d]
         /\ \A y \in Txns : Private(y)' = IF y = x THEN {} ELSE Private(y)
         /\ newDatabases' = [newDatabases EXCEPT ![x] = << >>]
<1>1. TypeOK /\ Knows(th) /\ Lists
  BY DEF DatabaseInv, Focus
<1>2. /\ pc[th] = "release" /\ newDatabases' = [newDatabases EXCEPT ![x] = << >>]
      /\ UNCHANGED <<envOpen, dbTxnLock, databases, name, creator, disposed, txn, kind, owner,
                     curTxn, curDb, curName, handle, table, fresh, writer, lapses>>
  BY DEF ReleaseManagedResources, nativeSt
<1>3. x \in Txns /\ txn[x] = "aborted" /\ owner[x] = th /\ curDb[th] = NoDb
  BY <1>1, <1>2 DEF Knows, Closers
<1>4. Others(th) /\ pc'[th] = "ended"
  BY <1>1, <1>2 DEF ReleaseManagedResources, Others, Goto, TypeOK
<1>5. Private(x) \subseteq Dbs
  BY <1>1, <1>3 DEF TypeOK, Private, ToSet
<1>6. \A d \in Private(x) : creator[d] = x /\ disposed[d] = "new"
  BY <1>1, <1>3, <1>5 DEF Lists
<1>7. /\ dbi' = [d \in Dbs |-> IF d \in Private(x) THEN 0 ELSE dbi[d]]
      /\ \A y \in Txns : Private(y)' = IF y = x THEN {} ELSE Private(y)
  BY ReleaseLists
<1>8. QED
  BY <1>2, <1>3, <1>4, <1>5, <1>6, <1>7

\* Committed changes no handle, and what it publishes was private.
LEMMA CommittedStep ==
  ASSUME DatabaseInv, NEW th \in Threads, NEW x, x = curTxn[th], Committed(th)
  PROVE  /\ pc[th] = "committed" /\ x \in Txns /\ txn[x] = "committed" /\ owner[x] = th
         /\ Others(th) /\ curDb[th] = NoDb /\ handle[th] = 0
         /\ pc'[th] = "idle" /\ curTxn'[th] = NoTxn /\ curDb'[th] = NoDb /\ handle'[th] = 0
         /\ UNCHANGED <<envOpen, dbTxnLock, name, dbi, creator, txn, kind, owner, table, fresh,
                        writer>>
         /\ \A d \in Private(x) : d \in Dbs /\ creator[d] = x /\ disposed[d] = "new"
                                  /\ name[d] # NoName
         /\ Published(x) \subseteq Private(x)
         /\ \A d \in Dbs : disposed'[d] = IF d \in Published(x) THEN "committed" ELSE disposed[d]
         /\ \A y \in Txns \ {x} : newDatabases'[y] = newDatabases[y]
<1>1. TypeOK /\ Knows(th) /\ Lists /\ Objects
  BY DEF DatabaseInv, Focus
<1>2. /\ pc[th] = "committed"
      /\ UNCHANGED <<envOpen, dbTxnLock, name, dbi, creator, txn, kind, owner, table, fresh,
                     writer>>
  BY DEF Committed, nativeSt
<1>3. x \in Txns /\ txn[x] = "committed" /\ owner[x] = th /\ curDb[th] = NoDb /\ handle[th] = 0
  BY <1>1, <1>2 DEF Knows, Closers
<1>4. Others(th) /\ pc'[th] = "idle" /\ curTxn'[th] = NoTxn /\ curDb'[th] = NoDb /\ handle'[th] = 0
  BY <1>1, Left DEF Committed
<1>5. Private(x) \subseteq Dbs
  BY <1>1, <1>3 DEF TypeOK, Private, ToSet
<1>6. Publishing(x)
  BY <1>2 DEF Publishing, At
<1>7. \A d \in Private(x) : creator[d] = x /\ disposed[d] = "new"
  BY <1>1, <1>3, <1>5, <1>6 DEF Lists
<1>8. \A d \in Private(x) : name[d] # NoName
  BY <1>1, <1>5, <1>7 DEF Objects
<1>9. /\ Published(x) \subseteq Private(x)
      /\ \A d \in Dbs : disposed'[d] = IF d \in Published(x) THEN "committed" ELSE disposed[d]
  <2>1. Published(x) \subseteq Private(x)
    BY CommittedLists
  <2>2. disposed' = [d \in Dbs |-> IF d \in Published(x) THEN "committed" ELSE disposed[d]]
    BY DEF Committed, Published
  <2>3. QED
    BY <2>1, <2>2
<1>10. \A y \in Txns \ {x} : newDatabases'[y] = newDatabases[y]
  BY <1>1 DEF Committed, TypeOK
<1>11. QED
  BY <1>2, <1>3, <1>4, <1>5, <1>7, <1>8, <1>9, <1>10

\* The callback of a private Database changes its transaction's list only.
LEMMA NewDatabaseDisposedStep ==
  ASSUME DatabaseInv, NEW th \in Threads, NEW d, d = curDb[th], NewDatabaseDisposed(th)
  PROVE  /\ pc[th] = "notify" /\ d \in Dbs /\ dbi[d] = 0 /\ creator[d] \in Txns
         /\ disposed[d] = "new" /\ owner[creator[d]] = th /\ txn[creator[d]] # "unborn"
         /\ curTxn[th] = NoTxn
         /\ Others(th)
         /\ pc'[th] = "idle" /\ curTxn'[th] = NoTxn /\ curDb'[th] = NoDb /\ handle'[th] = 0
         /\ UNCHANGED <<envOpen, dbTxnLock, databases, name, dbi, creator, disposed, txn, kind,
                        owner, table, fresh, writer, lapses>>
         /\ \A y \in Txns : Private(y)' = IF y = creator[d] THEN Private(y) \ {d} ELSE Private(y)
         /\ \A y \in Txns \ {creator[d]} : newDatabases'[y] = newDatabases[y]
<1>1. TypeOK /\ Knows(th) /\ Objects
  BY DEF DatabaseInv, Focus
<1>2. /\ pc[th] = "notify" /\ disposed[d] = "new"
      /\ UNCHANGED <<envOpen, dbTxnLock, databases, name, dbi, creator, disposed, txn, kind, owner,
                     table, fresh, writer, lapses>>
  BY DEF NewDatabaseDisposed, objects, nativeSt
<1>3. d \in Dbs /\ dbi[d] = 0 /\ owner[creator[d]] = th /\ curTxn[th] = NoTxn
  BY <1>1, <1>2, NewDatabaseDisposedLists DEF Knows, Closers
<1>4. creator[d] \in Txns /\ txn[creator[d]] # "unborn"
  BY <1>1, <1>2, <1>3 DEF Objects
<1>5. Others(th) /\ pc'[th] = "idle" /\ curTxn'[th] = NoTxn /\ curDb'[th] = NoDb /\ handle'[th] = 0
  BY <1>1, Left DEF NewDatabaseDisposed
<1>6. \A y \in Txns : Private(y)' = IF y = creator[d] THEN Private(y) \ {d} ELSE Private(y)
  BY NewDatabaseDisposedLists
<1>7. \A y \in Txns \ {creator[d]} : newDatabases'[y] = newDatabases[y]
  BY <1>1 DEF NewDatabaseDisposed, TypeOK
<1>8. QED
  BY <1>2, <1>3, <1>4, <1>5, <1>6, <1>7

\* A step that leaves the lists alone and publishes nothing.
LEMMA ListsKept ==
  ASSUME Lists, UNCHANGED <<newDatabases, creator, disposed>>, lapses \subseteq lapses',
         \A x \in Txns : /\ txn'[x] # "committed" \/ Publishing(x)' =>
                              txn[x] # "committed" \/ Publishing(x)
                         /\ txn'[x] = "committed" => txn[x] = "committed"
                         /\ Publishing(x) => Publishing(x)',
         \A x \in Txns : txn'[x] = "aborted" /\ Private(x) # {} => At("release", x)',
         \A d \in Dbs : Alive(d)' => Alive(d),
         \A d \in Dbs : disposed[d] = "new" /\ (Alive(d) \/ Closing(d)) => Alive(d)' \/ Closing(d)'
  PROVE  Lists'
<1>1. \A x \in Txns : Private(x)' = Private(x)
  BY ListSame
<1>2. ASSUME NEW x \in Txns, NEW d \in Dbs, d \in Private(x)
      PROVE  /\ creator'[d] = x
             /\ txn'[x] # "committed" \/ Publishing(x)' => disposed'[d] = "new"
             /\ disposed'[d] = "new" => Alive(d)' \/ Closing(d)'
             /\ txn'[x] = "committed" => Publishing(x)' \/ "clash" \in lapses'
             /\ txn'[x] = "aborted" => At("release", x)'
  BY <1>2 DEF Lists
<1>3. ASSUME NEW d \in Dbs, Alive(d)', disposed'[d] = "new" PROVE (d \in Private(creator[d]))'
  <2>1. d \in Private(creator[d])
    BY <1>3 DEF Lists
  <2>2. QED
    BY <2>1 DEF Private
<1>4. QED
  BY <1>1, <1>2, <1>3 DEF Lists

\* Only a database transaction has a list, and after an abort it is about to be cleared.
LEMMA ListOwner ==
  ASSUME DatabaseInv, NEW x \in Txns, Private(x) # {}
  PROVE  kind[x] = "db" /\ (txn[x] = "aborted" => At("release", x))
<1>1. TypeOK /\ Objects /\ Lists
  BY DEF DatabaseInv
<1>2. PICK d \in Private(x) : d \in Dbs
  BY <1>1 DEF Private, TypeOK, ToSet
<1>3. creator[d] = x /\ (txn[x] = "aborted" => At("release", x))
  BY <1>1, <1>2 DEF Lists
<1>4. QED
  BY <1>1, <1>2, <1>3, DatabaseAssumption DEF Objects

\* A Database that stays in a list.
LEMMA InList ==
  ASSUME Lists, NEW x \in Txns, NEW d \in Dbs, d \in Private(x), lapses \subseteq lapses',
         creator'[d] = creator[d] /\ disposed'[d] = disposed[d] /\ txn'[x] = txn[x],
         Alive(d)' <=> Alive(d),
         Closing(d) => Closing(d)',
         Publishing(x)' <=> Publishing(x),
         At("release", x) => At("release", x)'
  PROVE  /\ creator'[d] = x
         /\ txn'[x] # "committed" \/ Publishing(x)' => disposed'[d] = "new"
         /\ disposed'[d] = "new" => Alive(d)' \/ Closing(d)'
         /\ txn'[x] = "committed" => Publishing(x)' \/ "clash" \in lapses'
         /\ txn'[x] = "aborted" => At("release", x)'
BY DEF Lists

\* A step that publishes and takes back nothing.
LEMMA RegisteredKept ==
  ASSUME TypeOK, Registered, UNCHANGED <<databases, envOpen>>, lapses \subseteq lapses',
         \A d \in Dbs : disposed'[d] = "committed" <=> disposed[d] = "committed",
         \A d \in Dbs : disposed[d] = "committed" =>
           /\ name'[d] = name[d]
           /\ Alive(d)' \/ Closing(d)' <=> Alive(d) \/ Closing(d)
  PROVE  Registered'
<1>1. \A e \in databases : e[2] \in Dbs
  BY DEF TypeOK
<1>2. \A d \in Dbs : disposed[d] = "committed" => Entry(d)' = Entry(d)
  BY DEF Entry
<1>3. ASSUME NEW e \in databases PROVE e = Entry(e[2])' /\ disposed'[e[2]] = "committed"
  BY <1>1, <1>2 DEF Registered
<1>4. ASSUME "raced" \notin lapses', NEW e \in databases PROVE (Alive(e[2]) \/ Closing(e[2]))'
  BY <1>1, <1>4 DEF Registered
<1>5. ASSUME "raced" \notin lapses', NEW d \in Dbs, disposed'[d] = "committed",
             Alive(d)' \/ Closing(d)'
      PROVE  Entry(d)' \in databases
  BY <1>2, <1>5 DEF Registered
<1>6. QED
  BY <1>3, <1>4, <1>5 DEF Registered

\* A thread that closes nothing, before and after the step.
Aside(th) ==
  /\ pc[th] \notin {"release", "clear", "closeDbi"} /\ pc'[th] # "closeDbi"
  /\ handle'[th] = handle[th] /\ Others(th)

\* Its step makes no Database solid that was not.
LEMMA SolidKept ==
  ASSUME NEW th \in Threads, Aside(th), NEW d \in Dbs, Solid(d)',
         Alive(d)' => Alive(d), creator'[d] = creator[d]
  PROVE  Solid(d)
<1>1. ASSUME NEW t \in Threads, pc[t] = "release", curTxn[t] = creator[d] PROVE FALSE
  <2>1. pc'[t] = "release" /\ curTxn'[t] = creator'[d]
    BY <1>1 DEF Aside, Others
  <2>2. QED
    BY <2>1 DEF Solid, At
<1>2. ASSUME NEW t \in Threads, pc[t] = "clear", curDb[t] = d PROVE FALSE
  <2>1. pc'[t] = "clear" /\ curDb'[t] = d
    BY <1>2 DEF Aside, Others
  <2>2. QED
    BY <2>1 DEF Solid
<1>3. QED
  BY <1>1, <1>2 DEF Solid, At

\* A step of such a thread that leaves the native table alone.
LEMMA OwnedKept ==
  ASSUME Owned, NEW th \in Threads, Aside(th),
         UNCHANGED <<envOpen, name, dbi, creator, table, fresh>>, lapses \subseteq lapses',
         fresh # {} => writer' = writer /\ owner'[writer] = owner[writer]
  PROVE  Owned'
<1> SUFFICES ASSUME envOpen, lapses' \cap {"aliased", "failed"} = {}
             PROVE  Owned'
  BY DEF Owned
<1>1. lapses \cap {"aliased", "failed"} = {}
  OBVIOUS
<1>2. \A d \in Dbs : Solid(d)' => Solid(d)
  BY SolidKept DEF Alive
<1>3. \A t \in Threads : /\ handle'[t] = handle[t]
                         /\ pc'[t] = "closeDbi" => pc[t] = "closeDbi" /\ curDb'[t] = curDb[t]
  BY DEF Aside, Others
<1>4. ASSUME NEW d \in Dbs, Solid(d)'
      PROVE  /\ table[dbi[d]] = name[d]
             /\ dbi[d] \in fresh => creator[d] = writer'
             /\ \A e \in Dbs : Solid(e)' /\ dbi[e] = dbi[d] => d = e
  BY <1>1, <1>2, <1>4 DEF Owned
<1>5. ASSUME NEW t \in Threads, pc'[t] = "closeDbi"
      PROVE  /\ table[handle'[t]] = name[curDb'[t]]
             /\ handle'[t] \in fresh => owner'[writer'] = t
             /\ \A d \in Dbs : Solid(d)' => dbi[d] # handle'[t]
             /\ \A u \in Threads \ {t} : handle'[u] # handle'[t]
  BY <1>1, <1>2, <1>3, <1>5 DEF Owned
<1>6. QED
  BY <1>4, <1>5 DEF Owned

\* A database a thread may close is solid.
LEMMA MayCloseSolid ==
  ASSUME DatabaseInv, NEW th \in Threads, NEW d \in Dbs, MayClose(th, d)
  PROVE  Solid(d)
<1>1. Focus /\ Objects
  BY DEF DatabaseInv
<1>2. ASSUME NEW t \in Threads, pc[t] = "release", curTxn[t] = creator[d] PROVE FALSE
  <2>1. owner[creator[d]] = t
    BY <1>1, <1>2 DEF Focus, Knows, Closers
  <2>2. t # th
    BY <1>2 DEF MayClose, Idle
  <2>3. QED
    BY <1>2, <2>1, <2>2 DEF MayClose
<1>3. \A t \in Threads : curDb[t] # d
  BY DEF MayClose
<1>4. QED
  BY <1>2, <1>3 DEF Solid, At, MayClose

\* A step keeps what a thread in the middle of a call knows.
LEMMA FocusNext == DatabaseInv /\ [Next]_vars => Focus'
<1> SUFFICES ASSUME DatabaseInv, [Next]_vars PROVE Focus'
  OBVIOUS
<1> USE DatabaseAssumption DEF TypeOK, Labels, Focus, Knows, Objects, Lists, Alive, Closing,
     At, Closers, vars, objects, txns, threads, nativeSt
<1>a. TypeOK /\ Focus /\ Objects /\ Lists
  BY DEF DatabaseInv
<1>b. UNCHANGED newDatabases => \A x \in Txns : Private(x)' = Private(x)
  BY ListSame
<1>f. Focus
  BY DEF DatabaseInv
<1>1. ASSUME NEW th \in Threads, NEW x \in Txns, BeginDatabaseTransaction(th, x) PROVE Focus'
  BY <1>1, <1>a, <1>b DEF BeginDatabaseTransaction, Begin, MayBegin, Idle, Goto
<1>2. ASSUME NEW th \in Threads, NEW x \in Txns, BeginWriteTransaction(th, x) PROVE Focus'
  BY <1>2, <1>a, <1>b DEF BeginWriteTransaction, Begin, MayBegin, Idle, Goto
<1>3. ASSUME NEW th \in Threads, LockDbTxn(th) PROVE Focus'
  BY <1>3, <1>a, <1>b DEF LockDbTxn, Goto
<1>4. ASSUME NEW th \in Threads, BeginNative(th) PROVE Focus'
  BY <1>4, <1>a, <1>b DEF BeginNative, Leave, Goto
<1>5. ASSUME NEW th \in Threads, NEW x \in Txns, Commit(th, x) PROVE Focus'
  BY <1>5, <1>a, <1>b DEF Commit, EndNative, Idle, Goto
<1>6. ASSUME NEW th \in Threads, NEW x \in Txns, CommitFails(th, x) PROVE Focus'
  BY <1>6, <1>a, <1>b DEF CommitFails, EndNative, Idle, Goto
<1>7. ASSUME NEW th \in Threads, NEW x \in Txns, Dispose(th, x) PROVE Focus'
  BY <1>7, <1>a, <1>b DEF Dispose, EndNative, Idle, Goto
<1>8. ASSUME NEW th \in Threads, ReleaseManagedResources(th) PROVE Focus'
  <2> DEFINE x == curTxn[th]
  <2>1. \A t \in Threads : curDb[t] # NoDb => dbi'[curDb[t]] = dbi[curDb[t]]
    <3>1. \A t \in Threads : curDb[t] # NoDb => curDb[t] \in Dbs
      BY <1>a
    <3>2. \A t \in Threads : curDb[t] # NoDb => curDb[t] \notin Private(x)
      BY <1>f, <1>8, ReleaseStep
    <3>3. QED
      BY <3>1, <3>2, <1>8, ReleaseStep
  <2>2. ASSUME NEW t \in Threads PROVE Knows(t)'
    <3>1. CASE t = th
      BY <1>f, <3>1, <1>8, ReleaseStep
    <3>2. CASE t # th
      BY <1>f, <2>1, <3>2, <1>8, ReleaseStep DEF Others
    <3>3. QED
      BY <3>1, <3>2
  <2>3. QED
    BY <1>f, <2>2, <1>8, ReleaseStep
<1>9. ASSUME NEW th \in Threads, DatabaseTransactionClosed(th) PROVE Focus'
  BY <1>9, <1>a, <1>b DEF DatabaseTransactionClosed, Leave, Goto
<1>10. ASSUME NEW th \in Threads, Committed(th) PROVE Focus'
  BY <1>10, <1>a, CommittedLists DEF Committed, Leave, Goto
<1>11. ASSUME NEW th \in Threads, NEW x \in Txns, NEW n \in Names, OpenDatabase(th, x, n)
      PROVE  Focus'
  BY <1>11, <1>a, <1>b DEF OpenDatabase, Idle, Goto
<1>12. ASSUME NEW th \in Threads, NEW d \in Dbs, OpenNative(th, d) PROVE Focus'
  <2>1. \A t \in Threads : curDb[t] # NoDb => curDb[t] \in Dbs /\ curDb[t] # d
    BY <1>a, <1>12, OpenNativeStep
  <2>2. \A t \in Threads : curDb[t] # NoDb =>
          /\ dbi'[curDb[t]] = dbi[curDb[t]] /\ disposed'[curDb[t]] = disposed[curDb[t]]
          /\ creator'[curDb[t]] = creator[curDb[t]]
    BY <2>1, <1>12, OpenNativeStep
  <2>3. ASSUME NEW t \in Threads PROVE Knows(t)'
    <3>1. CASE t = th
      BY <3>1, <1>12, OpenNativeStep
    <3>2. CASE t # th
      BY <1>f, <2>2, <3>2, <1>12, OpenNativeStep DEF Others
    <3>3. QED
      BY <3>1, <3>2
  <2>4. QED
    BY <1>f, <2>3, <1>12, OpenNativeStep DEF Others
<1>13. ASSUME NEW th \in Threads, OpenFails(th) PROVE Focus'
  BY <1>13, <1>a, <1>b DEF OpenFails, Leave, Goto
<1>14. ASSUME NEW th \in Threads, NEW d \in Dbs, DisposeDatabase(th, d) PROVE Focus'
  BY <1>14, <1>a, <1>b DEF DisposeDatabase, MayClose, Idle, Goto
<1>15. ASSUME NEW th \in Threads, CloseDbi(th) PROVE Focus'
  BY <1>15, <1>a, <1>b DEF CloseDbi, Goto
<1>16. ASSUME NEW th \in Threads, NEW x \in Txns, NEW d \in Dbs, Drop(th, x, d) PROVE Focus'
  BY <1>16, <1>a, <1>b DEF Drop, MayClose, Idle, Goto
<1>17. ASSUME NEW th \in Threads, ClearHandle(th) PROVE Focus'
  BY <1>17, <1>a, <1>b DEF ClearHandle, Goto
<1>18. ASSUME NEW th \in Threads, NewDatabaseDisposed(th) PROVE Focus'
  BY <1>18, <1>a, NewDatabaseDisposedLists DEF NewDatabaseDisposed, Leave, Goto
<1>19. ASSUME NEW th \in Threads, DatabaseDisposed(th) PROVE Focus'
  BY <1>19, <1>a, <1>b DEF DatabaseDisposed, Leave, Goto
<1>20. ASSUME NEW th \in Threads, Lookup(th) PROVE Focus'
  BY <1>20, <1>a, <1>b DEF Lookup, Idle, Goto
<1>21. ASSUME NEW th \in Threads, LookupEnds(th) PROVE Focus'
  BY <1>21, <1>a, <1>b DEF LookupEnds, Leave, Goto
<1>22. ASSUME NEW th \in Threads, DisposeEnvironment(th) PROVE Focus'
  BY <1>22, <1>a, <1>b DEF DisposeEnvironment, Idle
<1>23. CASE UNCHANGED vars
  BY <1>23, <1>a, <1>b
<1>24. QED
  BY <1>1, <1>2, <1>3, <1>4, <1>5, <1>6, <1>7, <1>8, <1>9, <1>10, <1>11, <1>12, <1>13, <1>14,
     <1>15, <1>16, <1>17, <1>18, <1>19, <1>20, <1>21, <1>22, <1>23 DEF Next, Transaction,
     Database

\* A step keeps transactions and databases as they belong together.
LEMMA ObjectsNext == DatabaseInv /\ [Next]_vars => Objects'
<1> SUFFICES ASSUME DatabaseInv, [Next]_vars PROVE Objects'
  OBVIOUS
<1> USE DatabaseAssumption DEF TypeOK, Labels, Focus, Knows, Objects, Lists, Closers, vars,
     objects, txns, threads, nativeSt
<1>a. TypeOK /\ Focus /\ Objects /\ Lists
  BY DEF DatabaseInv
<1>b. UNCHANGED newDatabases => \A x \in Txns : Private(x)' = Private(x)
  BY ListSame
<1>o. Objects
  BY DEF DatabaseInv
<1>1. ASSUME NEW th \in Threads, NEW x \in Txns, BeginDatabaseTransaction(th, x) PROVE Objects'
  BY <1>1, <1>a, <1>b DEF BeginDatabaseTransaction, Begin, MayBegin, Idle, Goto
<1>2. ASSUME NEW th \in Threads, NEW x \in Txns, BeginWriteTransaction(th, x) PROVE Objects'
  BY <1>2, <1>a, <1>b DEF BeginWriteTransaction, Begin, MayBegin, Idle, Goto
<1>3. ASSUME NEW th \in Threads, LockDbTxn(th) PROVE Objects'
  BY <1>3, <1>a, <1>b DEF LockDbTxn, Goto
<1>4. ASSUME NEW th \in Threads, BeginNative(th) PROVE Objects'
  BY <1>4, <1>a, <1>b DEF BeginNative, Leave, Goto
<1>5. ASSUME NEW th \in Threads, NEW x \in Txns, Commit(th, x) PROVE Objects'
  BY <1>5, <1>a, <1>b DEF Commit, EndNative, Idle, Goto
<1>6. ASSUME NEW th \in Threads, NEW x \in Txns, CommitFails(th, x) PROVE Objects'
  BY <1>6, <1>a, <1>b DEF CommitFails, EndNative, Idle, Goto
<1>7. ASSUME NEW th \in Threads, NEW x \in Txns, Dispose(th, x) PROVE Objects'
  BY <1>7, <1>a, <1>b DEF Dispose, EndNative, Idle, Goto
<1>8. ASSUME NEW th \in Threads, ReleaseManagedResources(th) PROVE Objects'
  BY <1>8, <1>a, ReleaseLists DEF ReleaseManagedResources, Goto
<1>9. ASSUME NEW th \in Threads, DatabaseTransactionClosed(th) PROVE Objects'
  BY <1>9, <1>a, <1>b DEF DatabaseTransactionClosed, Leave, Goto
<1>10. ASSUME NEW th \in Threads, Committed(th) PROVE Objects'
  <2>1. \A x \in Txns : txn[x] = "unborn" => newDatabases'[x] = << >>
    BY <1>o, <1>10, CommittedStep
  <2>2. lapses \subseteq lapses'
    BY <1>10, CommittedLists
  <2>3. QED
    BY <1>o, <2>1, <2>2, <1>10, CommittedStep
<1>11. ASSUME NEW th \in Threads, NEW x \in Txns, NEW n \in Names, OpenDatabase(th, x, n)
      PROVE  Objects'
  BY <1>11, <1>a, <1>b DEF OpenDatabase, Idle, Goto
<1>12. ASSUME NEW th \in Threads, NEW d \in Dbs, OpenNative(th, d) PROVE Objects'
  <2>1. QED
    BY <1>o, <1>12, OpenNativeStep
<1>13. ASSUME NEW th \in Threads, OpenFails(th) PROVE Objects'
  BY <1>13, <1>a, <1>b DEF OpenFails, Leave, Goto
<1>14. ASSUME NEW th \in Threads, NEW d \in Dbs, DisposeDatabase(th, d) PROVE Objects'
  BY <1>14, <1>a, <1>b DEF DisposeDatabase, MayClose, Idle, Goto
<1>15. ASSUME NEW th \in Threads, CloseDbi(th) PROVE Objects'
  BY <1>15, <1>a, <1>b DEF CloseDbi, Goto
<1>16. ASSUME NEW th \in Threads, NEW x \in Txns, NEW d \in Dbs, Drop(th, x, d) PROVE Objects'
  BY <1>16, <1>a, <1>b DEF Drop, MayClose, Idle, Goto
<1>17. ASSUME NEW th \in Threads, ClearHandle(th) PROVE Objects'
  BY <1>17, <1>a, <1>b DEF ClearHandle, Goto
<1>18. ASSUME NEW th \in Threads, NewDatabaseDisposed(th) PROVE Objects'
  BY <1>18, <1>a, NewDatabaseDisposedLists DEF NewDatabaseDisposed, Leave, Goto
<1>19. ASSUME NEW th \in Threads, DatabaseDisposed(th) PROVE Objects'
  BY <1>19, <1>a, <1>b DEF DatabaseDisposed, Leave, Goto
<1>20. ASSUME NEW th \in Threads, Lookup(th) PROVE Objects'
  BY <1>20, <1>a, <1>b DEF Lookup, Idle, Goto
<1>21. ASSUME NEW th \in Threads, LookupEnds(th) PROVE Objects'
  BY <1>21, <1>a, <1>b DEF LookupEnds, Leave, Goto
<1>22. ASSUME NEW th \in Threads, DisposeEnvironment(th) PROVE Objects'
  BY <1>22, <1>a, <1>b DEF DisposeEnvironment, Idle
<1>23. CASE UNCHANGED vars
  BY <1>23, <1>a, <1>b
<1>24. QED
  BY <1>1, <1>2, <1>3, <1>4, <1>5, <1>6, <1>7, <1>8, <1>9, <1>10, <1>11, <1>12, <1>13, <1>14,
     <1>15, <1>16, <1>17, <1>18, <1>19, <1>20, <1>21, <1>22, <1>23 DEF Next, Transaction,
     Database

\* A step keeps the lists.
LEMMA ListsNext == DatabaseInv /\ [Next]_vars => Lists'
<1> SUFFICES ASSUME DatabaseInv, [Next]_vars PROVE Lists'
  OBVIOUS
<1> USE DatabaseAssumption DEF TypeOK, Labels, Focus, Knows, Objects, Lists, Alive, Closing,
     At, Publishing, Closers, vars, objects, txns, threads, nativeSt
<1>a. TypeOK /\ Focus /\ Objects /\ Lists
  BY DEF DatabaseInv
<1>b. UNCHANGED newDatabases => \A x \in Txns : Private(x)' = Private(x)
  BY ListSame
<1>t. TypeOK
  BY DEF DatabaseInv
<1>f. Focus
  BY DEF DatabaseInv
<1>o. Objects
  BY DEF DatabaseInv
<1>l. Lists
  BY DEF DatabaseInv
<1>1. ASSUME NEW th \in Threads, NEW x \in Txns, BeginDatabaseTransaction(th, x) PROVE Lists'
  <2>1. /\ \A t \in Threads \ {th} : /\ pc'[t] = pc[t] /\ curTxn'[t] = curTxn[t]
                                     /\ curDb'[t] = curDb[t]
        /\ pc[th] = "idle" /\ pc'[th] = "lock" /\ UNCHANGED curDb
    BY <1>1, <1>t, <1>f DEF BeginDatabaseTransaction, Begin, MayBegin, Idle, Goto
  <2>2. \A y \in Txns : /\ Publishing(y)' <=> Publishing(y)
                        /\ At("release", y) => At("release", y)'
    BY <2>1 DEF Publishing, At
  <2>3. \A y \in Txns : txn'[y] = "committed" <=> txn[y] = "committed"
    BY <1>1, <1>t, <1>f DEF BeginDatabaseTransaction, Begin, MayBegin, Idle
  <2>4. \A y \in Txns : txn'[y] = "aborted" /\ Private(y) # {} => At("release", y)'
    <3>1. \A y \in Txns : txn'[y] = "aborted" => txn[y] = "aborted"
      BY <1>1, <1>t, <1>f DEF BeginDatabaseTransaction, Begin, MayBegin, Idle
    <3>2. QED
      BY <2>2, <3>1, ListOwner
  <2>5. \A t \in Threads : curDb[t] # NoDb => curDb'[t] = curDb[t]
    BY <2>1
  <2>6. \A e \in Dbs : Closing(e) => Closing(e)'
    BY <2>5 DEF Closing
  <2>7. \A e \in Dbs : Alive(e)' <=> Alive(e)
    BY <1>1 DEF BeginDatabaseTransaction, Begin, MayBegin, Idle, Alive
  <2>8. UNCHANGED <<newDatabases, creator, disposed>> /\ lapses \subseteq lapses'
    BY <1>1 DEF BeginDatabaseTransaction, Begin, MayBegin, Idle
  <2>9. QED
    BY <1>l, <2>2, <2>3, <2>6, <2>7, <2>8, <2>4, ListsKept
<1>2. ASSUME NEW th \in Threads, NEW x \in Txns, BeginWriteTransaction(th, x) PROVE Lists'
  <2>1. /\ \A t \in Threads \ {th} : /\ pc'[t] = pc[t] /\ curTxn'[t] = curTxn[t]
                                     /\ curDb'[t] = curDb[t]
        /\ pc[th] = "idle" /\ pc'[th] = "mutex" /\ UNCHANGED curDb
    BY <1>2, <1>t, <1>f DEF BeginWriteTransaction, Begin, MayBegin, Idle, Goto
  <2>2. \A y \in Txns : /\ Publishing(y)' <=> Publishing(y)
                        /\ At("release", y) => At("release", y)'
    BY <2>1 DEF Publishing, At
  <2>3. \A y \in Txns : txn'[y] = "committed" <=> txn[y] = "committed"
    BY <1>2, <1>t, <1>f DEF BeginWriteTransaction, Begin, MayBegin, Idle
  <2>4. \A y \in Txns : txn'[y] = "aborted" /\ Private(y) # {} => At("release", y)'
    <3>1. \A y \in Txns : txn'[y] = "aborted" => txn[y] = "aborted"
      BY <1>2, <1>t, <1>f DEF BeginWriteTransaction, Begin, MayBegin, Idle
    <3>2. QED
      BY <2>2, <3>1, ListOwner
  <2>5. \A t \in Threads : curDb[t] # NoDb => curDb'[t] = curDb[t]
    BY <2>1
  <2>6. \A e \in Dbs : Closing(e) => Closing(e)'
    BY <2>5 DEF Closing
  <2>7. \A e \in Dbs : Alive(e)' <=> Alive(e)
    BY <1>2 DEF BeginWriteTransaction, Begin, MayBegin, Idle, Alive
  <2>8. UNCHANGED <<newDatabases, creator, disposed>> /\ lapses \subseteq lapses'
    BY <1>2 DEF BeginWriteTransaction, Begin, MayBegin, Idle
  <2>9. QED
    BY <1>l, <2>2, <2>3, <2>6, <2>7, <2>8, <2>4, ListsKept
<1>3. ASSUME NEW th \in Threads, LockDbTxn(th) PROVE Lists'
  <2>1. /\ \A t \in Threads \ {th} : /\ pc'[t] = pc[t] /\ curTxn'[t] = curTxn[t]
                                     /\ curDb'[t] = curDb[t]
        /\ pc[th] = "lock" /\ pc'[th] = "mutex" /\ UNCHANGED curDb
    BY <1>3, <1>t, <1>f DEF LockDbTxn, Goto
  <2>2. \A y \in Txns : /\ Publishing(y)' <=> Publishing(y)
                        /\ At("release", y) => At("release", y)'
    BY <2>1 DEF Publishing, At
  <2>3. \A y \in Txns : txn'[y] = "committed" <=> txn[y] = "committed"
    BY <1>3, <1>t, <1>f DEF LockDbTxn
  <2>4. \A y \in Txns : txn'[y] = "aborted" /\ Private(y) # {} => At("release", y)'
    <3>1. \A y \in Txns : txn'[y] = "aborted" => txn[y] = "aborted"
      BY <1>3, <1>t, <1>f DEF LockDbTxn
    <3>2. QED
      BY <2>2, <3>1, ListOwner
  <2>5. \A t \in Threads : curDb[t] # NoDb => curDb'[t] = curDb[t]
    BY <2>1
  <2>6. \A e \in Dbs : Closing(e) => Closing(e)'
    BY <2>5 DEF Closing
  <2>7. \A e \in Dbs : Alive(e)' <=> Alive(e)
    BY <1>3 DEF LockDbTxn, Alive
  <2>8. UNCHANGED <<newDatabases, creator, disposed>> /\ lapses \subseteq lapses'
    BY <1>3 DEF LockDbTxn
  <2>9. QED
    BY <1>l, <2>2, <2>3, <2>6, <2>7, <2>8, <2>4, ListsKept
<1>4. ASSUME NEW th \in Threads, BeginNative(th) PROVE Lists'
  <2>1. pc[th] = "mutex" /\ Others(th) /\ pc'[th] = "idle" /\ curDb[th] = NoDb
    BY <1>4, <1>t, <1>f, Left DEF BeginNative
  <2>2. \A y \in Txns : /\ Publishing(y)' <=> Publishing(y)
                        /\ At("release", y) => At("release", y)'
    BY <2>1 DEF Publishing, At, Others
  <2>3. \A y \in Txns : txn'[y] = "committed" <=> txn[y] = "committed"
    BY <1>4, <1>t, <1>f DEF BeginNative
  <2>4. \A y \in Txns : txn'[y] = "aborted" /\ Private(y) # {} => At("release", y)'
    <3>1. \A y \in Txns : txn'[y] = "aborted" => txn[y] = "aborted"
      BY <1>4, <1>t, <1>f DEF BeginNative
    <3>2. QED
      BY <2>2, <3>1, ListOwner
  <2>5. \A t \in Threads : curDb[t] # NoDb => curDb'[t] = curDb[t]
    BY <2>1 DEF Others
  <2>6. \A e \in Dbs : Closing(e) => Closing(e)'
    BY <2>5 DEF Closing
  <2>7. \A e \in Dbs : Alive(e)' <=> Alive(e)
    BY <1>4 DEF BeginNative, Alive
  <2>8. UNCHANGED <<newDatabases, creator, disposed>> /\ lapses \subseteq lapses'
    BY <1>4 DEF BeginNative
  <2>9. QED
    BY <1>l, <2>2, <2>3, <2>6, <2>7, <2>8, <2>4, ListsKept
<1>5. ASSUME NEW th \in Threads, NEW x \in Txns, Commit(th, x) PROVE Lists'
  <2>1. /\ Others(th) /\ curDb'[th] = curDb[th]
        /\ \A y \in Txns : txn'[y] = IF y = x THEN "committed" ELSE txn[y]
        /\ txn[x] = "open" /\ pc[th] = "idle" /\ pc'[th] \in {"idle", "closed"}
        /\ pc'[th] = "closed" => curTxn'[th] = x
        /\ kind[x] = "db" => pc'[th] = "closed"
    BY <1>5, <1>t, EndedNative DEF Commit
  <2>2. UNCHANGED <<newDatabases, creator, disposed, dbi, lapses>>
    BY <1>5 DEF Commit, EndNative
  <2>3. /\ \A y \in Txns \ {x} : Publishing(y)' <=> Publishing(y)
        /\ \A y \in Txns : At("release", y) => At("release", y)'
        /\ kind[x] = "db" => Publishing(x)'
    BY <2>1 DEF Publishing, At, Others
  <2>4. \A e \in Dbs : Closing(e)' <=> Closing(e)
    BY <2>1 DEF Closing, Others
  <2>5. ASSUME NEW y \in Txns, NEW e \in Dbs, e \in Private(y)'
        PROVE  /\ creator'[e] = y
               /\ txn'[y] # "committed" \/ Publishing(y)' => disposed'[e] = "new"
               /\ disposed'[e] = "new" => Alive(e)' \/ Closing(e)'
               /\ txn'[y] = "committed" => Publishing(y)' \/ "clash" \in lapses'
               /\ txn'[y] = "aborted" => At("release", y)'
    <3>1. e \in Private(y)
      BY <1>b, <2>2, <2>5
    <3>2. CASE y = x
      <4>1. Publishing(x)'
        BY <2>3, <3>1, <3>2, ListOwner
      <4>2. QED
        BY <1>l, <2>1, <2>2, <2>4, <3>1, <3>2, <4>1 DEF Alive
    <3>3. CASE y # x
      BY <1>l, <2>1, <2>2, <2>3, <2>4, <3>1, <3>3 DEF Alive
    <3>4. QED
      BY <3>2, <3>3
  <2>6. ASSUME NEW e \in Dbs, Alive(e)', disposed'[e] = "new" PROVE (e \in Private(creator[e]))'
    <3>1. e \in Private(creator[e])
      BY <1>l, <2>2, <2>6 DEF Alive
    <3>2. QED
      BY <2>2, <3>1 DEF Private
  <2>7. QED
    BY <2>5, <2>6
<1>6. ASSUME NEW th \in Threads, NEW x \in Txns, CommitFails(th, x) PROVE Lists'
  <2>1. Others(th) /\ pc[th] = "idle" /\ pc'[th] \in {"idle", "ended"} /\ curDb'[th] = curDb[th]
    BY <1>6, <1>t, EndedNative DEF CommitFails
  <2>2. \A y \in Txns : /\ Publishing(y)' <=> Publishing(y)
                        /\ At("release", y) => At("release", y)'
    BY <2>1 DEF Publishing, At, Others
  <2>3. \A y \in Txns : txn'[y] = "committed" <=> txn[y] = "committed"
    BY <1>6, <1>t, <1>f DEF CommitFails, EndNative
  <2>4. \A y \in Txns : txn'[y] = "aborted" /\ Private(y) # {} => At("release", y)'
    <3>1. \A y \in Txns : txn'[y] = "aborted" => txn[y] = "aborted"
      BY <1>6, <1>t, <1>f DEF CommitFails, EndNative
    <3>2. QED
      BY <2>2, <3>1, ListOwner
  <2>5. \A t \in Threads : curDb[t] # NoDb => curDb'[t] = curDb[t]
    BY <2>1 DEF Others
  <2>6. \A e \in Dbs : Closing(e) => Closing(e)'
    BY <2>5 DEF Closing
  <2>7. \A e \in Dbs : Alive(e)' <=> Alive(e)
    BY <1>6 DEF CommitFails, EndNative, Alive
  <2>8. UNCHANGED <<newDatabases, creator, disposed>> /\ lapses \subseteq lapses'
    BY <1>6 DEF CommitFails, EndNative
  <2>9. QED
    BY <1>l, <2>2, <2>3, <2>6, <2>7, <2>8, <2>4, ListsKept
<1>7. ASSUME NEW th \in Threads, NEW x \in Txns, Dispose(th, x) PROVE Lists'
  <2>1. Others(th) /\ pc[th] = "idle" /\ pc'[th] \in {"idle", "release"} /\ curDb'[th] = curDb[th]
    BY <1>7, <1>t, EndedNative DEF Dispose
  <2>2. \A y \in Txns : /\ Publishing(y)' <=> Publishing(y)
                        /\ At("release", y) => At("release", y)'
    BY <2>1 DEF Publishing, At, Others
  <2>3. \A y \in Txns : txn'[y] = "committed" <=> txn[y] = "committed"
    BY <1>7, <1>t, <1>f DEF Dispose, EndNative
  <2>4. \A y \in Txns : txn'[y] = "aborted" /\ Private(y) # {} => At("release", y)'
    <3>1. ASSUME NEW y \in Txns, y # x, txn'[y] = "aborted", Private(y) # {} PROVE At("release", y)'
      <4>1. txn[y] = "aborted"
        BY <1>7, <1>t, <3>1, EndedNative DEF Dispose
      <4>2. QED
        BY <2>2, <3>1, <4>1, ListOwner
    <3>2. Private(x) # {} => At("release", x)'
      BY <1>7, <1>t, EndedNative, ListOwner DEF Dispose, At
    <3>3. QED
      BY <3>1, <3>2
  <2>5. \A t \in Threads : curDb[t] # NoDb => curDb'[t] = curDb[t]
    BY <2>1 DEF Others
  <2>6. \A e \in Dbs : Closing(e) => Closing(e)'
    BY <2>5 DEF Closing
  <2>7. \A e \in Dbs : Alive(e)' <=> Alive(e)
    BY <1>7 DEF Dispose, EndNative, Alive
  <2>8. UNCHANGED <<newDatabases, creator, disposed>> /\ lapses \subseteq lapses'
    BY <1>7 DEF Dispose, EndNative
  <2>9. QED
    BY <1>l, <2>2, <2>3, <2>6, <2>7, <2>8, <2>4, ListsKept
<1>8. ASSUME NEW th \in Threads, ReleaseManagedResources(th) PROVE Lists'
  <2> DEFINE x == curTxn[th]
  <2>3. ASSUME NEW y \in Txns, NEW e \in Dbs, e \in Private(y)'
        PROVE  /\ creator'[e] = y
               /\ txn'[y] # "committed" \/ Publishing(y)' => disposed'[e] = "new"
               /\ disposed'[e] = "new" => Alive(e)' \/ Closing(e)'
               /\ txn'[y] = "committed" => Publishing(y)' \/ "clash" \in lapses'
               /\ txn'[y] = "aborted" => At("release", y)'
    <3>1. e \in Private(y) /\ y # x
      BY <2>3, <1>8, ReleaseStep
    <3>2. e \notin Private(x)
      BY <1>l, <3>1, <1>8, ReleaseStep
    <3>3. dbi'[e] = dbi[e]
      BY <3>2, <1>8, ReleaseStep
    <3>4. /\ creator'[e] = creator[e] /\ disposed'[e] = disposed[e] /\ txn'[y] = txn[y]
          /\ Alive(e)' <=> Alive(e)
          /\ lapses \subseteq lapses'
      BY <3>1, <3>3, <1>8, ReleaseStep
    <3>5. /\ Publishing(y)' <=> Publishing(y)
          /\ At("release", y) => At("release", y)'
          /\ Closing(e) => Closing(e)'
      BY <3>1, <1>8, ReleaseStep DEF Publishing, At, Closing, Others
    <3>6. QED
      BY <1>l, <3>1, <3>4, <3>5, InList
  <2>4. ASSUME NEW e \in Dbs, Alive(e)', disposed'[e] = "new" PROVE (e \in Private(creator[e]))'
    <3>1. Alive(e) /\ disposed[e] = "new" /\ e \notin Private(x)
      BY <2>4, <1>8, ReleaseStep
    <3>2. e \in Private(creator[e]) /\ creator[e] \in Txns
      BY <1>l, <1>o, <3>1
    <3>3. QED
      BY <3>1, <3>2, <1>8, ReleaseStep
  <2>5. QED
    BY <2>3, <2>4
<1>9. ASSUME NEW th \in Threads, DatabaseTransactionClosed(th) PROVE Lists'
  <2>1. /\ \A t \in Threads \ {th} : /\ pc'[t] = pc[t] /\ curTxn'[t] = curTxn[t]
                                     /\ curDb'[t] = curDb[t]
        /\ pc'[th] \in {"closed", "committed"} => pc[th] = "closed" /\ curTxn'[th] = curTxn[th]
        /\ pc[th] = "closed" => pc'[th] = "committed" /\ curTxn'[th] = curTxn[th]
        /\ pc[th] \in {"closed", "ended"} /\ curDb[th] = NoDb
    <3>1. CASE pc[th] = "closed"
      BY <1>9, <1>t, <1>f, <3>1 DEF DatabaseTransactionClosed, Goto
    <3>2. CASE pc[th] = "ended"
      <4>1. Leave(th)
        BY <1>9, <3>2 DEF DatabaseTransactionClosed
      <4>2. Others(th) /\ pc'[th] = "idle"
        BY <1>t, <4>1, Left
      <4>3. curDb[th] = NoDb
        BY <1>f, <3>2
      <4>4. QED
        BY <3>2, <4>2, <4>3 DEF Others
    <3>3. QED
      BY <1>9, <3>1, <3>2 DEF DatabaseTransactionClosed
  <2>2. \A y \in Txns : /\ Publishing(y)' <=> Publishing(y)
                        /\ At("release", y) => At("release", y)'
    BY <2>1 DEF Publishing, At
  <2>3. \A y \in Txns : txn'[y] = "committed" <=> txn[y] = "committed"
    BY <1>9, <1>t, <1>f DEF DatabaseTransactionClosed
  <2>4. \A y \in Txns : txn'[y] = "aborted" /\ Private(y) # {} => At("release", y)'
    <3>1. \A y \in Txns : txn'[y] = "aborted" => txn[y] = "aborted"
      BY <1>9, <1>t, <1>f DEF DatabaseTransactionClosed
    <3>2. QED
      BY <2>2, <3>1, ListOwner
  <2>5. \A t \in Threads : curDb[t] # NoDb => curDb'[t] = curDb[t]
    BY <2>1
  <2>6. \A e \in Dbs : Closing(e) => Closing(e)'
    BY <2>5 DEF Closing
  <2>7. \A e \in Dbs : Alive(e)' <=> Alive(e)
    BY <1>9 DEF DatabaseTransactionClosed, Alive
  <2>8. UNCHANGED <<newDatabases, creator, disposed>> /\ lapses \subseteq lapses'
    BY <1>9 DEF DatabaseTransactionClosed
  <2>9. QED
    BY <1>l, <2>2, <2>3, <2>6, <2>7, <2>8, <2>4, ListsKept
<1>10. ASSUME NEW th \in Threads, Committed(th) PROVE Lists'
  <2>0. PICK x : x = curTxn[th]
    OBVIOUS
  <2>2. ~Publishing(x)'
    <3>1. \A t \in Threads \ {th} : curTxn[t] = x => pc[t] \notin {"closed", "committed"}
      BY <1>f, <1>10, <2>0, CommittedStep
    <3>2. Others(th) /\ pc'[th] = "idle"
      BY <1>10, <2>0, CommittedStep
    <3>3. QED
      BY <3>1, <3>2 DEF Publishing, At, Others
  <2>3. \A e \in Dbs : Closing(e) => Closing(e)'
    BY <1>10, <2>0, CommittedStep DEF Closing, Others
  <2>4. ASSUME NEW y \in Txns, NEW e \in Dbs, e \in Private(y)'
        PROVE  /\ creator'[e] = y
               /\ txn'[y] # "committed" \/ Publishing(y)' => disposed'[e] = "new"
               /\ disposed'[e] = "new" => Alive(e)' \/ Closing(e)'
               /\ txn'[y] = "committed" => Publishing(y)' \/ "clash" \in lapses'
               /\ txn'[y] = "aborted" => At("release", y)'
    <3>1. e \in Private(y) /\ lapses \subseteq lapses'
      BY <2>4, <1>10, <2>0, CommittedLists
    <3>2. CASE y = x
      <4>1. "clash" \in lapses'
        BY <2>4, <3>2, <1>10, <2>0, CommittedLists
      <4>2. /\ creator'[e] = x /\ disposed[e] = "new" /\ e \in Dbs /\ txn'[x] = "committed"
            /\ Alive(e)' <=> Alive(e)
            /\ disposed'[e] = "new" \/ disposed'[e] = "committed"
        BY <3>1, <3>2, <1>10, <2>0, CommittedStep
      <4>3. Alive(e) \/ Closing(e)
        BY <1>l, <3>1, <4>2
      <4>4. QED
        BY <2>2, <2>3, <3>2, <4>1, <4>2, <4>3
    <3>3. CASE y # x
      <4>1. e \notin Published(x)
        <5>1. creator[e] = y
          BY <1>l, <3>1
        <5>2. QED
          BY <3>3, <5>1, <1>10, <2>0, CommittedStep
      <4>2. /\ creator'[e] = creator[e] /\ disposed'[e] = disposed[e] /\ txn'[y] = txn[y]
            /\ Alive(e)' <=> Alive(e)
        BY <3>3, <4>1, <1>10, <2>0, CommittedStep
      <4>3. /\ Publishing(y)' <=> Publishing(y)
            /\ At("release", y) => At("release", y)'
            /\ Closing(e) => Closing(e)'
        BY <3>3, <1>10, <2>0, CommittedStep DEF Publishing, At, Closing, Others
      <4>4. QED
        BY <1>l, <3>1, <4>2, <4>3, InList
    <3>4. QED
      BY <3>2, <3>3
  <2>5. ASSUME NEW e \in Dbs, Alive(e)', disposed'[e] = "new" PROVE (e \in Private(creator[e]))'
    <3>1. Alive(e) /\ disposed[e] = "new" /\ e \notin Published(x)
      BY <2>5, <1>10, <2>0, CommittedStep
    <3>2. e \in Private(creator[e]) /\ creator[e] \in Txns
      BY <1>l, <1>o, <3>1
    <3>3. QED
      BY <3>1, <3>2, <1>10, <2>0, CommittedStep, CommittedLists
  <2>6. QED
    BY <2>4, <2>5
<1>11. ASSUME NEW th \in Threads, NEW x \in Txns, NEW n \in Names, OpenDatabase(th, x, n)
      PROVE  Lists'
  <2>1. /\ \A t \in Threads \ {th} : /\ pc'[t] = pc[t] /\ curTxn'[t] = curTxn[t]
                                     /\ curDb'[t] = curDb[t]
        /\ pc[th] = "idle" /\ pc'[th] = "open" /\ UNCHANGED curDb
    BY <1>11, <1>t, <1>f DEF OpenDatabase, Idle, Goto
  <2>2. \A y \in Txns : /\ Publishing(y)' <=> Publishing(y)
                        /\ At("release", y) => At("release", y)'
    BY <2>1 DEF Publishing, At
  <2>3. \A y \in Txns : txn'[y] = "committed" <=> txn[y] = "committed"
    BY <1>11, <1>t, <1>f DEF OpenDatabase
  <2>4. \A y \in Txns : txn'[y] = "aborted" /\ Private(y) # {} => At("release", y)'
    <3>1. \A y \in Txns : txn'[y] = "aborted" => txn[y] = "aborted"
      BY <1>11, <1>t, <1>f DEF OpenDatabase
    <3>2. QED
      BY <2>2, <3>1, ListOwner
  <2>5. \A t \in Threads : curDb[t] # NoDb => curDb'[t] = curDb[t]
    BY <2>1
  <2>6. \A e \in Dbs : Closing(e) => Closing(e)'
    BY <2>5 DEF Closing
  <2>7. \A e \in Dbs : Alive(e)' <=> Alive(e)
    BY <1>11 DEF OpenDatabase, Alive
  <2>8. UNCHANGED <<newDatabases, creator, disposed>> /\ lapses \subseteq lapses'
    BY <1>11 DEF OpenDatabase
  <2>9. QED
    BY <1>l, <2>2, <2>3, <2>6, <2>7, <2>8, <2>4, ListsKept
<1>12. ASSUME NEW th \in Threads, NEW d \in Dbs, OpenNative(th, d) PROVE Lists'
  <2> DEFINE x == curTxn[th]
  <2>3. ASSUME NEW y \in Txns, NEW e \in Dbs, e \in Private(y)'
        PROVE  /\ creator'[e] = y
               /\ txn'[y] # "committed" \/ Publishing(y)' => disposed'[e] = "new"
               /\ disposed'[e] = "new" => Alive(e)' \/ Closing(e)'
               /\ txn'[y] = "committed" => Publishing(y)' \/ "clash" \in lapses'
               /\ txn'[y] = "aborted" => At("release", y)'
    <3>1. CASE e = d
      <4>1. y = x
        BY <2>3, <3>1, <1>12, OpenNativeStep
      <4>2. QED
        BY <3>1, <4>1, <1>12, OpenNativeStep
    <3>2. CASE e # d
      <4>1. e \in Private(y)
        BY <2>3, <3>2, <1>12, OpenNativeStep
      <4>2. /\ creator'[e] = creator[e] /\ disposed'[e] = disposed[e] /\ txn'[y] = txn[y]
            /\ Alive(e)' <=> Alive(e)
            /\ lapses \subseteq lapses'
        BY <3>2, <1>12, OpenNativeStep
      <4>3. /\ Publishing(y)' <=> Publishing(y)
            /\ At("release", y) => At("release", y)'
            /\ Closing(e) => Closing(e)'
        BY <1>12, OpenNativeStep DEF Publishing, At, Closing, Others
      <4>4. QED
        BY <1>l, <4>1, <4>2, <4>3, InList
    <3>3. QED
      BY <3>1, <3>2
  <2>4. ASSUME NEW e \in Dbs, Alive(e)', disposed'[e] = "new" PROVE (e \in Private(creator[e]))'
    <3>1. CASE e = d
      BY <3>1, <1>12, OpenNativeStep
    <3>2. CASE e # d
      <4>1. e \in Private(creator[e]) /\ creator[e] \in Txns
        BY <1>l, <1>o, <2>4, <3>2, <1>12, OpenNativeStep
      <4>2. QED
        BY <3>2, <4>1, <1>12, OpenNativeStep
    <3>3. QED
      BY <3>1, <3>2
  <2>5. QED
    BY <2>3, <2>4
<1>13. ASSUME NEW th \in Threads, OpenFails(th) PROVE Lists'
  <2>1. pc[th] = "open" /\ Others(th) /\ pc'[th] = "idle" /\ curDb[th] = NoDb
    BY <1>13, <1>t, <1>f, Left DEF OpenFails
  <2>2. \A y \in Txns : /\ Publishing(y)' <=> Publishing(y)
                        /\ At("release", y) => At("release", y)'
    BY <2>1 DEF Publishing, At, Others
  <2>3. \A y \in Txns : txn'[y] = "committed" <=> txn[y] = "committed"
    BY <1>13, <1>t, <1>f DEF OpenFails
  <2>4. \A y \in Txns : txn'[y] = "aborted" /\ Private(y) # {} => At("release", y)'
    <3>1. \A y \in Txns : txn'[y] = "aborted" => txn[y] = "aborted"
      BY <1>13, <1>t, <1>f DEF OpenFails
    <3>2. QED
      BY <2>2, <3>1, ListOwner
  <2>5. \A t \in Threads : curDb[t] # NoDb => curDb'[t] = curDb[t]
    BY <2>1 DEF Others
  <2>6. \A e \in Dbs : Closing(e) => Closing(e)'
    BY <2>5 DEF Closing
  <2>7. \A e \in Dbs : Alive(e)' <=> Alive(e)
    BY <1>13 DEF OpenFails, Alive
  <2>8. UNCHANGED <<newDatabases, creator, disposed>> /\ lapses \subseteq lapses'
    BY <1>13 DEF OpenFails
  <2>9. QED
    BY <1>l, <2>2, <2>3, <2>6, <2>7, <2>8, <2>4, ListsKept
<1>14. ASSUME NEW th \in Threads, NEW d \in Dbs, DisposeDatabase(th, d) PROVE Lists'
  <2>1. /\ pc' = [pc EXCEPT ![th] = "closeDbi"] /\ curTxn' = curTxn /\ pc[th] = "idle"
        /\ curDb' = [curDb EXCEPT ![th] = d] /\ curDb[th] = NoDb
    BY <1>14, <1>f DEF DisposeDatabase, MayClose, Idle, Goto
  <2>2. \A y \in Txns : /\ Publishing(y)' <=> Publishing(y)
                        /\ At("release", y) => At("release", y)'
    BY <1>t, <2>1 DEF Publishing, At
  <2>3. \A y \in Txns : txn'[y] = "committed" <=> txn[y] = "committed"
    BY <1>14, <1>t, <1>f DEF DisposeDatabase
  <2>4. \A y \in Txns : txn'[y] = "aborted" /\ Private(y) # {} => At("release", y)'
    <3>1. \A y \in Txns : txn'[y] = "aborted" => txn[y] = "aborted"
      BY <1>14, <1>t, <1>f DEF DisposeDatabase
    <3>2. QED
      BY <2>2, <3>1, ListOwner
  <2>5. \A t \in Threads : curDb[t] # NoDb => curDb'[t] = curDb[t]
    BY <1>t, <2>1
  <2>6. \A e \in Dbs : Closing(e) => Closing(e)'
    BY <2>5 DEF Closing
  <2>7. \A e \in Dbs : (Alive(e)' => Alive(e)) /\ (Alive(e) => Alive(e)' \/ Closing(e)')
    <3>1. Closing(d)' /\ Alive(d)
      BY <1>14, <1>t, <2>1 DEF Closing, DisposeDatabase, MayClose
    <3>2. \A e \in Dbs \ {d} : dbi'[e] = dbi[e]
      BY <1>14, <1>t DEF DisposeDatabase
    <3>3. QED
      BY <3>1, <3>2 DEF Alive
  <2>8. UNCHANGED <<newDatabases, creator, disposed>> /\ lapses \subseteq lapses'
    BY <1>14 DEF DisposeDatabase
  <2>9. QED
    BY <1>l, <2>2, <2>3, <2>6, <2>7, <2>8, <2>4, ListsKept
<1>15. ASSUME NEW th \in Threads, CloseDbi(th) PROVE Lists'
  BY <1>15, <1>a, <1>b DEF CloseDbi, Goto
<1>16. ASSUME NEW th \in Threads, NEW x \in Txns, NEW d \in Dbs, Drop(th, x, d) PROVE Lists'
  <2>1. /\ pc' = [pc EXCEPT ![th] = "clear"] /\ curTxn' = curTxn /\ pc[th] = "idle"
        /\ curDb' = [curDb EXCEPT ![th] = d] /\ curDb[th] = NoDb
    BY <1>16, <1>f DEF Drop, MayClose, Idle, Goto
  <2>2. \A y \in Txns : /\ Publishing(y)' <=> Publishing(y)
                        /\ At("release", y) => At("release", y)'
    BY <1>t, <2>1 DEF Publishing, At
  <2>3. \A y \in Txns : txn'[y] = "committed" <=> txn[y] = "committed"
    BY <1>16, <1>t, <1>f DEF Drop
  <2>4. \A y \in Txns : txn'[y] = "aborted" /\ Private(y) # {} => At("release", y)'
    <3>1. \A y \in Txns : txn'[y] = "aborted" => txn[y] = "aborted"
      BY <1>16, <1>t, <1>f DEF Drop
    <3>2. QED
      BY <2>2, <3>1, ListOwner
  <2>5. \A t \in Threads : curDb[t] # NoDb => curDb'[t] = curDb[t]
    BY <1>t, <2>1
  <2>6. \A e \in Dbs : Closing(e) => Closing(e)'
    BY <2>5 DEF Closing
  <2>7. \A e \in Dbs : Alive(e)' <=> Alive(e)
    BY <1>16 DEF Drop, Alive
  <2>8. UNCHANGED <<newDatabases, creator, disposed>> /\ lapses \subseteq lapses'
    BY <1>16 DEF Drop
  <2>9. QED
    BY <1>l, <2>2, <2>3, <2>6, <2>7, <2>8, <2>4, ListsKept
<1>17. ASSUME NEW th \in Threads, ClearHandle(th) PROVE Lists'
  <2>1. /\ \A t \in Threads \ {th} : /\ pc'[t] = pc[t] /\ curTxn'[t] = curTxn[t]
                                     /\ curDb'[t] = curDb[t]
        /\ pc[th] = "clear" /\ pc'[th] = "notify" /\ UNCHANGED curDb
    BY <1>17, <1>t, <1>f DEF ClearHandle, Goto
  <2>2. \A y \in Txns : /\ Publishing(y)' <=> Publishing(y)
                        /\ At("release", y) => At("release", y)'
    BY <2>1 DEF Publishing, At
  <2>3. \A y \in Txns : txn'[y] = "committed" <=> txn[y] = "committed"
    BY <1>17, <1>t, <1>f DEF ClearHandle
  <2>4. \A y \in Txns : txn'[y] = "aborted" /\ Private(y) # {} => At("release", y)'
    <3>1. \A y \in Txns : txn'[y] = "aborted" => txn[y] = "aborted"
      BY <1>17, <1>t, <1>f DEF ClearHandle
    <3>2. QED
      BY <2>2, <3>1, ListOwner
  <2>5. \A t \in Threads : curDb[t] # NoDb => curDb'[t] = curDb[t]
    BY <2>1
  <2>6. \A e \in Dbs : Closing(e) => Closing(e)'
    BY <2>5 DEF Closing
  <2>7. \A e \in Dbs : (Alive(e)' => Alive(e)) /\ (Alive(e) => Alive(e)' \/ Closing(e)')
    <3>1. \A e \in Dbs : e # curDb[th] => dbi'[e] = dbi[e]
      BY <1>17, <1>t DEF ClearHandle
    <3>2. curDb[th] \in Dbs /\ Closing(curDb[th])' /\ dbi'[curDb[th]] = 0
      BY <1>17, <1>t, <1>f, <2>1 DEF Closing, ClearHandle
    <3>3. QED
      BY <3>1, <3>2, <2>1 DEF Alive, Closing
  <2>8. UNCHANGED <<newDatabases, creator, disposed>> /\ lapses \subseteq lapses'
    BY <1>17 DEF ClearHandle
  <2>9. QED
    BY <1>l, <2>2, <2>3, <2>6, <2>7, <2>8, <2>4, ListsKept
<1>18. ASSUME NEW th \in Threads, NewDatabaseDisposed(th) PROVE Lists'
  <2> DEFINE d == curDb[th]
  <2>3. ASSUME NEW y \in Txns, NEW e \in Dbs, e \in Private(y)'
        PROVE  /\ creator'[e] = y
               /\ txn'[y] # "committed" \/ Publishing(y)' => disposed'[e] = "new"
               /\ disposed'[e] = "new" => Alive(e)' \/ Closing(e)'
               /\ txn'[y] = "committed" => Publishing(y)' \/ "clash" \in lapses'
               /\ txn'[y] = "aborted" => At("release", y)'
    <3>1. e \in Private(y)
      BY <2>3, <1>18, NewDatabaseDisposedStep
    <3>2. creator[e] = y
      BY <1>l, <3>1
    <3>3. e # d
      BY <2>3, <3>2, <1>18, NewDatabaseDisposedStep
    <3>4. /\ creator'[e] = creator[e] /\ disposed'[e] = disposed[e] /\ txn'[y] = txn[y]
          /\ Alive(e)' <=> Alive(e)
          /\ lapses \subseteq lapses'
      BY <1>18, NewDatabaseDisposedStep
    <3>5. /\ Publishing(y)' <=> Publishing(y)
          /\ At("release", y) => At("release", y)'
          /\ Closing(e) => Closing(e)'
      BY <3>3, <1>18, NewDatabaseDisposedStep DEF Publishing, At, Closing, Others
    <3>6. QED
      BY <1>l, <3>1, <3>4, <3>5, InList
  <2>4. ASSUME NEW e \in Dbs, Alive(e)', disposed'[e] = "new" PROVE (e \in Private(creator[e]))'
    <3>1. Alive(e) /\ disposed[e] = "new" /\ e # d
      BY <2>4, <1>18, NewDatabaseDisposedStep
    <3>2. e \in Private(creator[e]) /\ creator[e] \in Txns
      BY <1>l, <1>o, <3>1
    <3>3. QED
      BY <3>1, <3>2, <1>18, NewDatabaseDisposedStep
  <2>5. QED
    BY <2>3, <2>4
<1>19. ASSUME NEW th \in Threads, DatabaseDisposed(th) PROVE Lists'
  <2>1. /\ \A t \in Threads \ {th} : /\ pc'[t] = pc[t] /\ curTxn'[t] = curTxn[t]
                                     /\ curDb'[t] = curDb[t]
        /\ pc[th] = "notify" /\ pc'[th] = "idle" /\ disposed[curDb[th]] = "committed"
    BY <1>19, <1>t, <1>f, Left DEF DatabaseDisposed, Others
  <2>2. \A y \in Txns : /\ Publishing(y)' <=> Publishing(y)
                        /\ At("release", y) => At("release", y)'
    BY <2>1 DEF Publishing, At
  <2>3. \A y \in Txns : txn'[y] = "committed" <=> txn[y] = "committed"
    BY <1>19, <1>t, <1>f DEF DatabaseDisposed
  <2>4. \A y \in Txns : txn'[y] = "aborted" /\ Private(y) # {} => At("release", y)'
    <3>1. \A y \in Txns : txn'[y] = "aborted" => txn[y] = "aborted"
      BY <1>19, <1>t, <1>f DEF DatabaseDisposed
    <3>2. QED
      BY <2>2, <3>1, ListOwner
  <2>5. \A t \in Threads : disposed[curDb[t]] = "new" => curDb'[t] = curDb[t]
    BY <2>1
  <2>6. \A e \in Dbs : disposed[e] = "new" /\ Closing(e) => Closing(e)'
    BY <2>5 DEF Closing
  <2>7. \A e \in Dbs : Alive(e)' <=> Alive(e)
    BY <1>19 DEF DatabaseDisposed, Alive
  <2>8. UNCHANGED <<newDatabases, creator, disposed>> /\ lapses \subseteq lapses'
    BY <1>19 DEF DatabaseDisposed
  <2>9. QED
    BY <1>l, <2>2, <2>3, <2>6, <2>7, <2>8, <2>4, ListsKept
<1>20. ASSUME NEW th \in Threads, Lookup(th) PROVE Lists'
  BY <1>20, <1>a, <1>b DEF Lookup, Idle, Goto
<1>21. ASSUME NEW th \in Threads, LookupEnds(th) PROVE Lists'
  <2>1. /\ \A t \in Threads \ {th} : /\ pc'[t] = pc[t] /\ curTxn'[t] = curTxn[t]
                                     /\ curDb'[t] = curDb[t]
        /\ pc[th] = "lookup" /\ pc'[th] = "idle" /\ curDb[th] = NoDb /\ curDb'[th] = NoDb
    <3>1. pc[th] = "lookup" /\ Leave(th)
      BY <1>21 DEF LookupEnds
    <3>2. Others(th) /\ pc'[th] = "idle" /\ curDb'[th] = NoDb
      BY <1>t, <3>1, Left
    <3>3. curDb[th] = NoDb
      BY <1>f, <3>1
    <3>4. QED
      BY <3>1, <3>2, <3>3 DEF Others
  <2>2. \A y \in Txns : /\ Publishing(y)' <=> Publishing(y)
                        /\ At("release", y) => At("release", y)'
    BY <2>1 DEF Publishing, At
  <2>3. \A y \in Txns : txn'[y] = "committed" <=> txn[y] = "committed"
    BY <1>21, <1>t, <1>f DEF LookupEnds
  <2>4. \A y \in Txns : txn'[y] = "aborted" /\ Private(y) # {} => At("release", y)'
    <3>1. \A y \in Txns : txn'[y] = "aborted" => txn[y] = "aborted"
      BY <1>21, <1>t, <1>f DEF LookupEnds
    <3>2. QED
      BY <2>2, <3>1, ListOwner
  <2>5. \A t \in Threads : curDb[t] # NoDb => curDb'[t] = curDb[t]
    BY <2>1
  <2>6. \A e \in Dbs : Closing(e) => Closing(e)'
    BY <2>5 DEF Closing
  <2>7. \A e \in Dbs : Alive(e)' <=> Alive(e)
    BY <1>21 DEF LookupEnds, Alive
  <2>8. UNCHANGED <<newDatabases, creator, disposed>> /\ lapses \subseteq lapses'
    BY <1>21 DEF LookupEnds
  <2>9. QED
    BY <1>l, <2>2, <2>3, <2>6, <2>7, <2>8, <2>4, ListsKept
<1>22. ASSUME NEW th \in Threads, DisposeEnvironment(th) PROVE Lists'
  <2>1. UNCHANGED threads /\ \A t \in Threads : pc[t] = "idle"
    BY <1>22 DEF DisposeEnvironment, Idle
  <2>2. \A y \in Txns : /\ Publishing(y)' <=> Publishing(y)
                        /\ At("release", y) => At("release", y)'
    BY <2>1 DEF Publishing, At
  <2>3. \A y \in Txns : txn'[y] = "committed" <=> txn[y] = "committed"
    BY <1>22, <1>t, <1>f DEF DisposeEnvironment
  <2>4. \A y \in Txns : txn'[y] = "aborted" /\ Private(y) # {} => At("release", y)'
    <3>1. \A y \in Txns : txn'[y] = "aborted" => txn[y] = "aborted" \/ kind[y] = "write"
      BY <1>22, <1>t, <1>f DEF DisposeEnvironment
    <3>2. QED
      BY <2>2, <3>1, ListOwner
  <2>5. \A t \in Threads : curDb[t] # NoDb => curDb'[t] = curDb[t]
    BY <2>1
  <2>6. \A e \in Dbs : Closing(e) => Closing(e)'
    BY <2>5 DEF Closing
  <2>7. \A e \in Dbs : (Alive(e)' => Alive(e)) /\ (disposed[e] = "new" /\ Alive(e) => Alive(e)')
    <3>1. \A e \in databases : e = Entry(e[2]) /\ disposed[e[2]] = "committed"
      BY DEF DatabaseInv, Registered
    <3>2. QED
      BY <1>22, <1>t, <3>1 DEF DisposeEnvironment, Alive
  <2>8. UNCHANGED <<newDatabases, creator, disposed>> /\ lapses \subseteq lapses'
    BY <1>22 DEF DisposeEnvironment
  <2>9. QED
    BY <1>l, <2>2, <2>3, <2>6, <2>7, <2>8, <2>4, ListsKept
<1>23. CASE UNCHANGED vars
  BY <1>23, <1>a, <1>b
<1>24. QED
  BY <1>1, <1>2, <1>3, <1>4, <1>5, <1>6, <1>7, <1>8, <1>9, <1>10, <1>11, <1>12, <1>13, <1>14,
     <1>15, <1>16, <1>17, <1>18, <1>19, <1>20, <1>21, <1>22, <1>23 DEF Next, Transaction,
     Database

\* A step keeps the writer mutex with the one open write transaction.
LEMMA WritingNext == DatabaseInv /\ [Next]_vars => Writing'
<1> SUFFICES ASSUME DatabaseInv, [Next]_vars PROVE Writing'
  OBVIOUS
<1> USE DatabaseAssumption DEF Labels, Focus, Knows, Writing, TypeOK, Closers, Objects, vars,
     objects, txns, threads, nativeSt
<1>a. TypeOK /\ Focus /\ Writing /\ Objects
  BY DEF DatabaseInv
<1>w. Writing
  BY DEF DatabaseInv
<1>1. ASSUME NEW th \in Threads, NEW x \in Txns, BeginDatabaseTransaction(th, x) PROVE Writing'
  BY <1>1, <1>a DEF BeginDatabaseTransaction, Begin, MayBegin, Idle, Goto
<1>2. ASSUME NEW th \in Threads, NEW x \in Txns, BeginWriteTransaction(th, x) PROVE Writing'
  <2>1. kind[x] = "none" /\ txn[x] = "unborn"
    BY <1>2, <1>a DEF BeginWriteTransaction, Begin, MayBegin
  <2>2. UNCHANGED <<envOpen, txn, writer, fresh>> /\ \A y \in Txns \ {x} : kind'[y] = kind[y]
    BY <1>2, <1>a DEF BeginWriteTransaction, Begin
  <2>3. writer = NoTxn \/ writer \in Txns \ {x}
    BY <1>a, <2>1
  <2>4. QED
    BY <1>w, <2>2, <2>3
<1>3. ASSUME NEW th \in Threads, LockDbTxn(th) PROVE Writing'
  BY <1>3, <1>a DEF LockDbTxn, Goto
<1>4. ASSUME NEW th \in Threads, BeginNative(th) PROVE Writing'
  BY <1>4, <1>a DEF BeginNative, Leave, Goto
<1>5. ASSUME NEW th \in Threads, NEW x \in Txns, Commit(th, x) PROVE Writing'
  BY <1>5, <1>a DEF Commit, EndNative, Idle, Goto
<1>6. ASSUME NEW th \in Threads, NEW x \in Txns, CommitFails(th, x) PROVE Writing'
  BY <1>6, <1>a DEF CommitFails, EndNative, Idle, Goto
<1>7. ASSUME NEW th \in Threads, NEW x \in Txns, Dispose(th, x) PROVE Writing'
  BY <1>7, <1>a DEF Dispose, EndNative, Idle, Goto
<1>8. ASSUME NEW th \in Threads, ReleaseManagedResources(th) PROVE Writing'
  BY <1>8, <1>a DEF ReleaseManagedResources, Goto
<1>9. ASSUME NEW th \in Threads, DatabaseTransactionClosed(th) PROVE Writing'
  BY <1>9, <1>a DEF DatabaseTransactionClosed, Leave, Goto
<1>10. ASSUME NEW th \in Threads, Committed(th) PROVE Writing'
  BY <1>10, <1>a DEF Committed, Leave, Goto
<1>11. ASSUME NEW th \in Threads, NEW x \in Txns, NEW n \in Names, OpenDatabase(th, x, n)
      PROVE  Writing'
  BY <1>11, <1>a DEF OpenDatabase, Idle, Goto
<1>12. ASSUME NEW th \in Threads, NEW d \in Dbs, OpenNative(th, d) PROVE Writing'
  BY <1>12, <1>a DEF OpenNative, DbiFor, Leave, Goto
<1>13. ASSUME NEW th \in Threads, OpenFails(th) PROVE Writing'
  BY <1>13, <1>a DEF OpenFails, Leave, Goto
<1>14. ASSUME NEW th \in Threads, NEW d \in Dbs, DisposeDatabase(th, d) PROVE Writing'
  BY <1>14, <1>a DEF DisposeDatabase, MayClose, Idle, Goto
<1>15. ASSUME NEW th \in Threads, CloseDbi(th) PROVE Writing'
  BY <1>15, <1>a DEF CloseDbi, Goto
<1>16. ASSUME NEW th \in Threads, NEW x \in Txns, NEW d \in Dbs, Drop(th, x, d) PROVE Writing'
  <2>1. fresh' \subseteq fresh /\ UNCHANGED <<envOpen, txn, kind, writer>>
    BY <1>16 DEF Drop
  <2>2. QED
    BY <1>w, <2>1
<1>17. ASSUME NEW th \in Threads, ClearHandle(th) PROVE Writing'
  BY <1>17, <1>a DEF ClearHandle, Goto
<1>18. ASSUME NEW th \in Threads, NewDatabaseDisposed(th) PROVE Writing'
  BY <1>18, <1>a DEF NewDatabaseDisposed, Leave, Goto
<1>19. ASSUME NEW th \in Threads, DatabaseDisposed(th) PROVE Writing'
  BY <1>19, <1>a DEF DatabaseDisposed, Leave, Goto
<1>20. ASSUME NEW th \in Threads, Lookup(th) PROVE Writing'
  BY <1>20, <1>a DEF Lookup, Idle, Goto
<1>21. ASSUME NEW th \in Threads, LookupEnds(th) PROVE Writing'
  BY <1>21, <1>a DEF LookupEnds, Leave, Goto
<1>22. ASSUME NEW th \in Threads, DisposeEnvironment(th) PROVE Writing'
  BY <1>22, <1>a DEF DisposeEnvironment, Idle
<1>23. CASE UNCHANGED vars
  BY <1>23, <1>a
<1>24. QED
  BY <1>1, <1>2, <1>3, <1>4, <1>5, <1>6, <1>7, <1>8, <1>9, <1>10, <1>11, <1>12, <1>13, <1>14,
     <1>15, <1>16, <1>17, <1>18, <1>19, <1>20, <1>21, <1>22, <1>23 DEF Next, Transaction,
     Database

\* A step keeps the dictionary exact.
LEMMA RegisteredNext == DatabaseInv /\ [Next]_vars => Registered'
<1> SUFFICES ASSUME DatabaseInv, [Next]_vars PROVE Registered'
  OBVIOUS
<1> USE DatabaseAssumption DEF Registered, TypeOK, Focus, Knows, Labels, Closers, Objects,
     vars, objects, txns, threads, nativeSt
<1>a. TypeOK /\ Focus /\ Objects /\ Registered
  BY DEF DatabaseInv
<1>t. TypeOK
  BY DEF DatabaseInv
<1>f. Focus
  BY DEF DatabaseInv
<1>r. Registered
  BY DEF DatabaseInv
<1>1. ASSUME NEW th \in Threads, NEW x \in Txns, BeginDatabaseTransaction(th, x) PROVE Registered'
  BY <1>1, <1>a DEF BeginDatabaseTransaction, Begin, MayBegin, Idle, Goto, Alive, Closing, Entry
<1>2. ASSUME NEW th \in Threads, NEW x \in Txns, BeginWriteTransaction(th, x) PROVE Registered'
  BY <1>2, <1>a DEF BeginWriteTransaction, Begin, MayBegin, Idle, Goto, Alive, Closing, Entry
<1>3. ASSUME NEW th \in Threads, LockDbTxn(th) PROVE Registered'
  BY <1>3, <1>a DEF LockDbTxn, Goto, Alive, Closing, Entry
<1>4. ASSUME NEW th \in Threads, BeginNative(th) PROVE Registered'
  <2>1. Others(th) /\ curDb[th] = NoDb /\ curDb'[th] = NoDb
    BY <1>4, <1>t, <1>f, Left DEF BeginNative
  <2>2. \A e \in Dbs : Closing(e) <=> Closing(e)'
    BY <2>1 DEF Closing, Others
  <2>3. UNCHANGED <<databases, disposed, envOpen, name, dbi>> /\ lapses \subseteq lapses'
    BY <1>4 DEF BeginNative
  <2>4. QED
    BY <1>t, <1>r, <2>2, <2>3, RegisteredKept DEF Alive
<1>5. ASSUME NEW th \in Threads, NEW x \in Txns, Commit(th, x) PROVE Registered'
  BY <1>5, <1>a DEF Commit, EndNative, Idle, Goto, Alive, Closing, Entry
<1>6. ASSUME NEW th \in Threads, NEW x \in Txns, CommitFails(th, x) PROVE Registered'
  BY <1>6, <1>a DEF CommitFails, EndNative, Idle, Goto, Alive, Closing, Entry
<1>7. ASSUME NEW th \in Threads, NEW x \in Txns, Dispose(th, x) PROVE Registered'
  BY <1>7, <1>a DEF Dispose, EndNative, Idle, Goto, Alive, Closing, Entry
<1>8. ASSUME NEW th \in Threads, ReleaseManagedResources(th) PROVE Registered'
  <2>1. UNCHANGED <<databases, disposed, envOpen, name, curDb, lapses>>
    BY <1>8, ReleaseStep
  <2>2. \A e \in Dbs : disposed[e] = "committed" => dbi'[e] = dbi[e]
    BY <1>8, ReleaseStep
  <2>3. QED
    BY <1>t, <1>r, <2>1, <2>2, RegisteredKept DEF Alive, Closing
<1>9. ASSUME NEW th \in Threads, DatabaseTransactionClosed(th) PROVE Registered'
  BY <1>9, <1>a DEF DatabaseTransactionClosed, Leave, Goto, Alive, Closing, Entry
<1>10. ASSUME NEW th \in Threads, Committed(th) PROVE Registered'
  <2>0. PICK x : x = curTxn[th]
    OBVIOUS
  <2>1. PICK lost \in SUBSET Published(x) :
          /\ databases' = databases \cup {Entry(d) : d \in Published(x) \ lost}
          /\ lost # {} => "raced" \in lapses'
    BY <1>10, <2>0, CommittedLists
  <2>2. /\ \A d \in Published(x) : \A e \in databases : e[1] # Fold[name[d]]
        /\ \A d, e \in Published(x) : Fold[name[d]] = Fold[name[e]] => d = e
        /\ lapses \subseteq lapses'
    BY <1>10, <2>0, CommittedLists
  <2>3. /\ Published(x) \subseteq Private(x)
        /\ \A d \in Private(x) : d \in Dbs /\ disposed[d] = "new"
        /\ \A d \in Dbs : disposed'[d] = IF d \in Published(x) THEN "committed" ELSE disposed[d]
        /\ UNCHANGED <<dbi, name, envOpen>> /\ x \in Txns /\ envOpen
    BY <1>10, <1>f, <2>0, CommittedStep
  <2>4. \A d \in Dbs : Closing(d)' <=> Closing(d)
    BY <1>10, <2>0, CommittedStep DEF Closing, Others
  <2>5. \A d \in Dbs : (Alive(d)' <=> Alive(d)) /\ Entry(d)' = Entry(d)
    BY <2>3 DEF Alive, Entry
  <2>6. \A d \in Private(x) : Alive(d) \/ Closing(d)
    BY <2>3 DEF DatabaseInv, Lists
  <2>7. \A e \in databases : e[2] \in Dbs
    BY <1>t
  <2>8. \A e \in databases' : e \in databases \/ \E d \in Published(x) : e = Entry(d)
    BY <2>1
  <2>9. ASSUME NEW e \in databases' PROVE e = Entry(e[2])' /\ disposed'[e[2]] = "committed"
    BY <1>r, <2>3, <2>5, <2>7, <2>8 DEF Entry
  <2>10. ASSUME NEW e \in databases', NEW f \in databases', e[1] = f[1] PROVE e = f
    BY <1>r, <2>2, <2>8, <2>10 DEF Entry
  <2>11. ASSUME "raced" \notin lapses', NEW e \in databases' PROVE (Alive(e[2]) \/ Closing(e[2]))'
    <3>1. CASE e \in databases
      BY <1>r, <2>2, <2>4, <2>5, <2>7, <2>11, <3>1
    <3>2. CASE e \notin databases
      <4>1. e[2] \in Private(x)
        BY <2>3, <2>8, <3>2 DEF Entry
      <4>2. QED
        BY <2>3, <2>4, <2>5, <2>6, <4>1
    <3>3. QED
      BY <3>1, <3>2
  <2>12. ASSUME "raced" \notin lapses', NEW d \in Dbs, disposed'[d] = "committed",
                (Alive(d) \/ Closing(d))'
         PROVE  Entry(d)' \in databases'
    <3>1. CASE d \in Published(x)
      BY <2>1, <2>5, <2>12, <3>1
    <3>2. CASE d \notin Published(x)
      BY <1>r, <2>1, <2>2, <2>3, <2>4, <2>5, <2>12, <3>2
    <3>3. QED
      BY <3>1, <3>2
  <2>13. QED
    BY <2>3, <2>9, <2>10, <2>11, <2>12
<1>11. ASSUME NEW th \in Threads, NEW x \in Txns, NEW n \in Names, OpenDatabase(th, x, n)
      PROVE  Registered'
  BY <1>11, <1>a DEF OpenDatabase, Idle, Goto, Alive, Closing, Entry
<1>12. ASSUME NEW th \in Threads, NEW d \in Dbs, OpenNative(th, d) PROVE Registered'
  <2>1. UNCHANGED <<databases, envOpen>> /\ lapses \subseteq lapses'
    BY <1>12, OpenNativeStep
  <2>2. \A e \in Dbs : disposed'[e] = "committed" <=> disposed[e] = "committed"
    BY <1>12, OpenNativeStep
  <2>3. ASSUME NEW e \in Dbs, disposed[e] = "committed"
        PROVE  name'[e] = name[e] /\ (Alive(e)' \/ Closing(e)' <=> Alive(e) \/ Closing(e))
    <3>1. name'[e] = name[e] /\ dbi'[e] = dbi[e]
      BY <2>3, <1>12, OpenNativeStep
    <3>2. Closing(e)' <=> Closing(e)
      BY <1>12, OpenNativeStep DEF Closing, Others
    <3>3. QED
      BY <3>1, <3>2 DEF Alive
  <2>4. QED
    BY <1>t, <1>r, <2>1, <2>2, <2>3, RegisteredKept
<1>13. ASSUME NEW th \in Threads, OpenFails(th) PROVE Registered'
  <2>1. Others(th) /\ curDb[th] = NoDb /\ curDb'[th] = NoDb
    BY <1>13, <1>t, <1>f, Left DEF OpenFails
  <2>2. \A e \in Dbs : Closing(e) <=> Closing(e)'
    BY <2>1 DEF Closing, Others
  <2>3. UNCHANGED <<databases, disposed, envOpen, name, dbi>> /\ lapses \subseteq lapses'
    BY <1>13 DEF OpenFails
  <2>4. QED
    BY <1>t, <1>r, <2>2, <2>3, RegisteredKept DEF Alive
<1>14. ASSUME NEW th \in Threads, NEW d \in Dbs, DisposeDatabase(th, d) PROVE Registered'
  <2>1. /\ UNCHANGED <<databases, disposed, envOpen, name, lapses>> /\ Alive(d)
        /\ dbi' = [dbi EXCEPT ![d] = 0] /\ curDb' = [curDb EXCEPT ![th] = d] /\ curDb[th] = NoDb
    BY <1>14, <1>f DEF DisposeDatabase, MayClose, Idle
  <2>2. \A e \in Dbs \ {d} : Alive(e)' = Alive(e) /\ (Closing(e)' <=> Closing(e))
    BY <1>t, <2>1 DEF Alive, Closing
  <2>3. Closing(d)'
    BY <1>t, <2>1 DEF Closing
  <2>4. QED
    BY <1>t, <1>r, <2>1, <2>2, <2>3, RegisteredKept
<1>15. ASSUME NEW th \in Threads, CloseDbi(th) PROVE Registered'
  BY <1>15, <1>a DEF CloseDbi, Goto, Alive, Closing, Entry
<1>16. ASSUME NEW th \in Threads, NEW x \in Txns, NEW d \in Dbs, Drop(th, x, d) PROVE Registered'
  <2>1. /\ UNCHANGED <<databases, disposed, envOpen, name, lapses, dbi>> /\ Alive(d)
        /\ curDb' = [curDb EXCEPT ![th] = d] /\ curDb[th] = NoDb
    BY <1>16, <1>f DEF Drop, MayClose, Idle
  <2>2. \A e \in Dbs \ {d} : Closing(e)' <=> Closing(e)
    BY <1>t, <2>1 DEF Closing
  <2>3. QED
    BY <1>t, <1>r, <2>1, <2>2, RegisteredKept DEF Alive
<1>17. ASSUME NEW th \in Threads, ClearHandle(th) PROVE Registered'
  BY <1>17, <1>a DEF ClearHandle, Goto, Alive, Closing, Entry
<1>18. ASSUME NEW th \in Threads, NewDatabaseDisposed(th) PROVE Registered'
  BY <1>18, <1>a DEF NewDatabaseDisposed, Leave, Goto, Alive, Closing, Entry
<1>19. ASSUME NEW th \in Threads, DatabaseDisposed(th) PROVE Registered'
  <2>0. PICK d : d = curDb[th]
    OBVIOUS
  <2>1. /\ pc[th] = "notify" /\ disposed[d] = "committed" /\ d \in Dbs /\ dbi[d] = 0 /\ envOpen
        /\ \A t \in Threads \ {th} : curDb[t] # d
        /\ UNCHANGED <<envOpen, dbi, disposed, name>>
    BY <1>19, <1>t, <1>f, <2>0 DEF DatabaseDisposed
  <2>2. Others(th) /\ curDb'[th] = NoDb
    BY <1>19, <1>t, Left DEF DatabaseDisposed
  <2>3. \A e \in Dbs \ {d} : Closing(e)' <=> Closing(e)
    BY <2>0, <2>2 DEF Closing, Others
  <2>4. ~Alive(d)' /\ ~Closing(d)' /\ Closing(d)
    BY <2>0, <2>1, <2>2 DEF Alive, Closing, Others
  <2>5. \A e \in Dbs : (Alive(e)' <=> Alive(e)) /\ Entry(e)' = Entry(e)
    BY <2>1 DEF Alive, Entry
  <2>6. databases' \subseteq databases /\ \A e \in databases : e[2] \in Dbs
    BY <1>19, <1>t DEF DatabaseDisposed
  <2>7. /\ lapses \subseteq lapses'
        /\ "raced" \in lapses' \/ databases' = {e \in databases : e[1] # Fold[name[d]]}
    BY <1>19, <2>0 DEF DatabaseDisposed
  <2>8. ASSUME "raced" \notin lapses', NEW e \in databases' PROVE (Alive(e[2]) \/ Closing(e[2]))'
    <3>1. e \in databases /\ e[1] # Fold[name[d]] /\ e = Entry(e[2]) /\ e[2] \in Dbs
      BY <1>r, <2>6, <2>7, <2>8
    <3>2. e[2] # d
      BY <3>1 DEF Entry
    <3>3. QED
      BY <1>r, <2>3, <2>5, <2>7, <2>8, <3>1, <3>2
  <2>9. ASSUME "raced" \notin lapses', NEW e \in Dbs, disposed[e] = "committed",
               (Alive(e) \/ Closing(e))'
        PROVE  Entry(e) \in databases'
    <3>1. e # d /\ (Alive(e) \/ Closing(e))
      BY <2>3, <2>4, <2>5, <2>9
    <3>2. Entry(e) \in databases /\ Entry(d) \in databases
      BY <1>r, <2>1, <2>4, <2>7, <2>9, <3>1
    <3>3. Entry(e)[1] # Entry(d)[1]
      <4>1. Entry(e) # Entry(d)
        BY <3>1 DEF Entry
      <4>2. QED
        BY <1>r, <3>2, <4>1
    <3>4. QED
      BY <2>7, <2>9, <3>2, <3>3 DEF Entry
  <2>10. QED
    BY <1>r, <2>1, <2>5, <2>6, <2>8, <2>9
<1>20. ASSUME NEW th \in Threads, Lookup(th) PROVE Registered'
  BY <1>20, <1>a DEF Lookup, Idle, Goto, Alive, Closing, Entry
<1>21. ASSUME NEW th \in Threads, LookupEnds(th) PROVE Registered'
  <2>1. Others(th) /\ curDb[th] = NoDb /\ curDb'[th] = NoDb
    <3>1. pc[th] = "lookup" /\ Leave(th)
      BY <1>21 DEF LookupEnds
    <3>2. QED
      BY <1>t, <1>f, <3>1, Left
  <2>2. \A e \in Dbs : Closing(e) <=> Closing(e)'
    BY <2>1 DEF Closing, Others
  <2>3. UNCHANGED <<databases, disposed, envOpen, name, dbi>> /\ lapses \subseteq lapses'
    BY <1>21 DEF LookupEnds
  <2>4. QED
    BY <1>t, <1>r, <2>2, <2>3, RegisteredKept DEF Alive
<1>22. ASSUME NEW th \in Threads, DisposeEnvironment(th) PROVE Registered'
  <2>1. /\ databases' = {} /\ UNCHANGED <<curDb, disposed, lapses>>
        /\ \A t \in Threads : pc[t] = "idle"
    BY <1>22 DEF DisposeEnvironment, Idle
  <2>2. \A d \in Dbs : ~Closing(d)'
    BY <1>f, <2>1, DatabaseAssumption DEF Closing
  <2>3. ASSUME "raced" \notin lapses', NEW d \in Dbs, disposed[d] = "committed",
               Alive(d)'
        PROVE  FALSE
    <3>1. Alive(d) /\ \A e \in databases : e[2] # d
      BY <1>22, <1>t, <2>3 DEF DisposeEnvironment, Alive
    <3>2. Entry(d) \in databases
      BY <1>r, <2>1, <2>3, <3>1
    <3>3. QED
      BY <3>1, <3>2 DEF Entry
  <2>4. QED
    BY <2>1, <2>2, <2>3
<1>23. CASE UNCHANGED vars
  BY <1>23, <1>a DEF Alive, Closing, Entry
<1>24. QED
  BY <1>1, <1>2, <1>3, <1>4, <1>5, <1>6, <1>7, <1>8, <1>9, <1>10, <1>11, <1>12, <1>13, <1>14,
     <1>15, <1>16, <1>17, <1>18, <1>19, <1>20, <1>21, <1>22, <1>23 DEF Next, Transaction,
     Database

\* A step keeps native handles apart.
LEMMA OwnedNext == DatabaseInv /\ [Next]_vars => Owned'
<1> SUFFICES ASSUME DatabaseInv, [Next]_vars PROVE Owned'
  OBVIOUS
<1> USE DatabaseAssumption DEF TypeOK, Focus, Knows, Labels, Closers, Objects, Lists, Writing,
     vars, objects, txns, threads, nativeSt
<1>t. TypeOK
  BY DEF DatabaseInv
<1>f. Focus
  BY DEF DatabaseInv
<1>o. Objects
  BY DEF DatabaseInv
<1>l. Lists
  BY DEF DatabaseInv
<1>i. Writing
  BY DEF DatabaseInv
<1>w. Owned
  BY DEF DatabaseInv
<1>1. ASSUME NEW th \in Threads, NEW x \in Txns, BeginDatabaseTransaction(th, x) PROVE Owned'
  <2>1. Aside(th)
    BY <1>1, <1>t DEF BeginDatabaseTransaction, Begin, MayBegin, Idle, Goto, Aside, Others
  <2>2. /\ UNCHANGED <<envOpen, name, dbi, creator, table, fresh>> /\ lapses \subseteq lapses'
        /\ fresh # {} => writer' = writer /\ owner'[writer] = owner[writer]
    <3>1. kind[x] = "none" /\ txn[x] = "unborn"
      BY <1>1, <1>o DEF BeginDatabaseTransaction, Begin, MayBegin
    <3>2. fresh # {} => writer \in Txns \ {x}
      BY <1>i, <1>t, <3>1
    <3>3. QED
      BY <1>1, <1>t, <3>2 DEF BeginDatabaseTransaction, Begin
  <2>3. QED
    BY <1>w, <2>1, <2>2, OwnedKept
<1>2. ASSUME NEW th \in Threads, NEW x \in Txns, BeginWriteTransaction(th, x) PROVE Owned'
  <2>1. Aside(th)
    BY <1>2, <1>t DEF BeginWriteTransaction, Begin, MayBegin, Idle, Goto, Aside, Others
  <2>2. /\ UNCHANGED <<envOpen, name, dbi, creator, table, fresh>> /\ lapses \subseteq lapses'
        /\ fresh # {} => writer' = writer /\ owner'[writer] = owner[writer]
    <3>1. kind[x] = "none" /\ txn[x] = "unborn"
      BY <1>2, <1>o DEF BeginWriteTransaction, Begin, MayBegin
    <3>2. fresh # {} => writer \in Txns \ {x}
      BY <1>i, <1>t, <3>1
    <3>3. QED
      BY <1>2, <1>t, <3>2 DEF BeginWriteTransaction, Begin
  <2>3. QED
    BY <1>w, <2>1, <2>2, OwnedKept
<1>3. ASSUME NEW th \in Threads, LockDbTxn(th) PROVE Owned'
  <2>1. Aside(th)
    BY <1>3, <1>t DEF LockDbTxn, Goto, Aside, Others
  <2>2. /\ UNCHANGED <<envOpen, name, dbi, creator, table, fresh>> /\ lapses \subseteq lapses'
        /\ fresh # {} => writer' = writer /\ owner'[writer] = owner[writer]
    BY <1>3 DEF LockDbTxn
  <2>3. QED
    BY <1>w, <2>1, <2>2, OwnedKept
<1>4. ASSUME NEW th \in Threads, BeginNative(th) PROVE Owned'
  <2>1. Aside(th)
    <3>1. pc[th] = "mutex" /\ Leave(th)
      BY <1>4 DEF BeginNative
    <3>2. Others(th) /\ pc'[th] = "idle" /\ handle'[th] = 0
      BY <1>t, <3>1, Left
    <3>3. handle[th] = 0
      BY <1>f, <3>1
    <3>4. QED
      BY <3>1, <3>2, <3>3 DEF Aside
  <2>2. /\ UNCHANGED <<envOpen, name, dbi, creator, table, fresh>> /\ lapses \subseteq lapses'
        /\ fresh # {} => writer' = writer /\ owner'[writer] = owner[writer]
    BY <1>4, <1>i DEF BeginNative
  <2>3. QED
    BY <1>w, <2>1, <2>2, OwnedKept
<1>5. ASSUME NEW th \in Threads, NEW x \in Txns, Commit(th, x) PROVE Owned'
  <2>1. /\ pc'[th] \in {"idle", "closed"} /\ Others(th) /\ handle'[th] = handle[th]
        /\ pc[th] = "idle"
    BY <1>5, <1>t, EndedNative DEF Commit
  <2>2. Aside(th)
    BY <2>1 DEF Aside
  <2>3. /\ UNCHANGED <<envOpen, name, dbi, creator, table, lapses>> /\ fresh' = {}
    BY <1>5 DEF Commit, EndNative
  <2>4. \A d \in Dbs : Solid(d)' => Solid(d)
    BY <2>2, <2>3, SolidKept DEF Alive
  <2>5. \A t \in Threads : /\ handle'[t] = handle[t]
                           /\ pc'[t] = "closeDbi" => pc[t] = "closeDbi" /\ curDb'[t] = curDb[t]
    BY <2>2 DEF Aside, Others
  <2>6. QED
    BY <1>w, <2>3, <2>4, <2>5 DEF Owned
<1>6. ASSUME NEW th \in Threads, NEW x \in Txns, CommitFails(th, x) PROVE Owned'
  BY <1>6 DEF CommitFails, Owned
<1>7. ASSUME NEW th \in Threads, NEW x \in Txns, Dispose(th, x) PROVE Owned'
  <2> SUFFICES ASSUME envOpen', lapses' \cap {"aliased", "failed"} = {} PROVE Owned'
    BY DEF Owned
  <2>1. /\ pc[th] = "idle" /\ txn[x] = "open" /\ owner[x] = th /\ envOpen
        /\ Others(th) /\ pc'[th] \in {"idle", "release"} /\ handle'[th] = handle[th]
        /\ kind[x] = "db" => pc'[th] = "release" /\ curTxn'[th] = x
    BY <1>7, <1>t, EndedNative DEF Dispose
  <2>2. Aside(th)
    BY <2>1 DEF Aside
  <2>3. /\ UNCHANGED <<envOpen, name, dbi, creator, lapses>> /\ fresh' = {}
        /\ table' = [s \in Slots |-> IF s \in fresh THEN NoName ELSE table[s]]
    BY <1>7 DEF Dispose, EndNative
  <2>4. writer = x /\ (kind[x] = "db" \/ fresh = {})
    BY <1>i, <1>o, <1>t, <2>1
  <2>5. /\ \A d \in Dbs : Solid(d) =>
             /\ table[dbi[d]] = name[d] /\ (dbi[d] \in fresh => creator[d] = x)
             /\ \A e \in Dbs : Solid(e) /\ dbi[e] = dbi[d] => d = e
        /\ \A t \in Threads : pc[t] = "closeDbi" =>
             /\ table[handle[t]] = name[curDb[t]] /\ (handle[t] \in fresh => t = th)
             /\ \A d \in Dbs : Solid(d) => dbi[d] # handle[t]
             /\ \A u \in Threads \ {t} : handle[u] # handle[t]
    BY <1>w, <2>1, <2>3, <2>4 DEF Owned
  <2>6. \A d \in Dbs : Solid(d)' => Solid(d)
    BY <2>2, <2>3, SolidKept DEF Alive
  <2>7. ASSUME NEW d \in Dbs, Solid(d)' PROVE dbi[d] \notin fresh /\ dbi[d] \in Slots
    <3>1. kind[x] = "db" => creator[d] # x
      BY <2>1, <2>3, <2>7 DEF Solid, At
    <3>2. dbi[d] # 0
      BY <2>6, <2>7 DEF Solid, Alive
    <3>3. dbi[d] \in Slots
      BY <1>t, <3>2
    <3>4. dbi[d] \in fresh => creator[d] = x
      BY <2>5, <2>6, <2>7
    <3>5. QED
      BY <2>4, <3>1, <3>3, <3>4
  <2>8. \A t \in Threads : pc[t] = "closeDbi" => handle[t] \in Slots \ fresh
    BY <1>t, <1>f, <2>1, <2>5
  <2>9. \A t \in Threads : /\ handle'[t] = handle[t]
                           /\ pc'[t] = "closeDbi" => pc[t] = "closeDbi" /\ curDb'[t] = curDb[t]
    BY <2>2 DEF Aside, Others
  <2>10. ASSUME NEW d \in Dbs, Solid(d)'
         PROVE  /\ table'[dbi[d]] = name[d]
                /\ \A e \in Dbs : Solid(e)' /\ dbi[e] = dbi[d] => d = e
    BY <2>3, <2>5, <2>6, <2>7, <2>10
  <2>11. ASSUME NEW t \in Threads, pc'[t] = "closeDbi"
         PROVE  /\ table'[handle'[t]] = name[curDb'[t]]
                /\ \A d \in Dbs : Solid(d)' => dbi[d] # handle'[t]
                /\ \A u \in Threads \ {t} : handle'[u] # handle'[t]
    BY <2>3, <2>5, <2>6, <2>8, <2>9, <2>11
  <2>12. QED
    BY <2>3, <2>10, <2>11 DEF Owned
<1>8. ASSUME NEW th \in Threads, ReleaseManagedResources(th) PROVE Owned'
  <2> DEFINE x == curTxn[th]
  <2>1. /\ UNCHANGED <<envOpen, name, creator, handle, curTxn, curDb, table, fresh, writer, owner,
                       lapses>>
        /\ pc[th] = "release" /\ x \in Txns /\ txn[x] = "aborted" /\ Others(th) /\ pc'[th] = "ended"
        /\ \A d \in Dbs : dbi'[d] = IF d \in Private(x) THEN 0 ELSE dbi[d]
    <3>1. UNCHANGED <<envOpen, name, creator, handle, curTxn, curDb, table, fresh, writer, owner,
                      lapses>>
      BY <1>8 DEF ReleaseManagedResources
    <3>2. pc[th] = "release" /\ x \in Txns /\ txn[x] = "aborted" /\ Others(th) /\ pc'[th] = "ended"
      BY <1>8, ReleaseStep
    <3>3. \A d \in Dbs : dbi'[d] = IF d \in Private(x) THEN 0 ELSE dbi[d]
      BY <1>8, ReleaseStep
    <3>4. QED
      BY <3>1, <3>2, <3>3
  <2> SUFFICES ASSUME envOpen', lapses' \cap {"aliased", "failed"} = {} PROVE Owned'
    BY DEF Owned
  <2>2. ASSUME NEW d \in Dbs, Solid(d)' PROVE Solid(d) /\ dbi'[d] = dbi[d]
    <3>1. d \notin Private(x) /\ Alive(d) /\ dbi'[d] = dbi[d]
      BY <2>1, <2>2 DEF Solid, Alive
    <3>2. creator[d] # x
      <4>1. CASE disposed[d] = "new"
        <5>1. d \in Private(creator[d])
          BY <1>l, <3>1, <4>1
        <5>2. QED
          BY <3>1, <5>1
      <4>2. CASE disposed[d] = "committed"
        BY <1>o, <2>1, <4>2
      <4>3. CASE disposed[d] = "none"
        BY <1>o, <3>1, <4>3 DEF Alive
      <4>4. QED
        BY <1>t, <4>1, <4>2, <4>3
    <3>3. ASSUME NEW t \in Threads, pc[t] = "release", curTxn[t] = creator[d] PROVE FALSE
      <4>1. t # th
        BY <3>2, <3>3
      <4>2. pc'[t] = "release" /\ curTxn'[t] = creator'[d]
        BY <2>1, <3>3, <4>1 DEF Others
      <4>3. QED
        BY <2>2, <4>2 DEF Solid, At
    <3>4. ASSUME NEW t \in Threads, pc[t] = "clear", curDb[t] = d PROVE FALSE
      <4>1. pc'[t] = "clear" /\ curDb'[t] = d
        BY <2>1, <3>4 DEF Others
      <4>2. QED
        BY <2>2, <4>1 DEF Solid
    <3>5. QED
      BY <3>1, <3>3, <3>4 DEF Solid, At
  <2>3. \A t \in Threads : pc'[t] = "closeDbi" => pc[t] = "closeDbi"
    BY <2>1 DEF Others
  <2>4. QED
    BY <1>w, <2>1, <2>2, <2>3 DEF Owned
<1>9. ASSUME NEW th \in Threads, DatabaseTransactionClosed(th) PROVE Owned'
  <2>1. Aside(th)
    <3>1. CASE pc[th] = "closed"
      BY <1>9, <1>t, <3>1 DEF DatabaseTransactionClosed, Goto, Aside, Others
    <3>2. CASE pc[th] = "ended"
      <4>1. Leave(th)
        BY <1>9, <3>2 DEF DatabaseTransactionClosed
      <4>2. Others(th) /\ pc'[th] = "idle" /\ handle'[th] = 0
        BY <1>t, <4>1, Left
      <4>3. handle[th] = 0
        BY <1>f, <3>2
      <4>4. QED
        BY <3>2, <4>2, <4>3 DEF Aside
    <3>3. QED
      BY <1>9, <3>1, <3>2 DEF DatabaseTransactionClosed
  <2>2. /\ UNCHANGED <<envOpen, name, dbi, creator, table, fresh>> /\ lapses \subseteq lapses'
        /\ fresh # {} => writer' = writer /\ owner'[writer] = owner[writer]
    BY <1>9 DEF DatabaseTransactionClosed
  <2>3. QED
    BY <1>w, <2>1, <2>2, OwnedKept
<1>10. ASSUME NEW th \in Threads, Committed(th) PROVE Owned'
  <2>1. Aside(th)
    <3>1. pc[th] = "committed" /\ Leave(th)
      BY <1>10 DEF Committed
    <3>2. Others(th) /\ pc'[th] = "idle" /\ handle'[th] = 0
      BY <1>t, <3>1, Left
    <3>3. handle[th] = 0
      BY <1>f, <3>1
    <3>4. QED
      BY <3>1, <3>2, <3>3 DEF Aside
  <2>2. /\ UNCHANGED <<envOpen, name, dbi, creator, table, fresh>> /\ lapses \subseteq lapses'
        /\ fresh # {} => writer' = writer /\ owner'[writer] = owner[writer]
    BY <1>10 DEF Committed
  <2>3. QED
    BY <1>w, <2>1, <2>2, OwnedKept
<1>11. ASSUME NEW th \in Threads, NEW x \in Txns, NEW n \in Names, OpenDatabase(th, x, n)
      PROVE  Owned'
  <2>1. Aside(th)
    BY <1>11, <1>t DEF OpenDatabase, Idle, Goto, Aside, Others
  <2>2. /\ UNCHANGED <<envOpen, name, dbi, creator, table, fresh>> /\ lapses \subseteq lapses'
        /\ fresh # {} => writer' = writer /\ owner'[writer] = owner[writer]
    BY <1>11 DEF OpenDatabase
  <2>3. QED
    BY <1>w, <2>1, <2>2, OwnedKept
<1>12. ASSUME NEW th \in Threads, NEW d \in Dbs, OpenNative(th, d) PROVE Owned'
  <2> DEFINE x == curTxn[th]
             n == curName[th]
  <2>1. PICK s \in DbiFor(n) :
          /\ table' = [table EXCEPT ![s] = n] /\ dbi' = [dbi EXCEPT ![d] = s]
          /\ fresh' = IF table[s] = n THEN fresh ELSE fresh \cup {s}
          /\ lapses' = lapses \cup {l \in {"aliased"} : table[s] = n}
    <3>1. PICK s \in DbiFor(curName[th]) :
            /\ table' = [table EXCEPT ![s] = curName[th]] /\ dbi' = [dbi EXCEPT ![d] = s]
            /\ fresh' = IF table[s] = curName[th] THEN fresh ELSE fresh \cup {s}
            /\ lapses' = lapses \cup {l \in {"aliased"} : table[s] = curName[th]}
      BY <1>12 DEF OpenNative
    <3>2. QED
      BY <3>1
  <2>2. /\ pc[th] = "open" /\ x \in Txns /\ txn[x] = "open" /\ handle[th] = 0 /\ n \in Names
        /\ name[d] = NoName /\ Others(th) /\ pc'[th] = "idle" /\ handle'[th] = 0
        /\ \A e \in Dbs \ {d} : dbi'[e] = dbi[e] /\ name'[e] = name[e] /\ creator'[e] = creator[e]
        /\ name'[d] = n /\ creator'[d] = x /\ UNCHANGED <<envOpen, writer, owner>>
    <3>1. /\ pc[th] = "open" /\ x \in Txns /\ txn[x] = "open" /\ handle[th] = 0 /\ n \in Names
          /\ name[d] = NoName /\ Others(th) /\ pc'[th] = "idle" /\ handle'[th] = 0
      BY <1>12, OpenNativeStep
    <3>2. /\ \A e \in Dbs \ {d} : dbi'[e] = dbi[e] /\ name'[e] = name[e] /\ creator'[e] = creator[e]
          /\ name'[d] = n /\ creator'[d] = x
      BY <1>12, OpenNativeStep
    <3>3. UNCHANGED <<envOpen, writer, owner>>
      BY <1>12 DEF OpenNative
    <3>4. QED
      BY <3>1, <3>2, <3>3
  <2> SUFFICES ASSUME envOpen', lapses' \cap {"aliased", "failed"} = {} PROVE Owned'
    BY DEF Owned
  <2>3. writer = x
    BY <1>i, <2>2
  <2>4. s \in Slots /\ table[s] = NoName
    <3>1. table[s] # n
      BY <2>1
    <3>2. QED
      BY <2>1, <3>1 DEF DbiFor
  <2>5. /\ fresh' \subseteq fresh \cup {s} /\ lapses \cap {"aliased", "failed"} = {}
        /\ table'[s] = n /\ (\A r \in Slots \ {s} : table'[r] = table[r]) /\ dbi'[d] = s
    BY <1>t, <2>1, <2>4
  <2>6. Aside(th)
    BY <2>2 DEF Aside
  <2>7. ASSUME NEW e \in Dbs, e # d, Solid(e)' PROVE Solid(e) /\ dbi[e] \in Slots \ {s}
    <3>1. Solid(e)
      BY <2>2, <2>6, <2>7, SolidKept DEF Alive
    <3>2. dbi[e] \in Slots /\ name[e] # NoName
      BY <1>t, <1>o, <3>1 DEF Solid, Alive
    <3>3. table[dbi[e]] = name[e]
      BY <1>w, <2>2, <2>5, <3>1 DEF Owned
    <3>4. QED
      BY <2>4, <3>1, <3>2, <3>3
  <2>8. ASSUME NEW t \in Threads, pc'[t] = "closeDbi"
        PROVE  /\ pc[t] = "closeDbi" /\ t # th /\ curDb'[t] = curDb[t] /\ curDb[t] \in Dbs \ {d}
               /\ handle[t] \in Slots \ {s}
    <3>1. pc[t] = "closeDbi" /\ t # th /\ curDb'[t] = curDb[t]
      BY <2>2, <2>8 DEF Others
    <3>2. curDb[t] \in Dbs /\ handle[t] \in Slots /\ disposed[curDb[t]] # "none"
      BY <1>t, <1>f, <3>1
    <3>3. name[curDb[t]] # NoName
      BY <1>o, <3>2
    <3>4. table[handle[t]] = name[curDb[t]]
      BY <1>w, <2>2, <2>5, <3>1 DEF Owned
    <3>5. QED
      BY <2>2, <2>4, <3>1, <3>2, <3>3, <3>4
  <2>9. \A t \in Threads : handle'[t] = handle[t]
    BY <2>2 DEF Others
  <2>10. ASSUME NEW e \in Dbs, Solid(e)'
         PROVE  /\ table'[dbi'[e]] = name'[e]
                /\ dbi'[e] \in fresh' => creator'[e] = writer'
                /\ \A f \in Dbs : Solid(f)' /\ dbi'[f] = dbi'[e] => e = f
    <3>1. CASE e = d
      <4>1. \A f \in Dbs : Solid(f)' /\ f # d => dbi'[f] # s
        BY <2>2, <2>7
      <4>2. QED
        BY <2>2, <2>3, <2>5, <3>1, <4>1
    <3>2. CASE e # d
      <4>1. Solid(e) /\ dbi[e] \in Slots \ {s} /\ dbi'[e] = dbi[e]
        BY <2>2, <2>7, <2>10, <3>2
      <4>2. /\ table[dbi[e]] = name[e] /\ (dbi[e] \in fresh => creator[e] = writer)
            /\ \A f \in Dbs : Solid(f) /\ dbi[f] = dbi[e] => e = f
        BY <1>w, <2>2, <2>5, <4>1 DEF Owned
      <4>3. \A f \in Dbs : Solid(f)' /\ dbi'[f] = dbi'[e] => e = f
        BY <2>2, <2>5, <2>7, <4>1, <4>2
      <4>4. QED
        <5>1. dbi[e] \in fresh' => dbi[e] \in fresh
          BY <2>5, <4>1
        <5>2. table'[dbi[e]] = table[dbi[e]]
          BY <2>5, <4>1
        <5>3. QED
          BY <2>2, <3>2, <4>1, <4>2, <4>3, <5>1, <5>2
    <3>3. QED
      BY <3>1, <3>2
  <2>11. ASSUME NEW t \in Threads, pc'[t] = "closeDbi"
         PROVE  /\ table'[handle'[t]] = name'[curDb'[t]]
                /\ handle'[t] \in fresh' => owner'[writer'] = t
                /\ \A e \in Dbs : Solid(e)' => dbi'[e] # handle'[t]
                /\ \A u \in Threads \ {t} : handle'[u] # handle'[t]
    <3>1. /\ table[handle[t]] = name[curDb[t]] /\ (handle[t] \in fresh => owner[writer] = t)
          /\ \A e \in Dbs : Solid(e) => dbi[e] # handle[t]
          /\ \A u \in Threads \ {t} : handle[u] # handle[t]
      BY <1>w, <2>2, <2>5, <2>8, <2>11 DEF Owned
    <3>2. \A e \in Dbs : Solid(e)' => dbi'[e] # handle[t]
      BY <2>2, <2>5, <2>7, <2>8, <2>11, <3>1
    <3>3. /\ handle'[t] = handle[t] /\ curDb'[t] = curDb[t] /\ name'[curDb[t]] = name[curDb[t]]
          /\ table'[handle[t]] = table[handle[t]] /\ (handle[t] \in fresh' => handle[t] \in fresh)
      BY <2>2, <2>5, <2>8, <2>9, <2>11
    <3>4. QED
      BY <2>2, <2>9, <3>1, <3>2, <3>3
  <2>12. QED
    BY <2>10, <2>11 DEF Owned
<1>13. ASSUME NEW th \in Threads, OpenFails(th) PROVE Owned'
  <2>1. Aside(th)
    <3>1. pc[th] = "open" /\ Leave(th)
      BY <1>13 DEF OpenFails
    <3>2. Others(th) /\ pc'[th] = "idle" /\ handle'[th] = 0
      BY <1>t, <3>1, Left
    <3>3. handle[th] = 0
      BY <1>f, <3>1
    <3>4. QED
      BY <3>1, <3>2, <3>3 DEF Aside
  <2>2. /\ UNCHANGED <<envOpen, name, dbi, creator, table, fresh>> /\ lapses \subseteq lapses'
        /\ fresh # {} => writer' = writer /\ owner'[writer] = owner[writer]
    BY <1>13 DEF OpenFails
  <2>3. QED
    BY <1>w, <2>1, <2>2, OwnedKept
<1>14. ASSUME NEW th \in Threads, NEW d \in Dbs, DisposeDatabase(th, d) PROVE Owned'
  <2> SUFFICES ASSUME envOpen', lapses' \cap {"aliased", "failed"} = {} PROVE Owned'
    BY DEF Owned
  <2>1. /\ MayClose(th, d) /\ pc[th] = "idle" /\ Alive(d)
        /\ handle' = [handle EXCEPT ![th] = dbi[d]] /\ dbi' = [dbi EXCEPT ![d] = 0]
        /\ curDb' = [curDb EXCEPT ![th] = d] /\ pc' = [pc EXCEPT ![th] = "closeDbi"]
        /\ UNCHANGED <<envOpen, name, creator, table, fresh, writer, owner, curTxn, lapses>>
    BY <1>14 DEF DisposeDatabase, MayClose, Idle, Goto
  <2>2. Solid(d) /\ curDb[th] = NoDb /\ (\A t \in Threads : curDb[t] # d)
    BY <1>f, <2>1, MayCloseSolid DEF MayClose
  <2>3. /\ table[dbi[d]] = name[d] /\ (dbi[d] \in fresh => creator[d] = writer)
        /\ \A e \in Dbs : Solid(e) /\ dbi[e] = dbi[d] => d = e
        /\ \A t \in Threads : pc[t] = "closeDbi" => handle[t] # dbi[d]
    BY <1>w, <2>1, <2>2 DEF Owned
  <2>4. dbi[d] \in fresh => owner[writer] = th
    <3>1. CASE disposed[d] = "new"
      BY <2>1, <2>3, <3>1 DEF MayClose
    <3>2. CASE disposed[d] # "new"
      <4>1. creator[d] \in Txns /\ txn[creator[d]] = "committed"
        BY <1>t, <1>o, <2>1, <3>2 DEF Alive
      <4>2. QED
        BY <1>i, <2>3, <4>1
    <3>3. QED
      BY <3>1, <3>2
  <2>5. ASSUME NEW e \in Dbs, Solid(e)' PROVE e # d /\ Solid(e) /\ dbi'[e] = dbi[e]
    <3>1. e # d
      BY <1>t, <2>1, <2>5 DEF Solid, Alive
    <3>2. dbi'[e] = dbi[e]
      BY <1>t, <2>1, <3>1
    <3>3. \A t \in Threads : pc[t] \in {"release", "clear"} =>
            pc'[t] = pc[t] /\ curTxn'[t] = curTxn[t] /\ curDb'[t] = curDb[t]
      BY <1>t, <2>1
    <3>4. QED
      BY <2>1, <2>5, <3>1, <3>2, <3>3 DEF Solid, Alive, At
  <2>6. \A t \in Threads \ {th} : handle'[t] = handle[t] /\ pc'[t] = pc[t] /\ curDb'[t] = curDb[t]
    BY <1>t, <2>1
  <2>7. handle'[th] = dbi[d] /\ curDb'[th] = d /\ dbi[d] # 0
    BY <1>t, <2>1 DEF Alive
  <2>8. \A t \in Threads : handle[t] # 0 => pc[t] = "closeDbi"
    BY <1>f
  <2>9. ASSUME NEW t \in Threads, pc'[t] = "closeDbi"
        PROVE  /\ table'[handle'[t]] = name'[curDb'[t]]
               /\ handle'[t] \in fresh' => owner'[writer'] = t
               /\ \A e \in Dbs : Solid(e)' => dbi'[e] # handle'[t]
               /\ \A u \in Threads \ {t} : handle'[u] # handle'[t]
    <3>1. CASE t = th
      BY <2>1, <2>3, <2>4, <2>5, <2>6, <2>7, <2>8, <3>1
    <3>2. CASE t # th
      BY <1>w, <2>1, <2>3, <2>5, <2>6, <2>7, <2>9, <3>2 DEF Owned
    <3>3. QED
      BY <3>1, <3>2
  <2>10. ASSUME NEW e \in Dbs, Solid(e)'
         PROVE  /\ table'[dbi'[e]] = name'[e]
                /\ dbi'[e] \in fresh' => creator'[e] = writer'
                /\ \A f \in Dbs : Solid(f)' /\ dbi'[f] = dbi'[e] => e = f
    BY <1>w, <2>1, <2>5, <2>10 DEF Owned
  <2>11. QED
    BY <2>9, <2>10 DEF Owned
<1>15. ASSUME NEW th \in Threads, CloseDbi(th) PROVE Owned'
  <2> SUFFICES ASSUME envOpen', lapses' \cap {"aliased", "failed"} = {} PROVE Owned'
    BY DEF Owned
  <2>1. /\ pc[th] = "closeDbi" /\ table' = [table EXCEPT ![handle[th]] = NoName]
        /\ handle' = [handle EXCEPT ![th] = 0] /\ pc' = [pc EXCEPT ![th] = "notify"]
        /\ UNCHANGED <<envOpen, name, dbi, creator, fresh, writer, owner, curTxn, curDb, lapses>>
    BY <1>15 DEF CloseDbi, Goto
  <2>2. \A t \in Threads \ {th} : pc'[t] = pc[t] /\ handle'[t] = handle[t]
    BY <1>t, <2>1
  <2>3. handle[th] \in Slots /\ handle'[th] = 0 /\ pc'[th] = "notify"
    BY <1>t, <1>f, <2>1
  <2>4. \A d \in Dbs : Solid(d)' => Solid(d)
    BY <2>1, <2>2 DEF Solid, Alive, At
  <2>5. \A r \in Slots \ {handle[th]} : table'[r] = table[r]
    BY <1>t, <2>1
  <2>6. ASSUME NEW d \in Dbs, Solid(d)'
        PROVE  /\ table'[dbi'[d]] = name'[d]
               /\ dbi'[d] \in fresh' => creator'[d] = writer'
               /\ \A e \in Dbs : Solid(e)' /\ dbi'[e] = dbi'[d] => d = e
    <3>1. /\ table[dbi[d]] = name[d] /\ (dbi[d] \in fresh => creator[d] = writer)
          /\ \A e \in Dbs : Solid(e) /\ dbi[e] = dbi[d] => d = e
          /\ dbi[d] # handle[th]
      BY <1>w, <2>1, <2>4, <2>6 DEF Owned
    <3>2. dbi[d] \in Slots
      BY <1>t, <2>4, <2>6 DEF Solid, Alive
    <3>3. QED
      BY <2>1, <2>4, <2>5, <3>1, <3>2
  <2>7. ASSUME NEW t \in Threads, pc'[t] = "closeDbi"
        PROVE  /\ table'[handle'[t]] = name'[curDb'[t]]
               /\ handle'[t] \in fresh' => owner'[writer'] = t
               /\ \A e \in Dbs : Solid(e)' => dbi'[e] # handle'[t]
               /\ \A u \in Threads \ {t} : handle'[u] # handle'[t]
    <3>1. t # th /\ pc[t] = "closeDbi"
      BY <2>2, <2>3, <2>7
    <3>2. /\ table[handle[t]] = name[curDb[t]] /\ (handle[t] \in fresh => owner[writer] = t)
          /\ \A e \in Dbs : Solid(e) => dbi[e] # handle[t]
          /\ \A u \in Threads \ {t} : handle[u] # handle[t]
      BY <1>w, <2>1, <3>1 DEF Owned
    <3>3. handle[t] \in Slots /\ handle[t] # 0
      BY <1>t, <1>f, <3>1
    <3>4. QED
      BY <2>1, <2>2, <2>3, <2>4, <2>5, <3>1, <3>2, <3>3
  <2>8. QED
    BY <2>6, <2>7 DEF Owned
<1>16. ASSUME NEW th \in Threads, NEW x \in Txns, NEW d \in Dbs, Drop(th, x, d) PROVE Owned'
  <2> SUFFICES ASSUME envOpen', lapses' \cap {"aliased", "failed"} = {} PROVE Owned'
    BY DEF Owned
  <2>1. /\ MayClose(th, d) /\ pc[th] = "idle" /\ Alive(d)
        /\ table' = [table EXCEPT ![dbi[d]] = NoName] /\ fresh' = fresh \ {dbi[d]}
        /\ curDb' = [curDb EXCEPT ![th] = d] /\ pc' = [pc EXCEPT ![th] = "clear"]
        /\ UNCHANGED <<envOpen, name, dbi, creator, handle, writer, owner, curTxn, lapses>>
    BY <1>16 DEF Drop, MayClose, Idle, Goto
  <2>2. Solid(d) /\ (\A t \in Threads : curDb[t] # d)
    BY <2>1, MayCloseSolid DEF MayClose
  <2>3. /\ \A e \in Dbs : Solid(e) /\ dbi[e] = dbi[d] => d = e
        /\ \A t \in Threads : pc[t] = "closeDbi" => handle[t] # dbi[d]
    BY <1>w, <2>1, <2>2 DEF Owned
  <2>4. /\ \A t \in Threads \ {th} : pc'[t] = pc[t] /\ curDb'[t] = curDb[t]
        /\ pc'[th] = "clear" /\ curDb'[th] = d
    BY <1>t, <2>1
  <2>5. \A r \in Slots \ {dbi[d]} : table'[r] = table[r]
    BY <1>t, <2>1
  <2>6. ASSUME NEW e \in Dbs, Solid(e)' PROVE e # d /\ Solid(e)
    <3>1. e # d
      BY <2>4, <2>6 DEF Solid
    <3>2. QED
      BY <2>1, <2>4, <2>6, <3>1 DEF Solid, Alive, At
  <2>7. ASSUME NEW e \in Dbs, Solid(e)'
        PROVE  /\ table'[dbi'[e]] = name'[e]
               /\ dbi'[e] \in fresh' => creator'[e] = writer'
               /\ \A f \in Dbs : Solid(f)' /\ dbi'[f] = dbi'[e] => e = f
    <3>1. dbi[e] \in Slots \ {dbi[d]}
      BY <1>t, <2>3, <2>6, <2>7 DEF Solid, Alive
    <3>2. QED
      BY <1>w, <2>1, <2>5, <2>6, <2>7, <3>1 DEF Owned
  <2>8. ASSUME NEW t \in Threads, pc'[t] = "closeDbi"
        PROVE  /\ table'[handle'[t]] = name'[curDb'[t]]
               /\ handle'[t] \in fresh' => owner'[writer'] = t
               /\ \A e \in Dbs : Solid(e)' => dbi'[e] # handle'[t]
               /\ \A u \in Threads \ {t} : handle'[u] # handle'[t]
    <3>1. t # th /\ pc[t] = "closeDbi"
      BY <2>4, <2>8
    <3>2. handle[t] \in Slots \ {dbi[d]}
      BY <1>t, <1>f, <2>3, <3>1
    <3>3. QED
      BY <1>w, <2>1, <2>4, <2>5, <2>6, <3>1, <3>2 DEF Owned
  <2>9. QED
    BY <2>7, <2>8 DEF Owned
<1>17. ASSUME NEW th \in Threads, ClearHandle(th) PROVE Owned'
  <2> SUFFICES ASSUME envOpen', lapses' \cap {"aliased", "failed"} = {} PROVE Owned'
    BY DEF Owned
  <2>1. /\ pc[th] = "clear" /\ dbi' = [dbi EXCEPT ![curDb[th]] = 0]
        /\ pc' = [pc EXCEPT ![th] = "notify"]
        /\ UNCHANGED <<envOpen, name, creator, table, fresh, handle, writer, owner, curTxn, curDb,
                       lapses>>
    BY <1>17 DEF ClearHandle, Goto
  <2>2. (\A t \in Threads \ {th} : pc'[t] = pc[t]) /\ pc'[th] = "notify"
    BY <1>t, <2>1
  <2>3. ASSUME NEW e \in Dbs, Solid(e)' PROVE Solid(e) /\ dbi'[e] = dbi[e]
    <3>1. e # curDb[th]
      BY <1>t, <2>1, <2>3 DEF Solid, Alive
    <3>2. dbi'[e] = dbi[e]
      BY <1>t, <2>1, <3>1
    <3>3. QED
      BY <2>1, <2>2, <2>3, <3>1, <3>2 DEF Solid, Alive, At
  <2>4. QED
    BY <1>w, <2>1, <2>2, <2>3 DEF Owned
<1>18. ASSUME NEW th \in Threads, NewDatabaseDisposed(th) PROVE Owned'
  <2>1. Aside(th)
    <3>1. pc[th] = "notify" /\ Leave(th)
      BY <1>18 DEF NewDatabaseDisposed
    <3>2. Others(th) /\ pc'[th] = "idle" /\ handle'[th] = 0
      BY <1>t, <3>1, Left
    <3>3. handle[th] = 0
      BY <1>f, <3>1
    <3>4. QED
      BY <3>1, <3>2, <3>3 DEF Aside
  <2>2. /\ UNCHANGED <<envOpen, name, dbi, creator, table, fresh>> /\ lapses \subseteq lapses'
        /\ fresh # {} => writer' = writer /\ owner'[writer] = owner[writer]
    BY <1>18 DEF NewDatabaseDisposed
  <2>3. QED
    BY <1>w, <2>1, <2>2, OwnedKept
<1>19. ASSUME NEW th \in Threads, DatabaseDisposed(th) PROVE Owned'
  <2>1. Aside(th)
    <3>1. pc[th] = "notify" /\ Leave(th)
      BY <1>19 DEF DatabaseDisposed
    <3>2. Others(th) /\ pc'[th] = "idle" /\ handle'[th] = 0
      BY <1>t, <3>1, Left
    <3>3. handle[th] = 0
      BY <1>f, <3>1
    <3>4. QED
      BY <3>1, <3>2, <3>3 DEF Aside
  <2>2. /\ UNCHANGED <<envOpen, name, dbi, creator, table, fresh>> /\ lapses \subseteq lapses'
        /\ fresh # {} => writer' = writer /\ owner'[writer] = owner[writer]
    BY <1>19 DEF DatabaseDisposed
  <2>3. QED
    BY <1>w, <2>1, <2>2, OwnedKept
<1>20. ASSUME NEW th \in Threads, Lookup(th) PROVE Owned'
  <2>1. Aside(th)
    BY <1>20, <1>t DEF Lookup, Idle, Goto, Aside, Others
  <2>2. /\ UNCHANGED <<envOpen, name, dbi, creator, table, fresh>> /\ lapses \subseteq lapses'
        /\ fresh # {} => writer' = writer /\ owner'[writer] = owner[writer]
    BY <1>20 DEF Lookup
  <2>3. QED
    BY <1>w, <2>1, <2>2, OwnedKept
<1>21. ASSUME NEW th \in Threads, LookupEnds(th) PROVE Owned'
  <2>1. Aside(th)
    <3>1. pc[th] = "lookup" /\ Leave(th)
      BY <1>21 DEF LookupEnds
    <3>2. Others(th) /\ pc'[th] = "idle" /\ handle'[th] = 0
      BY <1>t, <3>1, Left
    <3>3. handle[th] = 0
      BY <1>f, <3>1
    <3>4. QED
      BY <3>1, <3>2, <3>3 DEF Aside
  <2>2. /\ UNCHANGED <<envOpen, name, dbi, creator, table, fresh>> /\ lapses \subseteq lapses'
        /\ fresh # {} => writer' = writer /\ owner'[writer] = owner[writer]
    BY <1>21 DEF LookupEnds
  <2>3. QED
    BY <1>w, <2>1, <2>2, OwnedKept
<1>22. ASSUME NEW th \in Threads, DisposeEnvironment(th) PROVE Owned'
  BY <1>22 DEF DisposeEnvironment, Owned
<1>23. CASE UNCHANGED vars
  BY <1>23, <1>w DEF Owned, Solid, Alive, At
<1>24. QED
  BY <1>1, <1>2, <1>3, <1>4, <1>5, <1>6, <1>7, <1>8, <1>9, <1>10, <1>11, <1>12, <1>13, <1>14,
     <1>15, <1>16, <1>17, <1>18, <1>19, <1>20, <1>21, <1>22, <1>23 DEF Next, Transaction,
     Database

\* A list keeps having a Database once.
LEMMA DistinctNext == DatabaseInv /\ [Next]_vars => Distinct'
<1> SUFFICES ASSUME DatabaseInv, [Next]_vars PROVE Distinct'
  OBVIOUS
<1>1. ASSUME UNCHANGED newDatabases PROVE Distinct'
  BY <1>1, ListSame DEF DatabaseInv
<1>2. ASSUME NEW th \in Threads, NEW x \in Txns,
             \/ BeginDatabaseTransaction(th, x) \/ BeginWriteTransaction(th, x)
             \/ Commit(th, x) \/ CommitFails(th, x) \/ Dispose(th, x)
             \/ \E n \in Names : OpenDatabase(th, x, n)
             \/ \E d \in Dbs : Drop(th, x, d)
      PROVE  Distinct'
  BY <1>1, <1>2 DEF BeginDatabaseTransaction, BeginWriteTransaction, Begin, Commit, CommitFails,
     Dispose, EndNative, OpenDatabase, Drop, txns
<1>3. ASSUME NEW th \in Threads,
             \/ LockDbTxn(th) \/ BeginNative(th) \/ DatabaseTransactionClosed(th) \/ OpenFails(th)
             \/ \E d \in Dbs : DisposeDatabase(th, d)
             \/ CloseDbi(th) \/ ClearHandle(th) \/ DatabaseDisposed(th)
             \/ Lookup(th) \/ LookupEnds(th) \/ DisposeEnvironment(th)
      PROVE  Distinct'
  BY <1>1, <1>3 DEF LockDbTxn, BeginNative, DatabaseTransactionClosed, OpenFails, DisposeDatabase,
     CloseDbi, ClearHandle, DatabaseDisposed, Lookup, LookupEnds, DisposeEnvironment, txns
<1>4. ASSUME NEW th \in Threads,
             \/ ReleaseManagedResources(th) \/ Committed(th)
             \/ \E d \in Dbs : OpenNative(th, d)
             \/ NewDatabaseDisposed(th)
      PROVE  Distinct'
  BY <1>4, ReleaseLists, CommittedLists, OpenNativeLists, NewDatabaseDisposedLists
<1>5. CASE UNCHANGED vars
  BY <1>1, <1>5 DEF vars, txns
<1>6. QED
  BY <1>2, <1>3, <1>4, <1>5 DEF Next, Transaction, Database

\* The initial state satisfies the invariant.
LEMMA DatabaseInit == Init => DatabaseInv
<1> SUFFICES ASSUME Init PROVE DatabaseInv
  OBVIOUS
<1> USE DatabaseAssumption DEF Init
<1>1. TypeOK
  BY DEF TypeOK, Labels
<1>2. \A x \in Txns : Private(x) = {}
  BY DEF Private, ToSet
<1>3. \A d \in Dbs : ~Alive(d)
  BY DEF Alive
<1>4. Distinct /\ Writing /\ Objects
  BY DEF Distinct, Writing, Objects
<1>5. Focus
  BY DEF Focus, Knows, Closers
<1>6. Lists
  BY <1>2, <1>3 DEF Lists
<1>7. Registered
  BY DEF Registered
<1>8. Owned
  BY <1>3 DEF Owned, Solid
<1>9. QED
  BY <1>1, <1>4, <1>5, <1>6, <1>7, <1>8 DEF DatabaseInv

\* Every step keeps the invariant.
LEMMA DatabaseNext == DatabaseInv /\ [Next]_vars => DatabaseInv'
BY TypeNext, DistinctNext, FocusNext, ObjectsNext, ListsNext, RegisteredNext, WritingNext, OwnedNext
   DEF DatabaseInv

\* What the properties rest on: holds in every reachable state.
THEOREM DatabaseInvariant == Spec => []DatabaseInv
  BY DatabaseInit, DatabaseNext, PTL DEF Spec

\* Every variable has its type.
THEOREM DatabaseTypeCorrect == Spec => []TypeOK
<1>1. DatabaseInv => TypeOK
  BY DEF DatabaseInv
<1>2. QED
  BY <1>1, DatabaseInvariant, PTL

\* No thread operates on another database through a dbi that was reused: whatever steps the
\* closes, drops, aborts and opens of any number of threads are cut into, a handle that is not
\* zero belongs to the name it was opened for (Database.Dispose, Drop, SetDisposed,
\* ReleaseManagedResources).
THEOREM DatabaseHandlesMatch == Spec => []HandlesMatch
<1>1. DatabaseInv => HandlesMatch
  <2> SUFFICES ASSUME DatabaseInv, lapses \cap {"aliased", "failed"} = {}, envOpen,
                      NEW d \in Dbs, Alive(d), ~Closing(d), ~At("release", creator[d])
               PROVE  table[dbi[d]] = name[d]
    BY DEF HandlesMatch
  <2>1. Solid(d)
    BY DEF Solid, Closing
  <2>2. QED
    BY <2>1 DEF DatabaseInv, Owned
<1>2. QED
  BY <1>1, DatabaseInvariant, PTL

\* Once a Commit has returned, the dictionary has each of its databases that nobody has closed
\* (Committed, DatabaseDisposed).
THEOREM CommittedStayRegistered == Spec => []CommittedRegistered
<1>1. DatabaseInv => CommittedRegistered
  <2> SUFFICES ASSUME DatabaseInv, lapses = {}, NEW d \in Dbs, Alive(d),
                      txn[creator[d]] = "committed",
                      \A th \in Threads : curTxn[th] # creator[d]
               PROVE  Entry(d) \in databases
    BY DEF CommittedRegistered
  <2>1. ~Publishing(creator[d])
    BY DEF Publishing, At
  <2>2. creator[d] \in Txns /\ disposed[d] \in {"new", "committed"}
    BY DEF DatabaseInv, Objects, TypeOK, Alive
  <2>3. disposed[d] # "new"
    BY <2>1, <2>2 DEF DatabaseInv, Lists
  <2>4. QED
    BY <2>2, <2>3 DEF DatabaseInv, Registered
<1>2. QED
  BY <1>1, DatabaseInvariant, PTL

\* The dictionary never hands out a Database that is disposed, but one that its thread is about to
\* remove, and nothing that is not committed.
THEOREM DictionaryAlive == Spec => []RegistryAlive
<1>1. DatabaseInv => RegistryAlive
  <2> SUFFICES ASSUME DatabaseInv, "raced" \notin lapses, NEW e \in databases
               PROVE  /\ e = Entry(e[2]) /\ txn[creator[e[2]]] = "committed"
                      /\ Alive(e[2]) \/ Closing(e[2])
    BY DEF RegistryAlive
  <2>1. e[2] \in Dbs
    BY DEF DatabaseInv, TypeOK
  <2>2. e = Entry(e[2]) /\ disposed[e[2]] = "committed" /\ (Alive(e[2]) \/ Closing(e[2]))
    BY DEF DatabaseInv, Registered
  <2>3. QED
    BY <2>1, <2>2 DEF DatabaseInv, Objects
<1>2. QED
  BY <1>1, DatabaseInvariant, PTL

\* An abort that has returned leaves none of the transaction's databases usable.
THEOREM AbortLeavesNothingUsable == Spec => []AbortedUnusable
<1>1. DatabaseInv => AbortedUnusable
  <2> SUFFICES ASSUME DatabaseInv, NEW d \in Dbs, Alive(d), txn[creator[d]] = "aborted"
               PROVE  At("release", creator[d])
    BY DEF AbortedUnusable
  <2>1. creator[d] \in Txns /\ disposed[d] = "new"
    BY DEF DatabaseInv, Objects, TypeOK, Alive
  <2>2. d \in Private(creator[d])
    BY <2>1 DEF DatabaseInv, Lists
  <2>3. QED
    BY <2>1, <2>2 DEF DatabaseInv, Lists
<1>2. QED
  BY <1>1, DatabaseInvariant, PTL

\* After the environment's Dispose nothing seems usable but what a database transaction, which it
\* does not end, still keeps to itself (LmdbEnvironment.Dispose).
THEOREM DisposeLeavesNoHandle == Spec => []DisposeClearsHandles
<1>1. DatabaseInv => DisposeClearsHandles
  <2> SUFFICES ASSUME DatabaseInv, ~envOpen, lapses = {}, NEW d \in Dbs, Alive(d)
               PROVE  txn[creator[d]] = "open"
    BY DEF DisposeClearsHandles
  <2>1. \A label \in {"release", "closed", "committed"} : ~At(label, creator[d])
    BY DEF DatabaseInv, Focus, At
  <2>2. disposed[d] # "committed"
    BY DEF DatabaseInv, Registered
  <2>3. creator[d] \in Txns /\ disposed[d] = "new" /\ txn[creator[d]] \notin {"unborn", "failed"}
    BY <2>2 DEF DatabaseInv, Objects, TypeOK, Alive
  <2>4. d \in Private(creator[d])
    BY <2>3 DEF DatabaseInv, Lists
  <2>5. txn[creator[d]] \notin {"committed", "aborted"}
    BY <2>1, <2>3, <2>4 DEF DatabaseInv, Lists, Publishing
  <2>6. QED
    BY <2>3, <2>5 DEF DatabaseInv, TypeOK
<1>2. QED
  BY <1>1, DatabaseInvariant, PTL

\* What has gone wrong stays in the history, and CommitFails adds nothing the contract knows.
LEMMA Quiet ==
  ASSUME UNCHANGED <<databases, newDatabases, name, dbi>>,
         lapses' = lapses \/ lapses' = lapses \cup {"failed"}
  PROVE  UNCHANGED Contract!vars
<1>1. (lapses \cap {"clash", "raced"} # {})' <=> lapses \cap {"clash", "raced"} # {}
  OBVIOUS
<1>2. QED
  BY <1>1 DEF Contract!vars, Alive

\* A commit that meets no clash and loses no write publishes all of the transaction's databases.
LEMMA CommitPublishes ==
  ASSUME DatabaseInv, NEW th \in Threads, Committed(th), lapses' \cap {"clash", "raced"} = {}
  PROVE  Contract!Next \/ UNCHANGED Contract!vars
<1>0. PICK x : x = curTxn[th]
  OBVIOUS
<1>1. /\ x \in Txns
      /\ Private(x) \subseteq Dbs
      /\ Published(x) = Private(x)
      /\ \A y \in Txns : Private(y)' = IF y = x THEN {} ELSE Private(y)
      /\ \A d \in Private(x) : \A e \in databases : e[1] # Fold[name[d]]
      /\ \A d, e \in Private(x) : Fold[name[d]] = Fold[name[e]] => d = e
      /\ databases' = databases \cup {Entry(d) : d \in Private(x)}
  <2>1. PICK lost \in SUBSET Published(x) :
          /\ databases' = databases \cup {Entry(d) : d \in Published(x) \ lost}
          /\ lost # {} => "raced" \in lapses'
    BY <1>0, CommittedLists
  <2>2. lost = {} /\ "clash" \notin lapses'
    BY <2>1
  <2>3. databases' = databases \cup {Entry(d) : d \in Published(x)}
    BY <2>1, <2>2
  <2>4. QED
    BY <1>0, <2>2, <2>3, CommittedLists
<1>2. UNCHANGED <<name, dbi>> /\ \A d \in Private(x) : name[d] \in Names
  BY <1>0, <1>1, CommittedStep DEF DatabaseInv, TypeOK
<1>3. /\ UNCHANGED <<{d \in Dbs : name[d] # NoName}, {d \in Dbs : Alive(d)}>>
      /\ UNCHANGED (lapses \cap {"clash", "raced"} # {})
  BY <1>2, CommittedLists DEF Alive
<1>4. [y \in Txns |-> ToSet(newDatabases[y])]' =
        [[y \in Txns |-> ToSet(newDatabases[y])] EXCEPT ![x] = {}]
  BY <1>1 DEF Private
<1>5. CASE Private(x) = {}
  <2>1. databases' = databases /\ [y \in Txns |-> ToSet(newDatabases[y])]' =
                                     [y \in Txns |-> ToSet(newDatabases[y])]
    BY <1>1, <1>4, <1>5 DEF Private
  <2>2. QED
    BY <1>3, <2>1 DEF Contract!vars
<1>6. CASE Private(x) # {}
  <2>1. PICK n \in Names : TRUE
    BY <1>2, <1>6
  <2> DEFINE key == [d \in Dbs |-> IF d \in Private(x) THEN Fold[name[d]] ELSE Fold[n]]
  <2>2. key \in [Dbs -> {Fold[m] : m \in Names}]
    BY <1>2, <2>1
  <2>3. \A d \in Private(x) : <<key[d], d>> = Entry(d)
    BY <1>1 DEF Entry
  <2>4. /\ \A d, e \in Private(x) : d # e => key[d] # key[e]
        /\ \A d \in Private(x) : \A e \in databases : e[1] # key[d]
    BY <1>1
  <2>5. databases' = databases \cup {<<key[d], d>> : d \in Private(x)}
    BY <1>1, <2>3
  <2> HIDE DEF key
  <2>6. Contract!Publish(x, key)
    BY <1>1, <1>3, <1>4, <2>4, <2>5 DEF Contract!Publish, Private
  <2>7. QED
    BY <1>1, <1>3, <2>2, <2>6 DEF Contract!Next, Contract!Promised
<1>7. QED
  BY <1>5, <1>6

\* An abort withdraws the transaction's databases.
LEMMA ReleaseWithdraws ==
  ASSUME DatabaseInv, NEW th \in Threads, ReleaseManagedResources(th)
  PROVE  Contract!Withdraw(curTxn[th])
<1>0. PICK x : x = curTxn[th]
  OBVIOUS
<1>1. /\ x \in Txns /\ UNCHANGED <<name, databases>>
      /\ \A d \in Dbs : dbi'[d] = IF d \in Private(x) THEN 0 ELSE dbi[d]
      /\ \A y \in Txns : Private(y)' = IF y = x THEN {} ELSE Private(y)
  BY <1>0, ReleaseStep
<1>2. {d \in Dbs : Alive(d)}' = {d \in Dbs : Alive(d)} \ Private(x)
  BY <1>1 DEF Alive
<1>3. [y \in Txns |-> ToSet(newDatabases[y])]' =
        [[y \in Txns |-> ToSet(newDatabases[y])] EXCEPT ![x] = {}]
  BY <1>1 DEF Private
<1>4. QED
  BY <1>0, <1>1, <1>2, <1>3 DEF Contract!Withdraw, Private

\* A database is opened once, and is private.
LEMMA OpenNativeOpens ==
  ASSUME DatabaseInv, NEW th \in Threads, NEW d \in Dbs, OpenNative(th, d)
  PROVE  Contract!Open(curTxn[th], d)
<1>0. PICK x : x = curTxn[th]
  OBVIOUS
<1>1. /\ x \in Txns /\ UNCHANGED databases /\ name[d] = NoName /\ name'[d] # NoName /\ dbi'[d] # 0
      /\ \A e \in Dbs \ {d} : dbi'[e] = dbi[e] /\ name'[e] = name[e]
      /\ \A y \in Txns : Private(y)' = IF y = x THEN Private(y) \cup {d} ELSE Private(y)
  BY <1>0, DatabaseAssumption, OpenNativeStep
<1>2. /\ {e \in Dbs : Alive(e)}' = {e \in Dbs : Alive(e)} \cup {d}
      /\ {e \in Dbs : name[e] # NoName}' = {e \in Dbs : name[e] # NoName} \cup {d}
  BY <1>1 DEF Alive
<1>3. [y \in Txns |-> ToSet(newDatabases[y])]' =
        [[y \in Txns |-> ToSet(newDatabases[y])] EXCEPT ![x] = @ \cup {d}]
  BY <1>1 DEF Private
<1>4. QED
  BY <1>0, <1>1, <1>2, <1>3 DEF Contract!Open

\* Dispose and Drop take a database out of service before its callback does anything.
LEMMA HandleCloses ==
  ASSUME DatabaseInv, NEW th \in Threads
  PROVE  /\ \A d \in Dbs : DisposeDatabase(th, d) => Contract!Close(d)
         /\ ClearHandle(th) => Contract!Promised
<1>1. ASSUME NEW d \in Dbs, dbi' = [dbi EXCEPT ![d] = 0],
             UNCHANGED <<name, databases, newDatabases>>
      PROVE  Contract!Close(d)
  <2>1. {e \in Dbs : Alive(e)}' = {e \in Dbs : Alive(e)} \ {d}
    BY <1>1 DEF DatabaseInv, TypeOK, Alive
  <2>2. QED
    BY <1>1, <2>1 DEF Contract!Close
<1>2. ASSUME NEW d \in Dbs, DisposeDatabase(th, d) PROVE Contract!Close(d)
  <2>1. dbi' = [dbi EXCEPT ![d] = 0] /\ UNCHANGED <<name, databases, newDatabases>>
    BY <1>2 DEF DisposeDatabase, txns
  <2>2. QED
    BY <1>1, <2>1
<1>3. ASSUME ClearHandle(th) PROVE Contract!Promised
  <2>1. PICK d \in Dbs : d = curDb[th]
    BY <1>3 DEF DatabaseInv, TypeOK, Focus, Knows, Closers, ClearHandle
  <2>2. dbi' = [dbi EXCEPT ![d] = 0] /\ UNCHANGED <<name, databases, newDatabases>>
    BY <1>3, <2>1 DEF ClearHandle, txns
  <2>3. Contract!Close(d)
    BY <1>1, <2>2
  <2>4. QED
    BY <2>3 DEF Contract!Promised
<1>4. QED
  BY <1>2, <1>3

\* The callback of a private database takes it out of its transaction's list: it is in no other
\* place.
LEMMA PrivateForgotten ==
  ASSUME DatabaseInv, NEW th \in Threads, NewDatabaseDisposed(th)
  PROVE  curDb[th] \in Dbs /\ Contract!Forget(curDb[th])
<1>0. PICK d : d = curDb[th]
  OBVIOUS
<1>1. /\ d \in Dbs /\ dbi[d] = 0 /\ creator[d] \in Txns /\ disposed[d] = "new"
      /\ UNCHANGED <<name, dbi, databases>>
      /\ \A y \in Txns : Private(y)' = IF y = creator[d] THEN Private(y) \ {d} ELSE Private(y)
  BY <1>0, NewDatabaseDisposedStep
<1>2. \A y \in Txns : Private(y)' = Private(y) \ {d}
  BY <1>1 DEF DatabaseInv, Lists
<1>3. [y \in Txns |-> ToSet(newDatabases[y])]' =
        [y \in Txns |-> [z \in Txns |-> ToSet(newDatabases[z])][y] \ {d}]
  BY <1>2 DEF Private
<1>4. {e \in Dbs : Alive(e)}' = {e \in Dbs : Alive(e)} \ {d}
  BY <1>1 DEF Alive
<1>5. databases' = {e \in databases : e[2] # d}
  BY <1>1 DEF DatabaseInv, Registered
<1>6. QED
  BY <1>0, <1>1, <1>3, <1>4, <1>5 DEF Contract!Forget

\* Where the callback of a published database finds the entry it removes by name.
LEMMA OwnEntry ==
  ASSUME DatabaseInv, "raced" \notin lapses, NEW th \in Threads, DatabaseDisposed(th)
  PROVE  /\ curDb[th] \in Dbs /\ dbi[curDb[th]] = 0 /\ disposed[curDb[th]] = "committed"
         /\ \A e \in databases : e[1] = Fold[name[curDb[th]]] <=> e[2] = curDb[th]
<1>0. PICK d : d = curDb[th]
  OBVIOUS
<1>1. pc[th] = "notify" /\ disposed[d] = "committed"
  BY <1>0 DEF DatabaseDisposed
<1>2. d \in Dbs /\ dbi[d] = 0
  BY <1>0, <1>1 DEF DatabaseInv, Focus, Knows, Closers, TypeOK
<1>3. Closing(d)
  BY <1>0 DEF Closing
<1>4. Entry(d) \in databases
  BY <1>1, <1>2, <1>3 DEF DatabaseInv, Registered
<1>5. ASSUME NEW e \in databases PROVE e[1] = Fold[name[d]] <=> e[2] = d
  <2>1. e = Entry(e[2]) /\ (e[1] = Entry(d)[1] => e = Entry(d))
    BY <1>4, <1>5 DEF DatabaseInv, Registered
  <2>2. QED
    BY <2>1 DEF Entry
<1>6. QED
  BY <1>0, <1>1, <1>2, <1>5

\* The callback of a published database takes it out of the dictionary: it is in no other
\* place.
LEMMA PublicForgotten ==
  ASSUME DatabaseInv, NEW th \in Threads, DatabaseDisposed(th),
         lapses' \cap {"clash", "raced"} = {}
  PROVE  curDb[th] \in Dbs /\ Contract!Forget(curDb[th])
<1>0. PICK d : d = curDb[th]
  OBVIOUS
<1>1. /\ databases' = {e \in databases : e[1] # Fold[name[d]]}
      /\ UNCHANGED <<name, dbi, newDatabases, lapses>>
  BY <1>0 DEF DatabaseDisposed, objects, txns
<1>2. /\ d \in Dbs /\ dbi[d] = 0 /\ disposed[d] = "committed"
      /\ \A e \in databases : e[1] = Fold[name[d]] <=> e[2] = d
  BY <1>0, <1>1, OwnEntry
<1>3. databases' = {e \in databases : e[2] # d}
  BY <1>1, <1>2
<1>4. \A y \in Txns : d \notin Private(y)
  <2>1. ASSUME NEW y \in Txns, d \in Private(y) PROVE FALSE
    <3>1. creator[d] = y /\ (txn[y] = "committed" => Publishing(y))
      BY <1>1, <1>2, <2>1 DEF DatabaseInv, Lists
    <3>2. txn[y] = "committed"
      BY <1>2, <3>1 DEF DatabaseInv, Objects
    <3>3. QED
      BY <1>2, <2>1, <3>1, <3>2 DEF DatabaseInv, Lists
  <2>2. QED
    BY <2>1
<1>5. [y \in Txns |-> ToSet(newDatabases[y])]' =
        [y \in Txns |-> [z \in Txns |-> ToSet(newDatabases[z])][y] \ {d}]
  BY <1>1, <1>4 DEF Private
<1>6. {e \in Dbs : Alive(e)}' = {e \in Dbs : Alive(e)} \ {d}
  BY <1>1, <1>2 DEF Alive
<1>7. QED
  BY <1>0, <1>1, <1>2, <1>3, <1>5, <1>6 DEF Contract!Forget

\* The environment's Dispose clears the handles of the dictionary's databases.
LEMMA DisposeShutsDown ==
  ASSUME DatabaseInv, NEW th \in Threads, DisposeEnvironment(th)
  PROVE  Contract!Shutdown
<1>1. {d \in Dbs : Alive(d)}' = {d \in Dbs : Alive(d)} \ {e[2] : e \in databases}
  BY DEF DisposeEnvironment, DatabaseInv, TypeOK, Alive
<1>2. databases' = {} /\ UNCHANGED <<name, newDatabases>>
  BY DEF DisposeEnvironment
<1>3. QED
  BY <1>1, <1>2 DEF Contract!Shutdown

\* Every step is a step of DatabaseContract or changes nothing of it.
LEMMA ContractNext == DatabaseInv /\ [Next]_vars => [Contract!Next]_(Contract!vars)
<1> SUFFICES ASSUME DatabaseInv, [Next]_vars
             PROVE  Contract!Next \/ UNCHANGED Contract!vars
  OBVIOUS
<1>a. CASE lapses' \cap {"clash", "raced"} # {}
  BY <1>a DEF Contract!Next
<1>b. CASE lapses' \cap {"clash", "raced"} = {}
  <2>1. ASSUME NEW th \in Threads, NEW x \in Txns,
               \/ BeginDatabaseTransaction(th, x) \/ BeginWriteTransaction(th, x)
               \/ Commit(th, x) \/ CommitFails(th, x) \/ Dispose(th, x)
               \/ \E n \in Names : OpenDatabase(th, x, n)
               \/ \E d \in Dbs : Drop(th, x, d)
        PROVE  UNCHANGED Contract!vars
    <3>1. /\ UNCHANGED <<databases, newDatabases, name, dbi>>
          /\ lapses' = lapses \/ lapses' = lapses \cup {"failed"}
      BY <2>1 DEF BeginDatabaseTransaction, BeginWriteTransaction, Begin, Commit, CommitFails,
         Dispose, EndNative, OpenDatabase, Drop, txns, objects
    <3>2. QED
      BY <3>1, Quiet
  <2>2. ASSUME NEW th \in Threads,
               \/ LockDbTxn(th) \/ BeginNative(th) \/ DatabaseTransactionClosed(th) \/ OpenFails(th)
               \/ CloseDbi(th) \/ Lookup(th) \/ LookupEnds(th)
        PROVE  UNCHANGED Contract!vars
    <3>1. UNCHANGED <<databases, newDatabases, name, dbi, lapses>>
      BY <2>2 DEF LockDbTxn, BeginNative, DatabaseTransactionClosed, OpenFails, CloseDbi, Lookup,
         LookupEnds, txns, objects
    <3>2. QED
      BY <3>1, Quiet
  <2>3. ASSUME NEW th \in Threads, Committed(th) PROVE Contract!Next \/ UNCHANGED Contract!vars
    BY <1>b, <2>3, CommitPublishes
  <2>4. ASSUME NEW th \in Threads, Contract!Promised,
               \/ ReleaseManagedResources(th)
               \/ \E d \in Dbs : OpenNative(th, d) \/ DisposeDatabase(th, d)
               \/ ClearHandle(th) \/ NewDatabaseDisposed(th) \/ DatabaseDisposed(th)
               \/ DisposeEnvironment(th)
        PROVE  Contract!Next
    <3>1. lapses \subseteq lapses'
      BY <2>4 DEF ReleaseManagedResources, OpenNative, DisposeDatabase, ClearHandle,
         NewDatabaseDisposed, DatabaseDisposed, DisposeEnvironment
    <3>2. QED
      BY <1>b, <2>4, <3>1 DEF Contract!Next
  <2>5. ASSUME NEW th \in Threads, ReleaseManagedResources(th) PROVE Contract!Promised
    <3>1. curTxn[th] \in Txns
      BY <2>5, ReleaseLists
    <3>2. QED
      BY <2>5, <3>1, ReleaseWithdraws DEF Contract!Promised
  <2>6. ASSUME NEW th \in Threads, NEW d \in Dbs, OpenNative(th, d) PROVE Contract!Promised
    <3>1. curTxn[th] \in Txns
      BY <2>6, OpenNativeLists
    <3>2. QED
      BY <2>6, <3>1, OpenNativeOpens DEF Contract!Promised
  <2>7. ASSUME NEW th \in Threads, NEW d \in Dbs, DisposeDatabase(th, d) PROVE Contract!Promised
    <3>1. Contract!Close(d)
      BY <2>7, HandleCloses
    <3>2. QED
      BY <3>1 DEF Contract!Promised
  <2>8. ASSUME NEW th \in Threads, ClearHandle(th) PROVE Contract!Promised
    BY <2>8, HandleCloses DEF Contract!Promised
  <2>9. ASSUME NEW th \in Threads, NewDatabaseDisposed(th) \/ DatabaseDisposed(th)
        PROVE  Contract!Promised
    BY <1>b, <2>9, PrivateForgotten, PublicForgotten DEF Contract!Promised
  <2>10. ASSUME NEW th \in Threads, DisposeEnvironment(th) PROVE Contract!Promised
    BY <2>10, DisposeShutsDown DEF Contract!Promised
  <2>11. CASE UNCHANGED vars
    BY <2>11, Quiet DEF vars, objects, txns
  <2>12. QED
    BY <2>1, <2>2, <2>3, <2>4, <2>5, <2>6, <2>7, <2>8, <2>9, <2>10, <2>11
       DEF Next, Transaction, Database
<1>c. QED
  BY <1>a, <1>b

\* The environment keeps the promise of DatabaseContract for any number of threads: every commit
\* publishes all of a transaction's databases under free names or breaks with a clash, an abort
\* none, and what is private or public stays so until it is closed (Committed,
\* ReleaseManagedResources, NewDatabaseDisposed, DatabaseDisposed, LmdbEnvironment.Dispose).
THEOREM EnvironmentKeepsContract == Spec => KeepsContract
<1>1. Init => Contract!Init
  BY DEF Init, Contract!Init, Alive, ToSet
<1>2. QED
  BY <1>1, ContractNext, DatabaseInvariant, PTL DEF Spec, KeepsContract, Contract!Spec

\* What leaves the dictionary of an open environment has been disposed: DatabaseDisposed removes
\* by name, and the entry of that name is always the disposed database's own.
THEOREM OnlyDisposedRemoved == Spec => RemovedOnlyDisposed
<1>1. DatabaseInv /\ [Next]_vars =>
        [(lapses = {} /\ envOpen') => \A e \in databases \ databases' : ~Alive(e[2])]_vars
  <2> SUFFICES ASSUME DatabaseInv, Next, lapses = {}, envOpen', NEW e \in databases \ databases'
               PROVE  ~Alive(e[2])
    OBVIOUS
  <2>1. ASSUME NEW th \in Threads, NEW x \in Txns,
               \/ BeginDatabaseTransaction(th, x) \/ BeginWriteTransaction(th, x)
               \/ Commit(th, x) \/ CommitFails(th, x) \/ Dispose(th, x)
               \/ \E n \in Names : OpenDatabase(th, x, n)
               \/ \E d \in Dbs : Drop(th, x, d)
        PROVE  FALSE
    BY <2>1 DEF BeginDatabaseTransaction, BeginWriteTransaction, Begin, Commit, CommitFails,
       Dispose, EndNative, OpenDatabase, Drop
  <2>2. ASSUME NEW th \in Threads,
               \/ LockDbTxn(th) \/ BeginNative(th) \/ DatabaseTransactionClosed(th) \/ OpenFails(th)
               \/ ReleaseManagedResources(th) \/ CloseDbi(th) \/ ClearHandle(th)
               \/ \E d \in Dbs : OpenNative(th, d) \/ DisposeDatabase(th, d)
               \/ NewDatabaseDisposed(th) \/ Lookup(th) \/ LookupEnds(th) \/ DisposeEnvironment(th)
        PROVE  FALSE
    BY <2>2 DEF LockDbTxn, BeginNative, DatabaseTransactionClosed, OpenFails,
       ReleaseManagedResources, CloseDbi, ClearHandle, OpenNative, DisposeDatabase,
       NewDatabaseDisposed, Lookup, LookupEnds, DisposeEnvironment
  <2>3. ASSUME NEW th \in Threads, Committed(th) PROVE FALSE
    BY <2>3, CommittedLists
  <2>4. ASSUME NEW th \in Threads, DatabaseDisposed(th) PROVE ~Alive(e[2])
    <3>1. e[1] = Fold[name[curDb[th]]]
      BY <2>4 DEF DatabaseDisposed
    <3>2. QED
      BY <2>4, <3>1, OwnEntry DEF Alive
  <2>5. QED
    BY <2>1, <2>2, <2>3, <2>4 DEF Next, Transaction, Database
<1>2. QED
  BY <1>1, DatabaseInvariant, PTL DEF Spec, RemovedOnlyDisposed
=============================================================================
