--------------------------- MODULE IterationContract ---------------------------
(***************************************************************************)
(* What a foreach over a cursor promises (src/Lmdb): it goes through a     *)
(* list made at its start, of which its body may strike out records by     *)
(* deleting them. The loops in its body, which move the same cursor, make  *)
(* no difference to it. Other moves and writes are for outside of loops.   *)
(***************************************************************************)
CONSTANTS
  Records, NoRecord,
  Order  \* of each iterator: the pairs of records that it yields in this order

VARIABLES
  stored,  \* the records in the database
  iter,    \* the iterator of the foreach that runs, or "none"
  todo,    \* the records on the list it has not come to
  current  \* Current, or NoRecord

vars == <<stored, iter, todo, current>>

Init == stored \subseteq Records /\ iter = "none" /\ todo = {} /\ current = NoRecord

\* The list is made.
Start(i) ==
  /\ iter = "none" /\ iter' = i
  /\ todo' \subseteq stored
  /\ UNCHANGED <<stored, current>>

\* MoveNext returns true: Current is the first record on the list.
Yield(r) ==
  /\ \A s \in todo \ {r} : <<r, s>> \in Order[iter]
  /\ todo' = todo \ {r}
  /\ current' = r
  /\ UNCHANGED <<stored, iter>>

\* MoveNext returns false.
End == iter # "none" /\ todo = {} /\ current' = NoRecord /\ UNCHANGED <<stored, iter, todo>>

\* The foreach is left.
Leave == iter' = "none" /\ todo' = {} /\ current' = NoRecord /\ UNCHANGED stored

\* The body deletes.
Remove ==
  /\ current # NoRecord
  /\ stored' \subseteq stored
  /\ todo' = todo \cap stored'
  /\ UNCHANGED <<iter, current>>

\* The database changes while no foreach runs.
Write == iter = "none" /\ stored' \subseteq Records /\ UNCHANGED <<iter, todo, current>>

Next ==
  \/ \E i \in DOMAIN Order : Start(i)
  \/ \E r \in todo : Yield(r)
  \/ End \/ Leave \/ Remove \/ Write

Spec == Init /\ [][Next]_vars
=============================================================================
