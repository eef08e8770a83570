---------------------------- MODULE CursorContract ----------------------------
(***************************************************************************)
(* What the Cursor and Transaction classes promise about native cursors    *)
(* (src/Lmdb): one caller takes a cursor out of service and closes it,     *)
(* once; a write transaction that ends takes its cursors with it and then  *)
(* makes their Cursor objects unusable; a read-only one leaves them usable *)
(* until they are closed. Nothing comes back. Exceptions need a call that  *)
(* meets the end of its transaction.                                       *)
(***************************************************************************)
CONSTANTS Cursors, Txns, ReadOnly, NoTxn

VARIABLES
  phase,   \* what has become of a cursor
  home,    \* the transaction a cursor reads
  ended,   \* the transactions that have ended
  met,     \* those whose end met another call on them or their cursors
  broken   \* LMDB was given what it had freed

vars == <<phase, home, ended, met, broken>>

Init ==
  /\ phase = [c \in Cursors |-> "none"]
  /\ home = [c \in Cursors |-> NoTxn]
  /\ ended = {} /\ met = {} /\ broken = FALSE

Move(c, from, to) == phase[c] = from /\ phase' = [phase EXCEPT ![c] = to]

\* A transaction that has not ended opens a cursor.
Open(c, x) ==
  /\ x \notin ended
  /\ Move(c, "none", "open")
  /\ home' = [home EXCEPT ![c] = x]
  /\ UNCHANGED ended

\* An open cursor moves from one read-only transaction to another.
Rebind(c, x) ==
  /\ phase[c] = "open" /\ home[c] \in ReadOnly /\ x \in ReadOnly \ ended
  /\ home' = [home EXCEPT ![c] = x]
  /\ UNCHANGED <<phase, ended>>

\* One caller takes a cursor out of service, which a Dispose that comes too late does in vain.
Claim(c) ==
  /\ Move(c, "open", "claimed") \/ (Move(c, "dangling", "closed") /\ home[c] \in met')
  /\ UNCHANGED <<home, ended>>

\* It closes the native cursor.
Close(c) == Move(c, "claimed", "closed") /\ UNCHANGED <<home, ended>>

\* A transaction ends. A write transaction frees its cursors, those being closed included.
Finish(x) ==
  /\ x \notin ended /\ ended' = ended \cup {x}
  /\ \/ x \in ReadOnly /\ UNCHANGED phase
     \/ /\ x \notin ReadOnly
        /\ \A c \in Cursors : home[c] = x /\ phase[c] = "claimed" => x \in met
        /\ phase' = [c \in Cursors |-> CASE home[c] = x /\ phase[c] = "open"    -> "dangling"
                                         [] home[c] = x /\ phase[c] = "claimed" -> "closed"
                                         [] OTHER                               -> phase[c]]
  /\ UNCHANGED home

\* It makes their Cursor objects unusable: all of them, unless its end met another call.
Clear(x, missed) ==
  /\ x \in ended /\ (missed # {} => x \in met)
  /\ phase' = [c \in Cursors |-> IF phase[c] = "dangling" /\ home[c] = x /\ c \notin missed
                                 THEN "closed" ELSE phase[c]]
  /\ UNCHANGED <<home, ended>>

Promised ==
  \/ \E c \in Cursors : Claim(c) \/ Close(c)
  \/ \E c \in Cursors, x \in Txns : Open(c, x) \/ Rebind(c, x)
  \/ \E x \in Txns : Finish(x)
  \/ \E x \in Txns, missed \in SUBSET Cursors : Clear(x, missed)
  \/ UNCHANGED <<phase, home, ended>>

\* Memory that was freed is used, which takes a call that met an end.
Break == broken' /\ met # {} /\ UNCHANGED <<phase, home, ended, met>>

Next == (Promised /\ met \subseteq met' /\ UNCHANGED broken) \/ Break

Spec == Init /\ [][Next]_vars
=============================================================================
