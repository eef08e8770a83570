------------------------- MODULE TransactionContract -------------------------
(***************************************************************************)
(* What the Transaction class promises whatever the threads do: a          *)
(* transaction that was handed out is taken out of service by exactly one  *)
(* caller, ends exactly once, as committed or as aborted, and is reported  *)
(* exactly once to the environment that created it. Commits take effect    *)
(* one after the other: each moves the last committed id by one, or leaves *)
(* it alone when it has nothing to write.                                  *)
(***************************************************************************)
EXTENDS Integers

CONSTANT Txns

VARIABLES phase, lastId

vars == <<phase, lastId>>

Phases == {"none", "open", "claimed", "committed", "aborted", "closed"}

TypeOK == phase \in [Txns -> Phases] /\ lastId \in Nat

Init == phase = [t \in Txns |-> "none"] /\ lastId = 0

Move(t, from, to) == phase[t] = from /\ phase' = [phase EXCEPT ![t] = to]

Open(t)  == Move(t, "none", "open") /\ UNCHANGED lastId
Claim(t) == Move(t, "open", "claimed") /\ UNCHANGED lastId
Take(t)  == Move(t, "claimed", "committed") /\ lastId' \in {lastId, lastId + 1}
Drop(t)  == Move(t, "claimed", "aborted") /\ UNCHANGED lastId
Report(t) ==
  /\ phase[t] \in {"committed", "aborted"}
  /\ phase' = [phase EXCEPT ![t] = "closed"]
  /\ UNCHANGED lastId

Next == \E t \in Txns : Open(t) \/ Claim(t) \/ Take(t) \/ Drop(t) \/ Report(t)

Spec == Init /\ [][Next]_vars
=============================================================================
