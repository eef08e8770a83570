------------------------- MODULE MCNestedTransactions -------------------------
(***************************************************************************)
(* NestedTransactions for TLC.                                             *)
(***************************************************************************)
EXTENDS NestedTransactions, TLC

MCSlots == 1..2

Symmetric == Permutations(Txns) \cup Permutations(Dbs) \cup Permutations(Names)
=============================================================================
