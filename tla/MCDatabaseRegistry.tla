------------------------- MODULE MCDatabaseRegistry -------------------------
(***************************************************************************)
(* DatabaseRegistry for TLC: three names, two of which differ in case      *)
(* only, and two native handles.                                           *)
(***************************************************************************)
EXTENDS DatabaseRegistry, TLC

CONSTANTS lower, upper, other

\* "db", "DB" and "other" with OrdinalIgnoreCase.
MCNames == {lower, upper, other}
MCFold == lower :> lower @@ upper :> lower @@ other :> other
MCSlots == 1..2

Symmetric == Permutations(Threads) \cup Permutations(Txns) \cup Permutations(Dbs)

=============================================================================
