------------------------- MODULE MCCursorLifecycle -------------------------
(* CursorLifecycle for TLC: one write transaction and two read-only ones. *)
EXTENDS CursorLifecycle, TLC

CONSTANTS write, read1, read2

MCTxns == {write, read1, read2}
MCReadOnly == {read1, read2}

Symmetric == Permutations(Threads) \cup Permutations(Cursors) \cup Permutations(MCReadOnly)

=============================================================================
