------------------------- MODULE MCCursorNavigation -------------------------
(* FixedMultiValueCursor, and with it CursorNavigation, for TLC: every database over three keys *)
(* with up to two, three and one value; ints of five bits, items of three bytes.                *)
EXTENDS FixedMultiValueCursor

MCRecords == ({1} \X (1..2)) \cup ({2} \X (1..3)) \cup {<<3, 1>>}
MCItemCounts == {-6, -1, 1, 2, 3, 5, 6, 11}

=============================================================================
