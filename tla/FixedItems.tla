----------------------------- MODULE FixedItems -----------------------------
(***************************************************************************)
(* The arithmetic of FixedMultiValueCursor.PutMultiple (src/Lmdb): whether *)
(* a buffer holds the items the caller wants to store is decided by a      *)
(* product of two C# ints, which wraps.                                    *)
(***************************************************************************)
EXTENDS Integers

CONSTANTS
  DataSize,  \* FixedMultiValueCursor.DataSize
  Half       \* a C# int has the values -Half .. Half - 1: 2^31

ASSUME FixedItemsAssumption == DataSize \in Nat \ {0} /\ Half \in Nat \ {0}

\* The value of an unchecked int expression.
ToInt(n) == ((n + Half) % (2 * Half)) - Half

\* A slip: items against bytes.
TooManyItems_Bytes(count, length) == count > length

\* DataSize * itemCount > data.Length
TooManyItems(count, length) == ToInt(DataSize * count) > length

\* A count whose items have a size that an int can hold.
SizeFits(count) == DataSize * count \in -Half .. Half - 1

=============================================================================
