SPECIFICATION FixedSpec
CONSTANTS
  Records <- MCRecords
  NoRecord = NoRecord
  DataSize = 3
  Half = 16
  MaxItems = 2
  ItemCounts <- MCItemCounts
INVARIANT PagesFromPosition
