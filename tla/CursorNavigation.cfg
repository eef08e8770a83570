SPECIFICATION FixedSpec
CONSTANTS
  Records <- MCRecords
  NoRecord = NoRecord
  DataSize = 3
  Half = 16
  MaxItems = 2
  ItemCounts <- MCItemCounts
INVARIANTS
  TypeOK
  LoopVisitsAll
  ValuesLoopVisitsAll
  BodyStaysOnKey
  PagesLoopVisitsAll
  ReadsWithinBuffer
PROPERTIES
  KeepsContract
  RoundsProgress
