CONSTANTS
  HeaderSize = 2
  CountField = 1
  EntrySize = 2
  ValueAt = 1
  NextField = 1
  SlotMax = 30
  p1 = p1
  p2 = p2
  Payloads = {p1, p2}
  EncLen <- MCEncLen
  Files <- SafeFiles
  MaxFaults = 2
  Unknown = Unknown
  Garbled = Garbled
SPECIFICATION Spec
INVARIANTS TypeOK RoundTrip ChainIntact PackedTiles InOrderReachable
PROPERTY ImplementsTileStore
\* a rejected plan ends the behavior
CHECK_DEADLOCK FALSE
