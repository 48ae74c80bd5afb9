CONSTANTS
  HeaderSize = 2
  CountField = 1
  EntrySize = 2
  ValueAt = 1
  NextField = 1
  SlotMax = 30
  p1 = p1
  p2 = p2
  Payloads = {p1, p2}
  EncLen <- MCEncLen
  Files <- EncStripFirst
  MaxFaults = 0
  Unknown = Unknown
  Garbled = Garbled
SPECIFICATION Spec
INVARIANT RoundTrip
\* a rejected plan ends the behavior
CHECK_DEADLOCK FALSE
