CONSTANTS
  BufferSize = 2
  Lengths <- MCLengths
  MaxVersions = 3
  MaxRead = 4
  KeepsRange = TRUE
SPECIFICATION Spec
INVARIANTS TypeOK RightPlace OnlyIfShrank
PROPERTIES HeaderKept ImplementsByteCursor
