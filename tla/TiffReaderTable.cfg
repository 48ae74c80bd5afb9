CONSTANTS
  HeaderSize = 2
  CountField = 1
  EntrySize = 2
  ValueArea = 1
  NextField = 1
  WordMax = 16
  MaxTagCount = 4
  MaxDirectories = 3
  MinParallel = 3
  p = p
  q = q
  r = r
  s = s
  Payloads = {p, q, r, s}
  Bad = Bad
  Files <- MisfitFiles
  Asked <- MCAsked
  None = None
SPECIFICATION FairSpec
PROPERTY ParallelLikeReadTile
\* a refused file ends the behavior
CHECK_DEADLOCK FALSE
