CONSTANTS
  Threads = {t1, t2, t3}
  Names = {tiff, mine}
  Builtins = {tiff}
  Sound = Sound
  Panicking = Panicking
  Reentrant = Reentrant
  MaxCalls = 3
  NoCall = NoCall
  NoThread = NoThread
SPECIFICATION FairSpec
INVARIANT TypeOK
PROPERTIES Linearizable EveryCallReturns
\* there are only MaxCalls calls
CHECK_DEADLOCK FALSE
