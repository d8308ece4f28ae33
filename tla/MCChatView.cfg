SPECIFICATION Spec
CONSTANTS
  f1 = f1
  f2 = f2
  s1 = s1
  NoCursor = NoCursor
  NoFetch = NoFetch
  Fetches = {f1, f2}
  Sends = {s1}
  Limit = 2
  CacheSize = 2
  MaxMessages = 2
  MaxSecond = 1
  MaxDeleted = 1
  MaxTimers = 1
INVARIANT TypeOK
INVARIANT NothingTwice
 
INVARIANT EntriesResolve
SYMMETRY ChatViewSymmetry
CHECK_DEADLOCK FALSE
