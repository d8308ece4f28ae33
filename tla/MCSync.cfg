SPECIFICATION FairSpec
CONSTANTS
  dm = dm
  group = group
  NoCursor = NoCursor
  Chats = {dm, group}
  TicksPerSecond = 3
  Window = 1
  Limit = 2
  MaxMessages = 4
  MaxDeleted = 2
  MaxClock = 5
INVARIANT TypeOK
 
PROPERTY RepeatsOnlyAtSeam
PROPERTY SyncEnds
CHECK_DEADLOCK FALSE
