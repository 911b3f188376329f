SPECIFICATION SupportSpec
CONSTANTS
  UsedItems = {i1, i2}
  NoItem = NoItem
  LastRow = 3
  BlockSize = 2
  MaxBreakdowns = 1
  LastPart = 2
  LastVersion = 3
  MaxAttempts = 2
  MaxFaults = 2
  NoSnapshot = NoSnapshot
  History <- AnAbsentAndTwoNewItems
  FetchLimit = 1
  NoCreation = NoCreation
  MaxSetbacks = 1
  LastEvent = 4
  FlushBatch = 3
  ChunkRows = 2
  NoFlush = NoFlush
  MaxSignals = 2
  MaxMishaps = 1
  Manifest <- TwoDaemonsAndAJob
INVARIANTS SupportTypeOK TablesSound LevelsSound NoOrphans
PROPERTY TablesFollow
CHECK_DEADLOCK FALSE
