SPECIFICATION FairHistorySpec
CONSTANTS
  Clients = {c1, c2}
  Days = 3
  TicksPerSecond = 2
  LastTick = 3
  NoRow = NoRow
INVARIANT FinishedBacked
PROPERTY RequestsServedUnlessLost
CHECK_DEADLOCK FALSE
