SPECIFICATION FairSpec
CONSTANTS
  Qids = {q1, q2}
  MaxChanges = 3
  MaxTime = 3
  MaxLag = 1
  Rewind = 2
  OverlapTime = 1
  PageSize = 2
  None = None
INVARIANTS TypeOK NoGap
PROPERTIES RecordsRevisions EveryChangeSeen
CHECK_DEADLOCK FALSE
