SPECIFICATION FairSpec
CONSTANTS
  MaxLogId = 3
  Unusable <- Second
  BatchSize = 2
  InOrder = TRUE
  None = None
PROPERTIES EveryEntryRecorded CopiesTheLog
