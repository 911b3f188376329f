SPECIFICATION FairSpec
CONSTANTS
  q1 = q1
  Qids = {q1, q2}
  Workers = {w1}
  QueueMaxSize = 1
  BatchSize = 2
  ChunkSize = 1
  MaxRevid <- OneEdited
  MayCrash = FALSE
INVARIANT NoOverflow
PROPERTIES ClaimsReleased StaleRefreshed
