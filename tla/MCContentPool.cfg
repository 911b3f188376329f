SPECIFICATION Spec
CONSTANTS
  q1 = q1
  Qids = {q1, q2}
  Workers = {w1, w2}
  QueueMaxSize = 2
  BatchSize = 1
  ChunkSize = 1
  MaxRevid <- BothEdited
  MayCrash = TRUE
SYMMETRY Interchangeable
INVARIANTS TypeOK ExclusiveClaims BatchesSized
PROPERTY FliesOnce
