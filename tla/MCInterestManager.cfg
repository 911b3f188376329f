SPECIFICATION FairSpec
CONSTANTS
  Qids = {q1, q2}
  Sessions = {s1, s2}
  Overlap = FALSE
  Faults = {"upsert", "delete", "ack", "trace", "clear"}
  MaxMessages = 2
INVARIANTS TypeOK NothingLost PersistedBacked PublishedWhenQuiet
PROPERTY Converges
