SPECIFICATION FairSpec
CONSTANTS
  Qids = {q1, q2}
  None = None
  TicksPerSecond = 2
  Alone = q1
  MaxTime = 3
  MaxTimeAlone = 7
  MaxRevid = 2
INVARIANTS TypeOK TargetNoticedUnlessRaced ReadersAgree ChangeNoticed
PROPERTIES EventuallyFresh PolicyApplied
CHECK_DEADLOCK FALSE
