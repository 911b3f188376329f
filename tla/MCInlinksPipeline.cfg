SPECIFICATION FairSpec
CONSTANTS
  Targets = {t1}
  Items = {i1, i2}
  Limit = 1
  Levels <- ContentLevels
  MaxChanges = 2
  Absent = Absent
INVARIANTS TypeOK CutHoldsLimit PartNeverDecides
PROPERTIES SettledAgrees InterestReleased OnlyStopsLeaveUnknown
CHECK_DEADLOCK FALSE
