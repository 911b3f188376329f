SPECIFICATION FairSpec
CONSTANTS
  Items = {a, b}
  Loaded = {a}
  MaxEdits = 1
  MaxChanges = 1
  MaxFaults = 1
INVARIANT TypeOK
PROPERTY ShownNeverRegresses
PROPERTY EventuallyCurrent
\* A page that was left and the streams to it come to rest.
CHECK_DEADLOCK FALSE
