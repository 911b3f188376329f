SPECIFICATION Spec
CONSTANTS
  Qids = {q1, q2}
  MaxChanges = 3
  MaxTime = 4
  MaxLag = 1
  Rewind = 3
  OverlapTime = 1
  PageSize = 2
  None = None
SYMMETRY Interchangeable
INVARIANT CreationsSeeded
CHECK_DEADLOCK FALSE
