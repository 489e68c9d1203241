SPECIFICATION FairSpec
CONSTANTS
  MaxN = 24
CHECK_DEADLOCK FALSE
INVARIANTS StaysInside Evenly
PROPERTY Terminates
