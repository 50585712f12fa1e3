SPECIFICATION Spec
CONSTANTS
  Programs = {p1}
  p1 = p1
  Attempts = {a1, a2}
  a2 = a2
  a1 = a1
  NoFile = none
  none = none
  MaxOutput = 1
INVARIANTS NothingLost
CHECK_DEADLOCK FALSE
