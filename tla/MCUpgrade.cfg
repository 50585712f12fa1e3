SPECIFICATION Spec
CONSTANTS
  Programs = {p1, p2}
  p1 = p1
  p2 = p2
  Attempts = {a1}
  a1 = a1
  NoFile = none
  none = none
  MaxOutput = 2
INVARIANTS NothingLost NobodyLeftBehind ServesOn
CHECK_DEADLOCK FALSE
