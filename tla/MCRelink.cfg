SPECIFICATION FairSpec
CONSTANTS
  c = c
  Clients = {c}
  Sleepers = {c}
  Numbers = {1, 2}
  Misses = 1
INVARIANT HangUpIsFinal
PROPERTIES GhostsGo ComesBack LeavesNobodyUntold
