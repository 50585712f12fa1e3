SPECIFICATION Spec
CONSTANTS
  c = c
  Clients = {c}
  Sleepers = {}
  Numbers = {1, 2}
  Misses = 1
INVARIANT DetachIsFinal
