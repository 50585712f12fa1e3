SPECIFICATION MCSpec
CONSTANTS
  Clients = {c1}
  Peers = {p1}
  MaxCommits = 2
  MaxSwitches = 3
  MaxOwed = 2
INVARIANTS PictureInStep
PROPERTIES EditsFit LetGo
CHECK_DEADLOCK FALSE
