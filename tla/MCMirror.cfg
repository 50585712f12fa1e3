SPECIFICATION FairSpec
CONSTANTS
  Panes = {p1}
  Pages = 2
  Links = 2
  Unsent = 2
  Room = 1
INVARIANT OwnerFollows
PROPERTIES ShowsItsPages NewestIsShown
