SPECIFICATION Spec
CONSTANTS
  Keys = {lookup, mirror}
  Lookup = lookup
  lookup = lookup
  mirror = mirror
  Sizes = {2}
  Limits <- MCLimits
  MaxUnread = 3
  MaxWakes = 2
  Disturbances = 2
PROPERTIES NoBacklog NewestIsDrawn
CHECK_DEADLOCK FALSE
