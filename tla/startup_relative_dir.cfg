CONSTANTS
  None = None
  Empty = Empty
  Dirs <- NoNested
  Links <- MCLinks
  Worlds <- RelativeDir
  Slow = {}
SPECIFICATION Spec
INVARIANT AsIfStartedThere
CHECK_DEADLOCK FALSE
