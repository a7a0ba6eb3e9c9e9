CONSTANTS
  None = None
  Empty = Empty
  Dirs <- MCDirs
  Links <- MCLinks
  Worlds <- MCWorlds
  Slow = {"git", "jujutsu"}
SPECIFICATION Spec
INVARIANTS TypeOK ConfigNearest RootCoversWork GitRootOrNone LayersInOrder WholeTreeFromBelow
CHECK_DEADLOCK FALSE
