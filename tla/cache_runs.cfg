CONSTANTS
  p1 = p1  p2 = p2
  None = None
  Procs = {p1, p2}
  Configs <- MCConfigs
  SigOf <- MCSigOf
  Sizes = {10, 20}
  Chain = 2
  MaxTime = 2
  MaxClears = 1
  MaxEvents = 3
  Flags <- MCFlags
SPECIFICATION Spec
INVARIANTS TypeOK SkipSound RunTwiceSkips OneAtWork ChangeSeen
SYMMETRY Interchangeable
\* Nobody has to run conformist, save or reconfigure ever again.
CHECK_DEADLOCK FALSE
