CONSTANTS
  f1 = f1  f2 = f2  f3 = f3  f4 = f4  f5 = f5
  lint = lint  style = style
  Files = {f1, f2, f3, f4, f5}
  Formatters = {style}
  Workers = {w1}
  Wants <- WithUnmatched
  Priority <- MCPriority
  Rank <- MCRank
  NoPositional = {style}
  Rewriters = {}
  Excluded = {}
  FatalUnmatched = {TRUE, FALSE}
  FailOnChange = FALSE
  UseCache = TRUE
  BatchSize = 2
  CacheBatch = 1
  Faults = {"format", "stat", "hash", "read", "deadline", "interrupt"}
SPECIFICATION FairSpec
INVARIANT HonestExit
PROPERTY RunReturns
