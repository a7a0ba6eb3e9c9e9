CONSTANTS
  f1 = f1  f2 = f2  f3 = f3  f4 = f4  f5 = f5
  lint = lint  style = style
  Files = {f1, f2, f3}
  Formatters = {lint, style}
  Workers = {w1}
  Wants <- AllStyle
  Priority <- MCPriority
  Rank <- MCRank
  NoPositional = {style}
  Rewriters = {}
  Excluded = {}
  FatalUnmatched = {FALSE}
  FailOnChange = TRUE
  UseCache = TRUE
  BatchSize = 1
  CacheBatch = 1
  Faults = {"db"}
SPECIFICATION FairSpec
PROPERTY RunReturns
CHECK_DEADLOCK FALSE
