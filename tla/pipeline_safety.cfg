CONSTANTS
  f1 = f1  f2 = f2  f3 = f3  f4 = f4  f5 = f5
  lint = lint  style = style
  Files = {f1, f2, f3}
  Formatters = {lint, style}
  Workers = {w1, w2}
  Wants <- BothAndStyle
  Priority <- MCPriority
  Rank <- MCRank
  NoPositional = {style}
  Rewriters = {lint, style}
  Excluded = {}
  FatalUnmatched = {FALSE}
  FailOnChange = TRUE
  UseCache = TRUE
  BatchSize = 2
  CacheBatch = 1
  Faults = {"format", "stat", "interrupt", "db"}
SPECIFICATION Spec
INVARIANTS TypeOK RecordedMeansFormatted OwnedOnce ProgressKept NoSendOnClosed NoChangeMissed
PROPERTIES PipelineOrder ImplementsContract
