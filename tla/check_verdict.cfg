CONSTANTS
  src = src  out = out  doc = doc  odd = odd
  gofmt = gofmt  prettier = prettier  lint = lint  drift = drift
  None = None
  Files = {src, out, doc, odd}
  Formatters = {gofmt, prettier}
  Linters = {lint, drift}
  Excluded = {}
  Native = {gofmt}
  WholeTree = {drift}
  Rank <- MCRank
  Objects <- MCObjects
  BatchSize = 2
  UseCache = TRUE
  MaxVersion = 3
  Stamp <- MCStamp
  Setups <- VerdictSetups
SPECIFICATION Spec
INVARIANTS TypeOK ZeroMeansClean OneMeansFinding CleanIsCached EntrySound
