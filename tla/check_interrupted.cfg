CONSTANTS
  src = src  out = out  doc = doc  odd = odd
  gofmt = gofmt  prettier = prettier  lint = lint  drift = drift
  None = None
  Files = {src, out, doc}
  Formatters = {gofmt, prettier}
  Linters = {lint, drift}
  Excluded = {}
  Native = {gofmt}
  WholeTree = {drift}
  Rank <- MCRank
  Objects <- MCObjects
  BatchSize = 1
  UseCache = TRUE
  MaxVersion = 2
  Stamp <- MCStamp
  Setups <- Interrupted
SPECIFICATION Spec
INVARIANT ZeroMeansClean
