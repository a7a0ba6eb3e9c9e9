CONSTANTS
  a = a  b = b  c = c
  lintable = lintable  raw = raw  good = good  other = other
  fixer = fixer  drift = drift  single = single
  None = None
  Files = {a, b, c}
  Contents = {lintable, raw, good, other}
  Linters = {}
  LintWants <- MCLintWants
  Repaired <- MCRepaired
  WholeTree = {}
  NoPositional = {}
  FmtWants = {a, c}
  Formatted <- MCFormatted
  Partial <- MCPartial
  FromRoot <- SubRoot
  Repos <- MCRepos
  Commands <- MCCommands
  EditWhen = {}
  MaxEdits = 0
  Faults = {}
SPECIFICATION Spec
INVARIANT OnlyStagedWritten
