CONSTANTS
  a = a  b = b  c = c
  lintable = lintable  raw = raw  good = good  other = other
  fixer = fixer  drift = drift  single = single
  None = None
  Files = {a, b, c}
  Contents = {lintable, raw, good, other}
  Linters = {fixer, drift, single}
  LintWants <- MCLintWants
  Repaired <- MCRepaired
  WholeTree = {drift}
  NoPositional = {single}
  FmtWants = {a, c}
  Formatted <- MCFormatted
  Partial <- MCPartial
  FromRoot <- SameRoot
  Repos <- MCRepos
  Commands <- MCCommands
  EditWhen = {"run", "walk", "format", "record"}
  MaxEdits = 1
  Faults = {"setup", "lint", "exec", "format", "signal", "git", "pipe"}
SPECIFICATION Spec
INVARIANTS TypeOK CommitIsFixes IndexIsFixes RefusedUntouched NothingStranded ConformantAfter StdinPrinted
