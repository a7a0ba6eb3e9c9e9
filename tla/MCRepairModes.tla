---------------------------- MODULE MCRepairModes ----------------------------
(* Values for model checking RepairModes: three files, contents that need a *)
(* repair, a format, or nothing, and the command lines that differ.         *)
EXTENDS RepairModes

CONSTANTS a, b, c, lintable, raw, good, other, fixer, drift, single

MCFormatted == [x \in Contents |-> IF x = raw THEN good ELSE x]
MCPartial == [x \in Contents |-> IF x = raw THEN {raw, other} ELSE {x}]
MCRepaired == [l \in Linters |-> [x \in Contents |-> IF x = lintable /\ l # single THEN raw ELSE x]]
MCLintWants == [l \in Linters |-> IF l = drift THEN {b} ELSE IF l = single THEN {b, c} ELSE {a, b}]
SameRoot == [f \in Files |-> f]

\* The tree root is the directory sub: git reports sub/x for file b, which is taken
\* for sub/sub/x, the file a.
SubRoot == [f \in Files |-> IF f = b THEN a ELSE None]

Clean(x) == <<x, x, x>>

\* HEAD, index and working tree of each file: clean, staged, dirty, partially
\* staged, added, deleted in the index, untracked.
StatesOf == [f \in Files |->
  IF f = a THEN {Clean(raw), Clean(lintable), <<good, raw, raw>>, <<good, raw, other>>}
  ELSE IF f = b THEN {Clean(lintable), <<good, good, lintable>>, <<None, lintable, lintable>>,
                       <<good, None, None>>}
  ELSE {<<None, None, raw>>, <<None, None, None>>}]

MCRepos == {[head |-> [f \in Files |-> s[f][1]], index |-> [f \in Files |-> s[f][2]],
             work |-> [f \in Files |-> s[f][3]]] :
            s \in {t \in [Files -> UNION {StatesOf[f] : f \in Files}] :
                      \A f \in Files : t[f] \in StatesOf[f]}}

Line(m, std, fail, dirty, wt, ps) ==
  [mode |-> m, stdin |-> std, failOnChange |-> fail, allowDirty |-> dirty, worktree |-> wt,
   paths |-> ps]

MCCommands ==
  {Line("repair", FALSE, TRUE, FALSE, TRUE, {}), Line("repair", FALSE, FALSE, FALSE, TRUE, {a}),
   Line("repair", TRUE, FALSE, FALSE, TRUE, {a}), Line("repair", TRUE, FALSE, FALSE, TRUE, {b}),
   Line("repair", TRUE, FALSE, FALSE, TRUE, {}), Line("repair", FALSE, FALSE, TRUE, TRUE, {}),
   Line("commit", FALSE, FALSE, FALSE, TRUE, {}), Line("commit", FALSE, FALSE, TRUE, TRUE, {}),
   Line("commit", FALSE, FALSE, TRUE, TRUE, {b}), Line("commit", FALSE, TRUE, FALSE, TRUE, {}),
   Line("staged", FALSE, FALSE, FALSE, TRUE, {}), Line("staged", FALSE, FALSE, FALSE, FALSE, {}),
   Line("staged", FALSE, FALSE, FALSE, TRUE, {a})}
=============================================================================
