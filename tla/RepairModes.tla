----------------------------- MODULE RepairModes -----------------------------
(***************************************************************************)
(* One invocation of conformist after another, each in one of the modes of *)
(* cmd/root.go: plain repair, --stdin, --commit and --staged                *)
(* (cmd/format/format.go, commit.go, staged.go, git/commit.go, format/      *)
(* repair.go, format/linter.go, walk/stdin.go), on the working tree, the    *)
(* index and HEAD of a git repository other people also work in.            *)
(*                                                                         *)
(* The formatting pass is taken file by file; RepairPipeline has its        *)
(* concurrency.  A content is what the tools can tell apart.  The formatters  *)
(* and the cache are the same in every invocation; FormatCache has what       *)
(* becomes of entries when they are not.                                     *)
(***************************************************************************)
EXTENDS Naturals, FiniteSets

CONSTANTS
  Files,       \* the paths of the repository
  Contents,    \* what a file may contain
  None,        \* no file, no exit code yet, or a path that is no file of the tree
  Linters,     \* the linters that declare a repair command
  LintWants,   \* LintWants[l]: the files linter l matches
  Repaired,    \* Repaired[l][c]: what its repair command makes of content c
  WholeTree,   \* linters whose command is not given the files (passes-files = false)
  NoPositional,\* linters that take one file at a time
  FmtWants,    \* the files some formatter matches
  Formatted,   \* Formatted[c]: what the sequence of formatters makes of content c
  Partial,     \* Partial[c]: what it may leave of c when one of them fails or is killed
  FromRoot,    \* FromRoot[f]: what f's path from the toplevel names from the tree root
  Repos,       \* what HEAD, index and working tree may be at first
  Commands,    \* the command lines in use
  EditWhen,    \* during which phases others may save or stage a file
  MaxEdits,    \* bound on how often they do
  Faults       \* what may go wrong: "setup", "lint", "exec", "format", "signal", "git",
               \* "pipe"

Maybe == Contents \cup {None}

Command == [mode : {"repair", "commit", "staged"}, stdin : BOOLEAN, failOnChange : BOOLEAN,
            allowDirty : BOOLEAN, worktree : BOOLEAN, paths : SUBSET (Files \cup {None})]

Repo == [head : [Files -> Maybe], index : [Files -> Maybe], work : [Files -> Maybe]]

ASSUME ModesAssumption ==
  /\ None \notin Contents /\ None \notin Files /\ None \notin Nat
  /\ LintWants \in [Linters -> SUBSET Files]
  /\ Repaired \in [Linters -> [Contents -> Contents]]
  /\ Formatted \in [Contents -> Contents] /\ Partial \in [Contents -> SUBSET Contents]
  /\ \A c \in Contents : Formatted[Formatted[c]] = Formatted[c]
  /\ WholeTree \subseteq Linters /\ NoPositional \subseteq Linters
  /\ FmtWants \subseteq Files
  /\ FromRoot \in [Files -> Files \cup {None}]
  /\ Repos \subseteq Repo /\ Commands \subseteq Command
  /\ MaxEdits \in Nat

VARIABLES
  head, index, work,  \* content of each path in HEAD, in the index and in the tree
  cached,   \* files whose cache entry fits their size and modification time
  at,       \* where the invocation is
  cmd,      \* its command line
  pre,      \* commit: the paths dirty before the run; staged: the staged set
  targets,  \* the paths Run is given; none: the whole tree
  lints,    \* linters whose repair is still to run
  todo,     \* files still to be formatted
  inHand,   \* files the formatters are done with, still to be recorded in the cache
  failed,   \* a formatter failed
  changed,  \* the files the formatting pass saw change
  record,   \* the paths about to be committed or restaged
  input, tmp, out,  \* --stdin: what came in, the temporary file, what was printed
  exit,     \* exit code of the last invocation
  base,     \* history: the repository when the invocation began
  touched,  \* history: the files others touched since
  scope,    \* history: what the formatting pass had to do
  cut,      \* history: the invocation was interrupted
  unnoticed,\* history: files written so that conformist could not tell
  edits     \* how often others did anything

repo == <<head, index, work, cached>>
pass == <<pre, targets, lints, todo, inHand, failed, changed, record>>
piped == <<input, tmp, out>>
history == <<base, touched, scope, cut, unnoticed, edits>>
vars == <<repo, at, cmd, pass, piped, exit, history>>

Phases == {"idle", "preflight", "run", "repair", "walk", "format", "status", "record",
           "stdin", "piped", "print"}

Begin == [mode |-> "repair", stdin |-> FALSE, failOnChange |-> FALSE, allowDirty |-> FALSE,
          worktree |-> TRUE, paths |-> {}]

Init ==
  /\ \E r \in Repos : head = r.head /\ index = r.index /\ work = r.work /\ base = r
  /\ at = "idle" /\ cmd = Begin /\ exit = None
  /\ pre = {} /\ targets = {} /\ lints = {} /\ todo = {} /\ inHand = {} /\ failed = FALSE
  /\ changed = {} /\ record = {} /\ cached = {} /\ unnoticed = {}
  /\ input = None /\ tmp = None /\ out = None
  /\ touched = {} /\ scope = {} /\ cut = FALSE /\ edits = 0

-----------------------------------------------------------------------------
(* git status --porcelain --untracked-files=no, one row per path.          *)

StagedIn(r, f) == r.head[f] # r.index[f]
UnstagedIn(r, f) == r.index[f] # None /\ r.index[f] # r.work[f]

Now == [head |-> head, index |-> index, work |-> work]

\* Rows with an index column; also a mutant of ChangedPaths.
StagedPaths(r) == {f \in Files : StagedIn(r, f)}

ChangedPaths(r) == {f \in Files : StagedIn(r, f) \/ UnstagedIn(r, f)}

\* Mutant: partially staged files are let through.
NonePartial(r) == {}

PartiallyStaged(r) == {f \in StagedPaths(r) : UnstagedIn(r, f)}

-----------------------------------------------------------------------------
(* Starting, refusing and ending an invocation.                            *)

\* Mutant: a return is missing.
FallThrough(code) == exit' = code /\ UNCHANGED at

End(code) == at' = "idle" /\ exit' = code

\* --allow-dirty (and --trailer) require --commit.
FlagsClash(c) == c.allowDirty /\ c.mode # "commit"

\* cmd/root.go runE: the mode is chosen from the flags.
Start ==
  /\ at = "idle"
  /\ \E c \in Commands :
       /\ cmd' = c /\ targets' = c.paths
       /\ IF FlagsClash(c) THEN End(1)
          ELSE at' = (IF c.mode = "repair" THEN "run" ELSE "preflight") /\ exit' = None
  /\ pre' = {} /\ lints' = {} /\ todo' = {} /\ inHand' = {} /\ failed' = FALSE
  /\ changed' = {} /\ record' = {}
  /\ input' = None /\ tmp' = None /\ out' = None
  /\ base' = Now /\ touched' = {} /\ scope' = {} /\ cut' = FALSE
  /\ UNCHANGED <<repo, unnoticed, edits>>

\* No working tree or index to work on, or --fail-on-change.
Unsuitable(c) == c.stdin \/ c.failOnChange \/ ~c.worktree

\* Positional paths have nothing to select under --staged.
StagedWithPaths ==
  /\ at = "preflight" /\ cmd.mode = "staged" /\ cmd.paths # {}
  /\ End(1) /\ UNCHANGED <<repo, cmd, pass, piped, history>>

Suited == at = "preflight" /\ ~(cmd.mode = "staged" /\ cmd.paths # {})

RefuseSetup ==
  /\ Suited /\ Unsuitable(cmd)
  /\ End(2) /\ UNCHANGED <<repo, cmd, pass, piped, history>>

\* commitPreflight: the policy and the paths that are dirty already.
CommitPreflight ==
  /\ Suited /\ cmd.mode = "commit" /\ ~Unsuitable(cmd)
  /\ LET dirty == ChangedPaths(Now) IN
     \/ /\ dirty # {} /\ ~cmd.allowDirty
        /\ End(2) /\ UNCHANGED pre
     \/ /\ dirty = {} \/ cmd.allowDirty
        /\ pre' = dirty /\ at' = "run" /\ UNCHANGED exit
  /\ UNCHANGED <<repo, cmd, targets, lints, todo, inHand, failed, changed, record, piped, history>>

\* RunStaged up to Run: a staged deletion is in the staged set and has nothing to
\* format; the paths git reports are joined to the tree root.
StagedPreflight ==
  /\ Suited /\ cmd.mode = "staged" /\ ~Unsuitable(cmd)
  /\ LET staged   == StagedPaths(Now)
         toFormat == {f \in staged : index[f] # None} IN
     \/ /\ PartiallyStaged(Now) # {}
        /\ End(2) /\ UNCHANGED <<pre, targets>>
     \/ /\ PartiallyStaged(Now) = {} /\ toFormat = {}
        /\ End(0) /\ UNCHANGED <<pre, targets>>
     \/ /\ PartiallyStaged(Now) = {} /\ toFormat # {}
        /\ pre' = staged /\ targets' = {FromRoot[f] : f \in toFormat}
        /\ at' = "run" /\ UNCHANGED exit
  /\ UNCHANGED <<repo, cmd, lints, todo, inHand, failed, changed, record, piped, history>>

\* git cannot be run or fails.
GitFails ==
  /\ at \in {"preflight", "status", "record"} /\ "git" \in Faults
  /\ End(1) /\ UNCHANGED <<repo, cmd, pass, piped, history>>

-----------------------------------------------------------------------------
(* Run: linter repairs, then the formatting pass.                          *)

\* NewCompositeReader refuses a path outside the tree root or one that is not there.
Unreadable == None \in targets \/ \E f \in targets \cap Files : work[f] = None

Walked == {f \in Files : work[f] # None /\ (targets = {} \/ f \in targets)}

ToFormat == Walked \cap FmtWants

\* The cache cannot be opened, or a tool, its command or a glob is not usable.
SetupFails == "setup" \in Faults

\* The linters that match a walked file; without linters there is no first walk.
BeginRepairs ==
  /\ at = "run" /\ ~cmd.stdin
  /\ \/ /\ (Linters # {} /\ Unreadable) \/ SetupFails
        /\ End(1) /\ UNCHANGED lints
     \/ /\ Linters = {} \/ ~Unreadable
        /\ lints' = {l \in Linters : LintWants[l] \cap Walked # {}}
        /\ at' = "repair" /\ UNCHANGED exit
  /\ UNCHANGED <<repo, cmd, pre, targets, todo, inHand, failed, changed, record, piped, history>>

\* What a run of linter l's repair command may write to.
Reach(l) == {f \in LintWants[l] : work[f] # None /\ (l \in WholeTree \/ f \in Walked)}

TooMany(l) ==
  l \notin WholeTree /\ l \in NoPositional /\ Cardinality(LintWants[l] \cap Walked) > 1

\* Files S are written to.  A cache entry goes on fitting a file only if the size stays
\* and the second does; what is written to a file in hand is recorded as formatted.
Written(S) ==
  \E same \in SUBSET {f \in S \cap cached : work'[f] # None} :
    /\ cached' = cached \ (S \ same)
    /\ unnoticed' = unnoticed \cup same \cup (S \cap inHand)

\* The linters run in the order of a Go map.  A non-zero exit is no failure, nor is a
\* signal that ends the last of them; the command may then have repaired only some of
\* the files.
RepairOne(l) ==
  /\ at = "repair" /\ l \in lints /\ ~TooMany(l) /\ (cut => lints = {l})
  /\ \E done \in SUBSET Reach(l) :
       /\ "lint" \in Faults \/ cut \/ done = Reach(l)
       /\ work' = [f \in Files |-> IF f \in done THEN Repaired[l][work[f]] ELSE work[f]]
  /\ Written({f \in Files : work'[f] # work[f]})
  /\ lints' = lints \ {l}
  /\ UNCHANGED <<head, index, at, cmd, pre, targets, todo, inHand, failed, changed, record,
                 piped, exit, base, touched, scope, cut, edits>>

\* The command cannot be run, is not given files one at a time although it wants
\* them so, or the walk fails or is cancelled: the run ends before the formatting pass.
RepairFails ==
  /\ at = "repair"
  /\ \/ "exec" \in Faults /\ lints # {}
     \/ cut /\ Linters # {}
     \/ \E l \in lints : TooMany(l)
  /\ End(1) /\ UNCHANGED <<repo, cmd, pass, piped, history>>

EndRepairs ==
  /\ at = "repair" /\ lints = {}
  /\ at' = "walk" /\ UNCHANGED <<repo, cmd, pass, piped, exit, history>>

\* The formatters are looked up only now, and a second reader goes over the same
\* paths.
BeginFormat ==
  /\ at = "walk"
  /\ \/ /\ Unreadable \/ SetupFails
        /\ End(1) /\ UNCHANGED <<todo, inHand, scope>>
     \/ /\ ~Unreadable
        /\ todo' = ToFormat /\ inHand' = {} /\ scope' = ToFormat
        /\ at' = "format" /\ UNCHANGED exit
  /\ UNCHANGED <<repo, cmd, pre, targets, lints, failed, changed, record, piped, base, touched,
                 cut, unnoticed, edits>>

\* submit: a file whose entry fits is not formatted.
Skip(f) ==
  /\ at = "format" /\ f \in todo \cap cached
  /\ todo' = todo \ {f}
  /\ UNCHANGED <<repo, at, cmd, pre, targets, lints, inHand, failed, changed, record, piped,
                 exit, history>>

\* The sequence of formatters is applied to a file, or fails on it, which may leave the
\* file half done.  A rewrite of the same size in the same second is not seen.
FormatOne(f) ==
  /\ at = "format" /\ f \in todo \ cached
  /\ todo' = todo \ {f}
  /\ \/ /\ work[f] # None
        /\ work' = [work EXCEPT ![f] = Formatted[work[f]]]
        /\ changed' = changed \/ (work'[f] # work[f] /\ changed' = changed \cup {f})
        /\ inHand' = inHand \cup {f} /\ unnoticed' = unnoticed \ {f}
        /\ UNCHANGED failed
     \/ /\ work[f] # None /\ ("format" \in Faults \/ cut)
        /\ \E c \in Partial[work[f]] : work' = [work EXCEPT ![f] = c]
        /\ failed' = TRUE
        /\ UNCHANGED <<changed, inHand, unnoticed>>
     \/ /\ work[f] = None
        /\ failed' = TRUE
        /\ UNCHANGED <<work, changed, inHand, unnoticed>>
  /\ UNCHANGED <<head, index, cached, at, cmd, pre, targets, lints, record, piped, exit, base,
                 touched, scope, cut, edits>>

\* The file is stat'ed and, unless a formatter failed in its batch, recorded as it is
\* now; if it is gone the job fails.
RecordOne(f) ==
  /\ at = "format" /\ f \in inHand
  /\ inHand' = inHand \ {f}
  /\ IF work[f] = None THEN failed' = TRUE /\ UNCHANGED cached
     ELSE /\ UNCHANGED failed
          /\ cached' = cached \cup {f} \/ (failed /\ UNCHANGED cached)
  /\ UNCHANGED <<head, index, work, at, cmd, pre, targets, lints, todo, changed, record, piped,
                 exit, history>>

\* Ctrl+C cancels the context of the run.
Interrupt ==
  /\ "signal" \in Faults /\ at \in {"repair", "walk", "format"} /\ ~cut
  /\ cut' = TRUE
  /\ UNCHANGED <<repo, at, cmd, pass, piped, exit, base, touched, scope, unnoticed, edits>>

\* A cancelled read ends the walk, and formatters that have not started fail.
StopReading ==
  /\ at = "format" /\ cut /\ todo # {}
  /\ todo' = {} /\ failed' \in {failed, TRUE}
  /\ UNCHANGED <<repo, at, cmd, pre, targets, lints, inHand, changed, record, piped, exit,
                 history>>

\* Mutant: a failed formatter does not fail the run.
NeverFailed == FALSE

RunFailed == failed

EndRun ==
  /\ at = "format" /\ todo = {} /\ inHand = {}
  /\ \/ /\ RunFailed \/ (cmd.failOnChange /\ changed # {})
        /\ End(1)
     \/ /\ ~RunFailed /\ ~(cmd.failOnChange /\ changed # {})
        /\ IF cmd.mode = "repair" THEN End(0) ELSE at' = "status" /\ UNCHANGED exit
  /\ UNCHANGED <<repo, cmd, pass, piped, history>>

-----------------------------------------------------------------------------
(* Recording the fixes.                                                    *)

\* Mutant: all that is dirty now.
AllDirty == ChangedPaths(Now)

ToCommit == ChangedPaths(Now) \ pre

ToRestage == {f \in pre : UnstagedIn(Now, f)}

\* Mutant: what was dirty before is refused only now.
RefuseLate ==
  /\ at = "status"
  /\ IF pre # {} THEN End(2) ELSE End(0)
  /\ UNCHANGED <<repo, cmd, pass, piped, history>>

Status ==
  /\ at = "status"
  /\ record' = IF cmd.mode = "commit" THEN ToCommit ELSE ToRestage
  /\ IF record' = {} THEN End(0) ELSE at' = "record" /\ UNCHANGED exit
  /\ UNCHANGED <<repo, cmd, pre, targets, lints, todo, inHand, failed, changed, piped, history>>

FromWork(g) == [f \in Files |-> IF f \in record THEN work[f] ELSE g[f]]

\* git commit -- <paths> takes the paths from the working tree, whatever the index
\* has, and leaves other staged paths alone; it fails without effect when there is
\* nothing to commit or a path is unknown.  rev-parse may fail afterwards.
CommitPaths ==
  /\ at = "record" /\ cmd.mode = "commit"
  /\ \/ /\ \A f \in record : index[f] # None \/ head[f] # None
        /\ FromWork(head) # head
        /\ head' = FromWork(head) /\ index' = FromWork(index)
        /\ End(3) \/ ("git" \in Faults /\ End(1))
     \/ /\ \/ \E f \in record : index[f] = None /\ head[f] = None
           \/ FromWork(head) = head
        /\ End(1) /\ UNCHANGED <<head, index>>
  /\ UNCHANGED <<work, cached, cmd, pass, piped, history>>

\* git add -- <paths>.
AddPaths ==
  /\ at = "record" /\ cmd.mode = "staged"
  /\ \/ /\ \A f \in record : index[f] # None \/ work[f] # None
        /\ index' = FromWork(index) /\ End(3)
     \/ /\ \E f \in record : index[f] = None /\ work[f] = None
        /\ End(1) /\ UNCHANGED index
  /\ UNCHANGED <<head, work, cached, cmd, pass, piped, history>>

-----------------------------------------------------------------------------
(* --stdin: the content goes through a temporary file.                     *)

BeginStdin ==
  /\ at = "run" /\ cmd.stdin
  /\ \/ /\ Cardinality(cmd.paths) = 1 /\ None \notin cmd.paths
        /\ at' = "stdin" /\ UNCHANGED exit
     \/ /\ Cardinality(cmd.paths) # 1 \/ None \in cmd.paths \/ SetupFails
        /\ End(1)
  /\ UNCHANGED <<repo, cmd, pass, piped, history>>

\* A copy that fails leaves the temporary file behind.
ReadStdin ==
  /\ at = "stdin"
  /\ \E c \in Contents : input' = c /\ tmp' = c
  /\ \/ at' = "piped" /\ UNCHANGED exit
     \/ "pipe" \in Faults /\ End(1)
  /\ UNCHANGED <<repo, cmd, pass, out, history>>

\* Formatters rewrite the temporary file in place, also when one of them then fails.
FormatStdin ==
  /\ at = "piped"
  /\ \/ /\ cmd.paths \subseteq FmtWants
        /\ tmp' = Formatted[tmp]
        /\ changed' = {} \/ (tmp' # tmp /\ changed' = cmd.paths)
        /\ UNCHANGED failed
     \/ /\ cmd.paths \subseteq FmtWants /\ "format" \in Faults
        /\ tmp' \in Partial[tmp]
        /\ failed' = TRUE /\ UNCHANGED changed
     \/ /\ ~(cmd.paths \subseteq FmtWants)
        /\ UNCHANGED <<tmp, changed, failed>>
  /\ at' = "print"
  /\ UNCHANGED <<repo, cmd, pre, targets, lints, todo, inHand, record, input, out, exit, history>>

\* Mutant: the temporary file is left behind.
PrintOnly ==
  /\ at = "print" /\ out' = tmp
  /\ IF failed \/ (cmd.failOnChange /\ changed # {}) THEN End(1) ELSE End(0)
  /\ UNCHANGED <<repo, cmd, pass, input, tmp, history>>

\* The release function, which also runs when a formatter failed, copies the
\* temporary file to stdout and removes it; when stdout is gone it stays behind.
PrintOut ==
  /\ at = "print"
  /\ \/ /\ out' = tmp /\ tmp' = None
        /\ IF failed \/ (cmd.failOnChange /\ changed # {}) THEN End(1) ELSE End(0)
     \/ /\ "pipe" \in Faults
        /\ UNCHANGED <<out, tmp>> /\ End(1)
  /\ UNCHANGED <<repo, cmd, pass, input, history>>

-----------------------------------------------------------------------------
(* Everybody else.                                                         *)

Save(f) ==
  /\ at \in EditWhen /\ edits < MaxEdits
  /\ \E c \in Maybe : c # work[f] /\ work' = [work EXCEPT ![f] = c]
  /\ Written({f})
  /\ touched' = touched \cup {f} /\ edits' = edits + 1
  /\ UNCHANGED <<head, index, at, cmd, pass, piped, exit, base, scope, cut>>

Stage(f) ==
  /\ at \in EditWhen /\ edits < MaxEdits
  /\ index[f] # work[f] /\ index' = [index EXCEPT ![f] = work[f]]
  /\ touched' = touched \cup {f} /\ edits' = edits + 1
  /\ UNCHANGED <<head, work, cached, at, cmd, pass, piped, exit, base, scope, cut, unnoticed>>

\* git rm -f.
Discard(f) ==
  /\ at \in EditWhen /\ edits < MaxEdits
  /\ index[f] # None
  /\ index' = [index EXCEPT ![f] = None] /\ work' = [work EXCEPT ![f] = None]
  /\ Written({f})
  /\ touched' = touched \cup {f} /\ edits' = edits + 1
  /\ UNCHANGED <<head, at, cmd, pass, piped, exit, base, scope, cut>>

Next ==
  \/ Start \/ StagedWithPaths \/ RefuseSetup \/ CommitPreflight \/ StagedPreflight \/ GitFails
  \/ BeginRepairs \/ (\E l \in Linters : RepairOne(l)) \/ RepairFails \/ EndRepairs
  \/ BeginFormat \/ (\E f \in Files : Skip(f) \/ FormatOne(f) \/ RecordOne(f))
  \/ Interrupt \/ StopReading \/ EndRun
  \/ Status \/ CommitPaths \/ AddPaths
  \/ BeginStdin \/ ReadStdin \/ FormatStdin \/ PrintOut
  \/ \E f \in Files : Save(f) \/ Stage(f) \/ Discard(f)

Spec == Init /\ [][Next]_vars

-----------------------------------------------------------------------------
(* Properties.                                                             *)

\* Every variable has its type.
TypeOK ==
  /\ Now \in Repo /\ base \in Repo
  /\ at \in Phases /\ cmd \in Command
  /\ pre \subseteq Files /\ targets \subseteq Files \cup {None} /\ lints \subseteq Linters
  /\ todo \subseteq Files /\ changed \subseteq Files /\ record \subseteq Files
  /\ cached \subseteq Files /\ inHand \subseteq Files \ todo /\ unnoticed \subseteq Files
  /\ failed \in BOOLEAN /\ cut \in BOOLEAN
  /\ {input, tmp, out} \subseteq Maybe
  /\ exit \in {None} \cup 0 .. 3
  /\ touched \subseteq Files /\ scope \subseteq Files /\ edits \in 0 .. MaxEdits
  /\ (exit # None => at = "idle") /\ (at = "piped" => tmp # None)

\* What the tools can make of content c: the least set that holds c and is closed
\* under the repairs and the formatters, those that fail half way included.
Derived == [c \in Contents |->
  {d \in Contents : \A S \in SUBSET Contents :
     /\ c \in S
     /\ \A e \in S : /\ Formatted[e] \in S /\ Partial[e] \subseteq S
                    /\ \A l \in Linters : Repaired[l][e] \in S
     => d \in S}]

MadeOf(d, c) == d = c \/ (c \in Contents /\ d \in Derived[c])

Dirty(r, f) == StagedIn(r, f) \/ UnstagedIn(r, f)

\* commit.go:53-54 "commit exactly the files the run changed": whatever the order
\* of saves, stagings and failures, HEAD differs from before the run only in files
\* that were clean, and there by what the tools made of the committed content,
\* unless somebody else had a hand in that file meanwhile.
CommitIsFixes ==
  \A f \in Files \ touched : head[f] # base.head[f] =>
     cmd.mode = "commit" /\ ~Dirty(base, f) /\ MadeOf(head[f], base.head[f])

\* staged.go:37-43: restaging never sweeps anything else into the index, be it an
\* unstaged change, a file that was not staged, or a change of another mode.
IndexIsFixes ==
  \A f \in Files \ touched : index[f] # base.index[f] =>
     \/ cmd.mode = "commit" /\ ~Dirty(base, f) /\ index[f] = head[f]
     \/ /\ cmd.mode = "staged" /\ StagedIn(base, f) /\ ~UnstagedIn(base, f)
        /\ MadeOf(index[f], base.index[f])

\* commit.go:32-34 "Refusal happens BEFORE any formatting, so a refused run leaves
\* the tree untouched"; the same of --staged.
RefusedUntouched ==
  exit = 2 => \A f \in Files \ touched :
     head[f] = base.head[f] /\ index[f] = base.index[f] /\ work[f] = base.work[f]

\* commit.go:24-26: exit codes 0 and 3 leave nothing behind.  What the tools did to
\* a clean file is in HEAD, what they did to a staged file in the index, and 0 is
\* said only when neither moved.
NothingStranded ==
  exit \in {0, 3} /\ cmd.mode # "repair" =>
     \A f \in Files \ touched :
        /\ (cmd.mode = "commit" /\ ~Dirty(base, f) /\ index[f] # None) =>
              work[f] = index[f] /\ index[f] = head[f]
        /\ (cmd.mode = "staged" /\ StagedIn(base, f) /\ index[f] # None) => work[f] = index[f]
        /\ (exit = 0) => head[f] = base.head[f] /\ index[f] = base.index[f]

\* A run that was not interrupted and exits 0 or 3 leaves every file it had to format
\* conformant, those included it skipped for what an earlier run recorded - unless the
\* file was last written with its size and within the second, or while an earlier run
\* had formatted but not yet stat'ed it, which then recorded it as formatted.
ConformantAfter ==
  exit \in {0, 3} /\ ~cut /\ at = "idle" =>
     \A f \in scope \ touched :
       work[f] # None /\ (Formatted[work[f]] = work[f] \/ f \in unnoticed)

\* --stdin: what is printed is made of what came in, if a formatter failed perhaps in
\* part (stdin.go:62-87 prints it all the same); it is all of it formatted when the exit
\* code is 0, and the tree is left alone.
StdinPrinted ==
  cmd.stdin =>
     /\ \A f \in Files \ touched : work[f] = base.work[f]
     /\ (out # None) => input # None /\ MadeOf(out, input)
     /\ (exit = 0) => /\ out # None /\ tmp = None
                     /\ ((cmd.paths \subseteq FmtWants) => Formatted[out] = out)

\* root.go:105 "Format only the files currently staged in the index":
\* --staged writes to no other file.
OnlyStagedWritten ==
  cmd.mode = "staged" =>
     \A f \in Files \ touched : work[f] # base.work[f] => StagedIn(base, f)
=============================================================================
