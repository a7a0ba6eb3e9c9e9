------------------------------ MODULE CheckRun ------------------------------
(***************************************************************************)
(* conformist check, run after run on a tree that is edited meanwhile        *)
(* (cmd/check.go, format/check.go, format/sandbox.go, format/linter.go):     *)
(* every batch of the walk is matched, checked by formatters (natively or in *)
(* a sandbox) and by linters; linters that look at the whole tree run once   *)
(* at the end, unless the cache holds a clean run over the same files.       *)
(*                                                                         *)
(* A file is its version, which every save raises, and whether it is there.  *)
(* What stat says of a version is its stamp, the size and the modification   *)
(* time in whole seconds, which another version may share.                   *)
(***************************************************************************)
EXTENDS Integers, FiniteSets

CONSTANTS
  Files, Formatters, Linters,
  Excluded,       \* files matched by the global excludes
  Native,         \* formatters with a check command, run on the tree itself
  WholeTree,      \* linters with passes-files = false
  Rank,           \* Rank[l]: place of the name of linter l in the sort order
  Objects(_, _),  \* Objects(t, s): tool t finds fault with the files s
  BatchSize,
  UseCache,       \* neither --no-cache nor an unusable cache directory
  MaxVersion,     \* bound on the saves of a file
  Stamp,          \* Stamp[f][v]: size and second of version v of f, which the first
                  \* version that looks the same stands for
  Setups,         \* the circumstances the checks may run in
  None            \* no cache entry, no sandbox, no exit code yet

Tools == Formatters \cup Linters

\* files: the files there may be; wants[t]: files matched by the globs of tool t;
\* noPositional: tools with no-positional-arg-support; fatalUnmatched: on-unmatched is
\* "fatal"; midRun: what may happen to files while a check runs; faults: what may go
\* wrong.
Setup == [files : SUBSET Files, wants : [Tools -> SUBSET Files], noPositional : SUBSET Tools,
          fatalUnmatched : BOOLEAN, midRun : SUBSET {"saved", "created"},
          faults : SUBSET {"config", "setup", "walk", "exec", "signal"}]

ASSUME CheckAssumption ==
  /\ Native \subseteq Formatters /\ WholeTree \subseteq Linters
  /\ Formatters \cap Linters = {} /\ Excluded \subseteq Files
  /\ Rank \in [Linters -> Nat] /\ \A k, l \in Linters : Rank[k] = Rank[l] => k = l
  /\ BatchSize \in Nat \ {0} /\ MaxVersion \in Nat \ {0} /\ UseCache \in BOOLEAN
  /\ Stamp \in [Files -> [1 .. MaxVersion -> 1 .. MaxVersion]]
  /\ Setups \subseteq Setup

ASSUME NoneAssumption ==
  None \notin {0, 1, 2} /\ \A K \in SUBSET (Files \X (1 .. MaxVersion)) : None # K

\* What the constants may promise besides; a theorem that needs it says so.  At(F, v)
\* is the tree with files F at versions v.
At(F, v) == {<<f, v[f]>> : f \in F}

\* Formatters and linters that are given files look at each of them by itself.
FileByFile ==
  \A t \in Tools \ WholeTree, F \in SUBSET Files, v \in [Files -> 1 .. MaxVersion] :
    Objects(t, At(F, v)) <=> \E f \in F : Objects(t, {<<f, v[f]>>})

\* The globs of a whole-tree linter name all the files it looks at.
NamesInputs ==
  \A s \in Setups, l \in WholeTree, F \in SUBSET Files, v \in [Files -> 1 .. MaxVersion] :
    Objects(l, At(F, v)) <=> Objects(l, At(F \cap (s.wants[l] \ Excluded), v))

VARIABLES
  setup,       \* the circumstances
  ver,         \* ver[f]: version of file f
  there,       \* files in the tree
  db,          \* db[l]: the files the key of the last clean run of whole-tree linter l
               \* was made of; the cache knows their stamps only
  pc,          \* where the run is
  todo,        \* files the walk has yet to deliver
  batch,       \* files of this batch as they were stat'ed
  last,        \* the error of the last Read
  pending,     \* tools that have yet to check this batch
  sandbox,     \* the tool with a sandbox, and the files as they were copied
  acc,         \* wholeTreeFiles: files matched by each whole-tree linter
  queue,       \* whole-tree linters Finalize has yet to look at
  findings,    \* tools that reported findings
  interrupted, \* the context was cancelled
  exit,        \* exit code of the last run, None once the tree has changed
  failed,      \* history: a failure happened in this run
  undisturbed  \* history: since this run began nothing but the run happened

tree  == <<ver, there>>
input == <<todo, batch, last>>
vars  == <<setup, ver, there, db, pc, todo, batch, last, pending, sandbox, acc, queue, findings,
           interrupted, exit, failed, undisturbed>>

\* The files of S that are there, as they are now.
Now(S) == {<<f, ver[f]>> : f \in S \cap there}
Names(s) == {p[1] : p \in s}

Matches(t, f) == f \in setup.wants[t] \ Excluded
Matched(t) == {p \in batch : Matches(t, p[1])}

Init ==
  /\ setup \in Setups
  /\ ver = [f \in Files |-> 1] /\ there \in SUBSET setup.files
  /\ db = [l \in Linters |-> None]
  /\ pc = "off" /\ todo = {} /\ batch = {} /\ last = "nil" /\ pending = {} /\ sandbox = None
  /\ acc = [l \in Linters |-> {}] /\ queue = {} /\ findings = {}
  /\ interrupted = FALSE /\ exit = None /\ failed = FALSE /\ undisturbed = FALSE

-----------------------------------------------------------------------------
(* Starting, reading and matching.                                         *)

\* What a run leaves behind is its exit code and the cache.
EndRun(code, because) ==
  /\ exit' = code /\ failed' = because
  /\ pc' = "off" /\ todo' = {} /\ batch' = {} /\ last' = "nil" /\ pending' = {}
  /\ sandbox' = None /\ acc' = [l \in Linters |-> {}] /\ queue' = {} /\ findings' = {}
  /\ interrupted' = FALSE

\* ExitCode of an error that wraps ErrCheckOperational.
OperationalCode == 2

\* --clear-cache removes the database, entries of every tool with it.
Start ==
  /\ pc = "off"
  /\ \E clear \in BOOLEAN : db' = IF clear THEN [l \in Linters |-> None] ELSE db
  /\ undisturbed' = TRUE
  /\ pc' = "read" /\ todo' = there /\ exit' = None /\ failed' = FALSE
  /\ UNCHANGED <<tree, batch, last, pending, sandbox, acc, queue, findings, interrupted>>

\* loadConfig fails: the error reaches ExitCode as it is.
LoadConfigFails ==
  /\ pc = "off" /\ "config" \in setup.faults
  /\ EndRun(1, TRUE)
  /\ UNCHANGED <<tree, db, undisturbed>>

\* FromViper, NewCompositeChecker or NewCompositeReader fail.
SetupFails ==
  /\ pc = "off" /\ "setup" \in setup.faults
  /\ EndRun(OperationalCode, TRUE)
  /\ UNCHANGED <<tree, db, undisturbed>>

\* The walk is at its end once a batch was not filled.
AtEof(s, rest) == rest = {} /\ Cardinality(s) < BatchSize

\* Files that are gone by now are passed over.
Read ==
  /\ pc = "read"
  /\ \E B \in SUBSET todo :
       /\ todo' = todo \ B /\ batch' = Now(B)
       /\ Cardinality(Now(B)) <= BatchSize
       /\ \/ AtEof(Now(B), todo \ B) /\ last' = "eof"
          \/ ~AtEof(Now(B), todo \ B) /\ Cardinality(Now(B)) = BatchSize /\ last' = "nil"
          \/ interrupted /\ last' = "canceled"
          \/ "walk" \in setup.faults /\ last' = "error"
  /\ pc' = "match"
  /\ UNCHANGED <<tree, db, pending, sandbox, acc, queue, findings, interrupted, exit, failed,
                 undisturbed>>

Unmatched == {p \in batch : p[1] \notin Excluded /\ \A t \in Tools : ~Matches(t, p[1])}

\* The first loop of CompositeChecker.Check.
Match ==
  /\ pc = "match" /\ ~(setup.fatalUnmatched /\ Unmatched # {})
  /\ pending' = {t \in Tools : Matched(t) # {}}
  /\ pc' = "tools"
  /\ UNCHANGED <<tree, db, input, sandbox, acc, queue, findings, interrupted, exit, failed,
                 undisturbed>>

MatchFatal ==
  /\ pc = "match" /\ setup.fatalUnmatched /\ Unmatched # {}
  /\ EndRun(OperationalCode, TRUE)
  /\ UNCHANGED <<tree, db, undisturbed>>

-----------------------------------------------------------------------------
(* Running a tool.                                                         *)

\* exec: the command starts.
CanStart == ~interrupted

\* Formatters first, then linters, each kind in the order of a Go map: any.
Turn(t) ==
  /\ pc = "tools" /\ t \in pending /\ sandbox = None
  /\ t \in Linters => pending \cap Formatters = {}

\* A tool that is given file names and needs one at a time: formatters are run once
\* per file, linters refuse.
Refused(t) == t \in Linters \cap setup.noPositional /\ Cardinality(Matched(t)) > 1

OnTheTree(t) == t \in Native \cup (Linters \ WholeTree)

Report(t) == findings' = findings \cup {t}

\* checkNative and Linter.Check: a command that exits non-zero has findings; on
\* files that went away meanwhile it may.
CheckOnTree(t) ==
  /\ Turn(t) /\ OnTheTree(t) /\ ~Refused(t) /\ CanStart
  /\ \/ Objects(t, Now(Names(Matched(t)))) /\ Report(t)
     \/ ~Objects(t, Now(Names(Matched(t)))) /\ UNCHANGED findings
     \/ ~(Names(Matched(t)) \subseteq there) /\ Report(t)
  /\ pending' = pending \ {t}
  /\ UNCHANGED <<tree, db, pc, input, sandbox, acc, queue, interrupted, exit, failed, undisturbed>>

\* The signal arrives while the command runs: it is interrupted, and its exit
\* status is read as findings.  One that exits 0 nevertheless is an error, as is
\* the next command of a formatter that is run once per file.
CheckKilled(t) ==
  /\ Turn(t) /\ OnTheTree(t) /\ ~Refused(t) /\ CanStart /\ "signal" \in setup.faults
  /\ \/ /\ Report(t) /\ pending' = pending \ {t} /\ interrupted' = TRUE
        /\ UNCHANGED <<db, pc, input, sandbox, acc, queue, exit, failed, undisturbed>>
     \/ EndRun(OperationalCode, TRUE) /\ UNCHANGED <<db, undisturbed>>
  /\ UNCHANGED tree

\* checkSandbox copies the files; one that is gone is an error.
Copy(t) ==
  /\ Turn(t) /\ t \in Formatters \ Native /\ Names(Matched(t)) \subseteq there
  /\ sandbox' = [tool |-> t, files |-> Now(Names(Matched(t)))]
  /\ UNCHANGED <<tree, db, pc, input, pending, acc, queue, findings, interrupted, exit,
                 failed, undisturbed>>

CopyFails(t) ==
  /\ Turn(t) /\ t \in Formatters \ Native
  /\ "exec" \in setup.faults \/ ~(Names(Matched(t)) \subseteq there)
  /\ EndRun(OperationalCode, TRUE)
  /\ UNCHANGED <<tree, db, undisturbed>>

\* Mutant: every file the formatter was given counts as rewritten.
AllRewritten(t, s) == s

\* Files of s the formatter's output differs from, by content.
Rewritten(t, s) == {p \in s : Objects(t, {p})}

\* The repair command rewrote the copies, which are compared with the files as they
\* are now: a file saved since the copy may differ whatever the formatter did.
Compare ==
  /\ pc = "tools" /\ sandbox # None /\ CanStart
  /\ Names(sandbox.files) \subseteq there
  /\ LET t     == sandbox.tool
         moved == {p \in sandbox.files : ver[p[1]] # p[2]}
         still == Rewritten(t, sandbox.files \ moved) IN
     /\ \/ still # {} /\ Report(t)
        \/ still = {} /\ UNCHANGED findings
        \/ moved # {} /\ Report(t)
     /\ pending' = pending \ {t}
  /\ sandbox' = None
  /\ UNCHANGED <<tree, db, pc, input, acc, queue, interrupted, exit, failed, undisturbed>>

\* The command does not start, fails, is killed, or a file cannot be read.
CompareFails ==
  /\ pc = "tools" /\ sandbox # None
  /\ \/ {"exec", "signal"} \cap setup.faults # {} \/ ~CanStart
     \/ ~(Names(sandbox.files) \subseteq there)
  /\ EndRun(OperationalCode, TRUE)
  /\ UNCHANGED <<tree, db, undisturbed>>

\* The command cannot be executed.
CheckFails(t) ==
  /\ Turn(t) /\ OnTheTree(t) /\ ~Refused(t)
  /\ "exec" \in setup.faults \/ ~CanStart
  /\ EndRun(OperationalCode, TRUE)
  /\ UNCHANGED <<tree, db, undisturbed>>

\* ErrNoPositionalArgSupport: nothing failed, the linter just matches two files.
Refuse(t) ==
  /\ Turn(t) /\ OnTheTree(t) /\ Refused(t)
  /\ EndRun(OperationalCode, FALSE)
  /\ UNCHANGED <<tree, db, undisturbed>>

\* Mutant: only the files of the last batch.
LastBatch(l) == Matched(l)

Gathered(l) == acc[l] \cup Matched(l)

\* A whole-tree linter only remembers the files it matched.
Accumulate(l) ==
  /\ Turn(l) /\ l \in WholeTree
  /\ acc' = [acc EXCEPT ![l] = Gathered(l)]
  /\ pending' = pending \ {l}
  /\ UNCHANGED <<tree, db, pc, input, sandbox, queue, findings, interrupted, exit, failed,
                 undisturbed>>

\* Read the next batch, or close the walker and look at the read error: a cancelled
\* read goes on with Finalize as if the walk had ended.
EndBatch ==
  /\ pc = "tools" /\ pending = {}
  /\ IF last = "nil" THEN pc' = "read" /\ UNCHANGED queue
     ELSE /\ last # "error"
          /\ pc' = "finalize" /\ queue' = {l \in WholeTree : acc[l] # {}}
  /\ UNCHANGED <<tree, db, input, pending, sandbox, acc, findings, interrupted, exit, failed,
                 undisturbed>>

\* A timeout, another read error or an error of Close.
WalkFails ==
  /\ pc = "tools" /\ pending = {}
  /\ last = "error" \/ (last # "nil" /\ "walk" \in setup.faults)
  /\ EndRun(OperationalCode, TRUE)
  /\ UNCHANGED <<tree, db, undisturbed>>

-----------------------------------------------------------------------------
(* Finalize.                                                               *)

\* In the order of the linters' names.
NextInQueue(l) ==
  pc = "finalize" /\ l \in queue /\ \A k \in queue : Rank[l] <= Rank[k]

\* Mutant: the files as they are when the check has run.
KeyAfterwards(l) == Now(Names(acc[l]))

\* wholeTreeSignature takes the matched files as they were stat'ed.
Key(l) == acc[l]

\* What there is of files s in a key: path, second and size of each.
Stamped(s) == {<<p[1], Stamp[p[1]][p[2]]>> : p \in s}

\* Mutant: files that went away do not count.
CachedIfSubset(l) == UseCache /\ db[l] # None /\ Stamped(Key(l)) \subseteq Stamped(db[l])

WholeTreeCached(l) == UseCache /\ db[l] # None /\ Stamped(db[l]) = Stamped(Key(l))

SkipCached(l) ==
  /\ NextInQueue(l) /\ WholeTreeCached(l)
  /\ queue' = queue \ {l}
  /\ UNCHANGED <<tree, db, pc, input, pending, sandbox, acc, findings, interrupted, exit,
                 failed, undisturbed>>

\* The linter looks at the tree as it is; after a clean run the key is stored.
CheckWholeTree(l) ==
  /\ NextInQueue(l) /\ ~WholeTreeCached(l) /\ CanStart
  /\ IF Objects(l, Now(Files))
     THEN Report(l) /\ queue' = queue \ {l} /\ UNCHANGED pc
     ELSE pc' = "store" /\ UNCHANGED <<findings, queue>>
  /\ UNCHANGED <<tree, db, input, pending, sandbox, acc, interrupted, exit, failed, undisturbed>>

\* wholeTreeStore; a database that does not take the entry is no error.
Store(l) ==
  /\ pc = "store" /\ l \in queue /\ \A k \in queue : Rank[l] <= Rank[k]
  /\ \/ UseCache /\ db' = [db EXCEPT ![l] = Key(l)] /\ UNCHANGED undisturbed
     \/ (~UseCache \/ "exec" \in setup.faults) /\ UNCHANGED db /\ undisturbed' = FALSE
  /\ queue' = queue \ {l} /\ pc' = "finalize"
  /\ UNCHANGED <<tree, input, pending, sandbox, acc, findings, interrupted, exit, failed>>

\* Interrupted while it runs, which reads as findings, or not executed at all.
WholeTreeKilled(l) ==
  /\ NextInQueue(l) /\ ~WholeTreeCached(l) /\ CanStart /\ "signal" \in setup.faults
  /\ Report(l) /\ interrupted' = TRUE
  /\ queue' = queue \ {l}
  /\ UNCHANGED <<tree, db, pc, input, pending, sandbox, acc, exit, failed, undisturbed>>

WholeTreeFails(l) ==
  /\ NextInQueue(l) /\ ~WholeTreeCached(l)
  /\ "exec" \in setup.faults \/ ~CanStart
  /\ EndRun(OperationalCode, TRUE)
  /\ UNCHANGED <<tree, db, undisturbed>>

\* Mutant: the number of findings.
CountFindings == Cardinality(findings)

\* What the findings come to.
FindingsCode == IF findings # {} THEN 1 ELSE 0

\* runCheck returns, ExitCode makes a number of it.
Finish ==
  /\ pc = "finalize" /\ queue = {}
  /\ EndRun(FindingsCode, FALSE)
  /\ UNCHANGED <<tree, db, undisturbed>>

-----------------------------------------------------------------------------
(* Everybody else.                                                         *)

\* Somebody saves a file, new or old.
Save(f) ==
  /\ pc = "off" \/ (IF f \in there THEN "saved" ELSE "created") \in setup.midRun
  /\ ver[f] < MaxVersion
  /\ ver' = [ver EXCEPT ![f] = @ + 1] /\ there' = there \cup {f}
  /\ undisturbed' = FALSE /\ exit' = None
  /\ UNCHANGED <<db, pc, input, pending, sandbox, acc, queue, findings, interrupted, failed>>

\* Between two checks a file is moved away or back, which keeps its times.
Move(f) ==
  /\ pc = "off"
  /\ there' = IF f \in there THEN there \ {f} ELSE there \cup {f}
  /\ undisturbed' = FALSE /\ exit' = None
  /\ UNCHANGED <<ver, db, pc, input, pending, sandbox, acc, queue, findings, interrupted, failed>>

\* SIGINT or SIGTERM between two steps of the run.
Signal ==
  /\ "signal" \in setup.faults /\ pc # "off" /\ ~interrupted
  /\ interrupted' = TRUE /\ undisturbed' = FALSE
  /\ UNCHANGED <<tree, db, pc, input, pending, sandbox, acc, queue, findings, exit, failed>>

ToolStep(t) ==
  CheckOnTree(t) \/ CheckKilled(t) \/ CheckFails(t) \/ Refuse(t) \/ Copy(t) \/ CopyFails(t)

LinterStep(l) ==
  Accumulate(l) \/ SkipCached(l) \/ CheckWholeTree(l) \/ Store(l) \/ WholeTreeKilled(l)
  \/ WholeTreeFails(l)

Step ==
  \/ Start \/ LoadConfigFails \/ SetupFails \/ Read \/ Match \/ MatchFatal
  \/ \E t \in Tools : ToolStep(t)
  \/ \E l \in Linters : LinterStep(l)
  \/ Compare \/ CompareFails \/ EndBatch \/ WalkFails \/ Finish
  \/ \E f \in setup.files : Save(f) \/ Move(f)
  \/ Signal

Next == Step /\ UNCHANGED setup

Spec == Init /\ [][Next]_vars

-----------------------------------------------------------------------------
(* Properties.                                                             *)

Versions(s) == s \subseteq Files \X (1 .. MaxVersion)

\* Every variable has its type; a batch has at most BatchSize files.
TypeOK ==
  /\ setup \in Setups
  /\ ver \in [Files -> 1 .. MaxVersion] /\ there \subseteq Files
  /\ DOMAIN db = Linters /\ \A l \in Linters : db[l] = None \/ Versions(db[l])
  /\ pc \in {"off", "read", "match", "tools", "finalize", "store"}
  /\ todo \subseteq Files /\ Versions(batch) /\ Cardinality(batch) <= BatchSize
  /\ last \in {"nil", "eof", "canceled", "error"}
  /\ pending \subseteq Tools /\ findings \subseteq Tools /\ queue \subseteq WholeTree
  /\ sandbox # None => sandbox.tool \in Formatters /\ Versions(sandbox.files)
  /\ DOMAIN acc = Linters /\ \A l \in Linters : Versions(acc[l])
  /\ exit \in {0, 1, 2, None}
  /\ {interrupted, failed, undisturbed} \subseteq BOOLEAN

\* What tool t would say of the tree as it is.
Complains(t) ==
  /\ \E f \in there : Matches(t, f)
  /\ IF t \in WholeTree THEN Objects(t, Now(Files))
                        ELSE \E f \in there : Matches(t, f) /\ Objects(t, Now({f}))

\* Nobody touches the tree while a check runs.
Quiet == setup.midRun = {}

\* The files a whole-tree linter goes by, those of its globs that are there.
Globbed(l) == {f \in there : Matches(l, f)}

\* No file of S has the size and second of an earlier version of it.
Fresh(S) == \A f \in S, v \in 1 .. MaxVersion : v < ver[f] => Stamp[f][v] # Stamp[f][ver[f]]

\* RFC 0001 section 7, exit code 0: "no formatter would change a file and no linter
\* reported a finding" - on the tree as it is, cached checks included, but for a
\* whole-tree linter one of whose files was saved with its old size in the same second,
\* or had its times set back: the key of its last clean run then still stands, although
\* "any added, removed, or modified matched file changes the key" (check.go:212-213).
ZeroMeansClean ==
  Quiet /\ exit = 0 => \A t \in Tools :
    Complains(t) => UseCache /\ t \in WholeTree /\ ~Fresh(Globbed(t))

\* RFC 0001 section 7, exit code 1: "At least one finding was produced"; a command
\* killed by a signal counts as one.
OneMeansFinding ==
  Quiet /\ "signal" \notin setup.faults /\ exit = 1 /\ ~failed => \E t \in Tools : Complains(t)

\* check.go:157-159 "skipped when its cache entry matches the current config +
\* matched-file-set signature": the entry that would make a check of the tree as it
\* is skip a linter is one under which the linter has no findings, however the tree
\* was edited while the entry was made - unless a file has an old size and second.
EntrySound ==
  \A l \in WholeTree :
    /\ db[l] # None /\ db[l] # {}
    /\ Stamped(db[l]) = Stamped(Now(Globbed(l))) /\ Fresh(Globbed(l))
    => ~Objects(l, Now(Files))

\* A clean check of a tree nobody touched since it began leaves, for every whole-tree
\* linter, the entry that lets the next check skip it (check.go:155-159).
CleanIsCached ==
  exit = 0 /\ undisturbed =>
    \A l \in WholeTree : Globbed(l) # {} =>
      db[l] # None /\ Stamped(db[l]) = Stamped(Now(Globbed(l)))
=============================================================================
