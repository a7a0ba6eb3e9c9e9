# A TLA+ model of conformist

`conformist` walks a source tree and runs formatters over it (repair mode), or
linters and formatters in check mode, and skips what a cache says is already
formatted. This directory models its Go code: the state machines that decide
which file is handed to which tool and when, what is remembered about it, and
what the process reports. Paths below are relative to the repository's root.

1. The system and its components
2. The modules, and how they correspond to the code
3. What is checked: runs, bounds, fairness
4. What is proved
5. What the checks say about the code
6. What is not modelled
7. Plan

## 1. The system and its components

| component | code | state it keeps | operations |
|---|---|---|---|
| main loop of repair mode | `cmd/format/format.go` | the slice of files just read, the errors seen so far | read, apply, close the formatter, close the walker, choose what to return |
| matching | `format/composite.go`, `format/formatter.go`, `format/glob.go` | global excludes, formatters, their combined signature | match, submit, release what needs nothing |
| scheduler | `format/scheduler.go` | one pending batch per formatter sequence, the worker pool, `formatError` | submit, schedule, run a batch, close |
| cache | `walk/cached.go`, `walk/cache/cache.go` | the bbolt file, `updateCh`, the writer's batch | look up on read, send on release, flush in transactions, remove |
| change detection | `walk/walk.go` | size and mtime of a file when read and after formatting | `Stat`, format signatures |
| readers | `walk/filesystem.go`, `git.go`, `jujutsu.go`, `stdin.go`, `walk.go` | a producer goroutine and a channel or pipe to it | read, close |
| check mode | `cmd/check.go`, `format/check.go`, `linter.go`, `sandbox.go` | findings, tool errors, matches of whole-tree linters and their cache | check a batch, finalise, choose the exit code |
| linter repairs | `format/repair.go`, `applyLinterRepairs` | none | one pass without cache before the formatters |
| commit mode | `cmd/format/commit.go`, `git/commit.go` | index, worktree, HEAD | preflight, run, commit the difference |
| staged mode | `cmd/format/staged.go` | index, worktree | preflight, run, restage the difference |
| configuration | `config/config.go`, `cmd/root.go` | flags, environment, file | find the file, merge, choose the tree root |

How they interact. `Run` reads batches of 1024 `walk.File`s from a
`CompositeReader`, one path after the other. Each reader is fed by a goroutine
(a filesystem walk into `filesCh`, or `git ls-files`/`jj file list` into a pipe);
`CachedReader` attaches the cache entry of each file. `CompositeFormatter.Apply`
matches files to formatters and submits them to the scheduler, which skips those
whose entry equals the signature they would get, collects the others per
formatter sequence, and hands full batches to an errgroup of `runtime.NumCPU()`
workers. A worker runs the formatters of the sequence on its batch one after the
other, stats each file and calls its release function, which sends it to
`updateCh`; one writer goroutine commits it to the database. Closing goes the
other way round: `formatter.Close` submits what is left and waits for the
workers, `walker.Close` closes `updateCh` and waits for the writer. Check mode
has the same readers (without the cache) and a sequential loop over tools;
whole-tree linters run once at the end, behind a cache of their own.

What is hard about it, and what makes it correct:

- *Ownership*: batches are filled while others run. No file may be in two hands;
  the formatters of a file must run in one order. (RepairPipeline)
- *What is recorded*: an entry is what makes the next run skip a file. It must
  only exist if the whole sequence was applied - across failures, cancelled
  runs, kills, configuration changes, edits and other processes.
  (RepairPipeline within a run, FormatCache across runs)
- *What is reported*: errors arise in the reader, in workers, in the writer and
  in Close, and meet in one return value. nil, or exit code 0, must mean that
  the work is complete. (RepairPipeline, WalkReaders, CheckRun)
- *Termination*: bounded channels between goroutines that may end early.
  (RepairPipeline, WalkReaders)
- *Staleness*: stats taken by the walk are used after tools ran; times have a
  precision of a second; the whole-tree key is computed before the linter runs
  and stored after. (FormatCache, CheckRun)
- *Other people's work*: commit and staged mode read `git status` before and
  after a run, and take whole files from the working tree. What was dirty or
  staged before, or is saved in between, belongs to somebody else. (RepairModes)
- *Where to work*: flags, two families of variables, a config file found by
  searching upward, links, ceilings and two kinds of repository decide which
  directory is walked. (Startup)

The full list, with source lines, is in `PROJECT.json` under `hazards`.

## 2. The modules

`Startup` is a process until it has its readers; `RepairModes` is the process
from there to its exit code, in every mode but check, with the formatting pass
taken file by file. `RepairPipeline` opens up that pass: it implements
`FormatContract`, the abstract specification of a formatting run. `FormatCache`
takes one file through many runs (RepairPipeline takes many files through one),
with the signatures `Signatures` computes. `WalkReaders` opens up the `Read` and
`Close` that RepairPipeline and CheckRun take at their interface. `CheckRun` is
check mode. Each has an `MC...` module with the values for TLC; the theorems of
section 4 are in the `...Proofs` modules and in `RepairPipelineRefinement`. Operators
introduced by a comment `Mutant:` are broken variants of the operator that
follows them; no specification uses them: replacing the operator by its variant
must break a property.

What a module needs of its constants is in its named assumptions, which TLC
evaluates in every run: types, bounds that are positive, names that are distinct,
and that the values for "absent" are none of the values there may be. What only some
theorems need is a definition of its own (`FileByFile`, `NamesInputs`,
`NamedAbsolutely`, `RealCeilings`), and the MC modules assume it of their values.

In WalkReaders and CheckRun the constant `Setups` is a set of circumstances (who
runs the loop, what may go wrong, what others may do), one of which is chosen at
the start and kept in the variable `setup`.

### RepairPipeline - one formatting pass

| model | code |
|---|---|
| `pc`: read, apply, handoff, close, drain, returned | the position in `Run` (format.go:143-216) |
| `unread`, `inbox`, `readErr` | what the walker has yet to deliver, the slice and error of the last `Read` |
| `batches` | `scheduler.batches`; the key is the set of formatters, as a sequence is always sorted |
| `job[w]` | a closure given to `eg.Go`: its batch, the formatters left, the files the current formatter has yet to get (`todo`: all at once, or one by one under no-positional-arg-support), whether a formatter failed |
| `egErr`, `formatError`, `formatErr` | the error of `eg.Wait`, the atomic flag, the error of `Apply` |
| `updateCh`, `wbuf`, `writer`, `db` | `CachedReader.updateCh`, the batch in `process`, the goroutine, the database |
| `result` | history: how each formatter went on each file |
| `differs` | the files whose size or second of modification is not what `Read` saw, all that `File.Stat` can tell |
| `fatal` | whether `on-unmatched` is fatal |
| `cached` | the files whose entry matches their signature, chosen freely at the start |

Actions: `Read`; per file of the slice `SkipUnmatched`, `SkipCached`, `Submit`
or `Abort` (unmatched file under `fatal`, formatter that cannot be hashed);
`Schedule` when a batch is full or, in the closing sequence, non-empty, and a
slot is free (otherwise the main goroutine blocks in `eg.Go`); `ApplyFormatter`,
`EndFormat`, `PostFile`, `StatError` in the workers; `Take` and `Flush` in the
writer; `EndApply`, `CloseFormatter`, `Return`; `Interrupt` for the signal. A
formatter may rewrite any subset of the files it is given, and fail; a rewrite need
not show, as size and second may be what they were. A read may deliver the last files
together with EOF.

### FormatCache - one file across runs and processes

The file is its mtime and size plus a ghost, `done`: pairs `<<c, k>>` for which the
first `k` formatters of configuration `c` were applied to its content since anybody
else wrote it; `Full` are the configurations whose whole sequence was. The database is
an entry per inode, since `cache.Remove` unlinks a file others may still have open. A
run is `Start` (load configuration and `Flags`: `--ci`, `--clear-cache`), `Wake` (the
wait of `--ci`), `RemoveCache`, `Open`/`OpenTimeout` (the lock of bbolt), `List`,
`Skip` or `Accept`, `Format` per formatter, `Stat`, `Record`. `Crash` ends it anywhere.
`Edit`, `Reconfigure` and `Tick` are everybody else, and may come at any moment; runs
with and without the lock overlap freely. A formatter leaves a file alone to which the
whole sequence was already applied (formatter-spec.md, rule 2). The slice `bucket.Get`
returns may hold other bytes by the time it is compared; `List` then attaches no entry.

Two kinds of writes leave no trace conformist could find: one between two formatters
of a run, which the stat after them takes for theirs, and one with the size and in the
second that is recorded. The ghost `unsure` holds the databases whose entry fits a file
written that way (`Overtaken`, `Fitting`), and the properties name it as their
exception, instead of the model leaving such writes out. `SigOf` is not an assumption:
TLC computes it with `Signatures`, for configurations that differ in the options of a
formatter.

### Signatures - what is hashed

`Hash` is the text `Formatter.Hash` writes, one part after the other and without
separators, `Sorted` the order of `formatterSortFunc`, `SignatureOf` the text of a
sequence. A text is a sequence of characters; the hash function is injective.

### WalkReaders - listings, readers and the loop that uses them

One goroutine per path (`lister`), `CompositeReader.Read` over what it hands on
(`buf`), `CachedReader` around them (`cached`), and the loop of `format`, `repair` or
`check` (`mode`), which differ in how they take a cancelled read. A walk sends to
`filesCh`, which holds `capacity` files. A command writes to an `io.Pipe`, which holds
nothing: it gets rid of a line only while a `Scan` waits for one (`pc` is "wait",
`Asked`), and ends when all its output was read; a `Scan` may be given several lines at
once, as many as fit in the scanner's buffer. What is behind an entry (a file,
something to skip, nothing any more, something that cannot be read) is decided when it
is looked at, in the goroutine for a walk and in `Read` for a command. `CutShort` is a
context that is done; a `Scan` on a command's output blocks regardless (`Wake`).
With one path `NewReader` returns the plain reader without the composite around
it; the composite adds one empty read to that, nothing else.

### CheckRun - check mode, run after run

Files have versions; a run sees those the walk stat'ed, a tool those on disk when
it runs. `Stamp` is what stat tells of a version, its size and second, and versions may
share one; the cache compares files by stamps alone (`Stamped`), as
`wholeTreeSignature` does. `Objects(t, s)` - tool t finds fault with files s - is a constant
operator: tools are deterministic, and the verdict of a whole-tree linter depends
on the files it matches, which is what its cache assumes. Per batch: `Read`,
`Match` or `MatchFatal`, and for each tool, formatters first, in any order within
a kind (Go maps): `CheckOnTree` (check command, per-file linter), `Copy` and
`Compare` (sandboxed formatter), `Accumulate` (whole-tree linter), `Refuse`, and
their failures. Then `Finalize`: `SkipCached`, `CheckWholeTree` and `Store`, by
name. Every error ends the run at once through `EndRun(OperationalCode, ...)`.
Between and - where the setup allows it - during checks files are saved, created,
moved away and back.

### RepairModes - plain repair, --stdin, --commit and --staged

| model | code |
|---|---|
| `head`, `index`, `work` | the content of each path for git, `None` where it has none |
| `cached` | files whose cache entry fits their size and modification time |
| `cmd` | the flags that decide the mode (cmd/root.go, `runE`), after merging |
| `at` | preflight (`commitPreflight`, `RunStaged`), run, repair (`applyLinterRepairs`), walk and format (`Run`), status and record (`RunCommit`, `RunStaged` after `Run`), stdin, piped, print (`walk/stdin.go`) |
| `pre` | commit: the paths dirty before; staged: the staged set |
| `targets` | the paths given to `Run` |
| `lints`, `todo`, `inHand`, `failed`, `changed` | linters and files still to do, files formatted but not yet stat'ed and recorded, and what the pass reports |
| `record` | the paths handed to `git commit` or `git add` |
| `input`, `tmp`, `out` | the content on stdin, in the temporary file, on stdout |
| `base`, `touched`, `scope`, `cut` | history: the repository at the beginning, files others touched, files the pass had to format, whether it was interrupted |
| `unnoticed` | history: files written with the same size in the same second, or between the formatters and the stat |

`Start` refuses flags that cobra excludes; `StagedWithPaths`, `RefuseSetup`,
`CommitPreflight` and `StagedPreflight` are the refusals in their order, and the
reading of `git status`. `BeginRepairs`, `RepairOne` and `EndRepairs` are the
linters' pass, `BeginFormat`, `Skip` (the cache entry fits), `FormatOne`, `RecordOne`
and `EndRun` the formatters', `StopReading` what a signal does to it. `Status`
reads `git status` again and takes the difference; `CommitPaths` and `AddPaths`
record it. `BeginStdin`, `ReadStdin`, `FormatStdin` and `PrintOut` are the pipe.
`SetupFails` (also after the linters wrote: formatters are looked up after them),
`RepairFails`, `GitFails` and `Interrupt` are what goes wrong, `Save`, `Stage` and
`Discard` everybody else. A sequence of formatters that fails may leave part of its
work (`Partial`), in the tree and in the temporary file of `--stdin`. Whatever writes
to a file may or may not make its cache entry stop fitting (`Written`). A signal during
the repairs ends the run, or, when the tool it kills is the last, lets it go on to the
formatting pass with a cancelled context (format/linter.go:109-113,
cmd/format/format.go:266-269). A tool is a function on contents; formatters are
idempotent (formatter-spec.md, rule 2), a linter that exits non-zero may have
repaired any part of its files. `FromRoot` is what joining a path git printed to
the tree root names; it is the identity when the tree root is the repository's.

### Startup - which directory, which options, which readers

A directory is a sequence of names; `Links` are symbolic links to directories.
`world` is what a process finds and does not change: where it is started, what
flags, variables and the config file set, which files are where, what git,
jujutsu and a tree-root command would answer, and the path arguments. `at` walks
through the set-up: `ReadEnv` (legacy variables), `ChangeDir`, `LoadConfig` and
`SearchConfig` (one directory of the upward search per step), `Merge`
(`FromViper`), `ChooseRoot`, `SearchRootFile`, `ProbeGit`, `ProbeJujutsu` and
`FallbackRoot` (`determineTreeRoot`; a probe may be killed after two seconds),
`OpenReaders` (`NewCompositeReader`, `NewReader`). It ends in `ready` or `failed`.

## 3. What is checked

Passing runs (states; each takes between 10 seconds and 3 minutes with two workers):

| run | question | bounds and why they are enough |
|---|---|---|
| `pipeline_safety` | Ownership, order, recording, the verdict and the refinement of `FormatContract`, with failing formatters, vanished files, signals and a cache that cannot be written | 3 files with two formatter sequences (one of two formatters, one shared with the other), batches of 2 and 2 workers: a full batch, a rest, two batches of one formatter at once; both formatters may rewrite, visibly or not; a writer batch of 1 makes the channel small enough to fill. 99k states |
| `pipeline_exits` | Every way a pass may end: does `Run` return, and never nil for an incomplete pass? | 5 files, one matching nothing, which is fatal or not; one worker, batches of 2 and a channel of one: two full batches of one key, of which the second finds no worker free, a full channel, an EOF with and without files, ordinary ends and aborted ones; all faults but the cache's, which `pipeline_writer_dies` is about. 1.04M states |
| `cache_runs` | May a run trust an entry, and does it? Is the wait of `--ci` enough? Whom does the lock keep out? | 2 processes, each run plain, with `--ci` or with `--clear-cache` (once); 2 configurations that differ in one option, 2 formatters, 2 sizes, clock up to 2; 3 starts, saves and changes of the configuration in any proportion and at any moment: two runs and what falls between or into them, or one and two saves; three runs, of which two overlap and the third finds what they recorded. Crashes anywhere. 1.04M states |
| `walk_readers` | Is a walk complete, in order, is what is incomplete reported, and does the run end? | A command of 3 entries and a walk of 2, batches of 2: a listing ends within a batch and at its end. One setup is the repair loop on plain readers with every kind of entry, signals, timeouts and failing work, the first reader stopped in the middle or the second never started; the other the formatting loop on cached readers, with room for one entry, so that listings block, and failing commands. 34k states |
| `check_verdict` | Do exit codes mean what RFC 0001 says, on trees edited between checks, and what can the whole-tree cache hide? | 4 files, a native and a sandboxed formatter, a per-file and a whole-tree linter, versions up to 3, of which two share size and second, batches of 2. One setup is a quiet tree with an unmatched file that is fatal, walk errors and tools that cannot run; one has files saved at any moment of a check, signals and every failure of tools; a third has a wrong config and a linter that takes one file at a time. Checks follow each other, with the cache. 555k states |
| `modes_recorded` | Do commits and restaging hold the tools' fixes and nothing else? What do refused, failed and interrupted runs leave? Does `--stdin`? | 3 files in 32 combinations of states (clean, staged, dirty, partially staged, added, deleted, untracked), a linter for two files, a whole-tree linter and one that wants a file at a time, contents that need repair and format, format, or nothing; 13 command lines, run after run with the cache between them, every fault. One edit by others, before the pass, in it, between its two halves or before recording: each property compares a file with what one edit did to it. 3.1M states |
| `startup` | Which config file, tree root, option and reader? | A project two directories deep with a directory of the same name in it, a store outside, a link into the project: 13k situations crossing start, config files (one unreadable), ceilings, variables, flags, repositories, PRJ_ROOT and path arguments; slow probes. 109k states |

Runs that expect a violation, see section 5: `pipeline_writer_dies`,
`walk_close_hangs`, `check_interrupted`, `modes_staged_subdir`,
`startup_relative_dir`.

Properties worth reading first: `RecordedMeansFormatted`, `HonestExit`,
`PipelineOrder` and `ImplementsContract` (RepairPipeline), `SkipSound` and
`RunTwiceSkips` (FormatCache), `CompleteOrReported` and `ReturnsUnlessStranded`
(WalkReaders), `ZeroMeansClean` and `EntrySound` (CheckRun),
`CommitIsFixes`, `IndexIsFixes` and `NothingStranded` (RepairModes),
`ConfigNearest` and `RootCoversWork` (Startup).

Fairness. `RepairPipeline!FairSpec`: the main goroutine, each worker and the
cache writer are goroutines of one process, which Go schedules; each has weak
fairness, which also says that formatters end. `WalkReaders!FairSpec`: the loop
and every listing goroutine or command, again weakly - a command that hangs for
ever is excluded. Signals, failures and edits are never fair: they need not
happen. The read timeout is part of the loop's fairness only in setups whose
faults include it. The other modules have no liveness properties and no
fairness; a process may be killed, or wait for its tools, at any time.

Deadlock checking is on in all passing runs but three: a behaviour of `startup` is one
process, which ends; in `cache_runs` nobody has to run conformist, save or reconfigure
ever again; and in `walk_readers` the hang `ReturnsUnlessStranded` allows for is a
deadlock. The runs with a violated liveness property turn it off, as the hang they show
is a deadlock as well.

## 4. What is proved

TLAPS proves, for every value of the constants that satisfies the named
assumptions of the module, that these hold of every behaviour of `Spec`. A
hypothesis beyond them is stated in the theorem and in the third column. With the
exception of the two liveness properties, every property of a passing run is here.

| module | theorem | shows |
|---|---|---|
| RepairPipelineProofs | `TypeCorrect` | `TypeOK` |
| | `RecordedCorrect` | `RecordedMeansFormatted`: an entry in the cache or on its way there belongs to a file that all its formatters handled successfully, or had an entry before |
| | `OwnershipCorrect` | `OwnedOnce`: no file is in two hands |
| | `ProgressCorrect` | `ProgressKept`, of every state: a worker that saw no failure has "ok" for each file and formatter it is through with, and what is on its way to the cache is in nobody's hands |
| | `ClosedCorrect` | `NoSendOnClosed`: nobody sends on `updateCh` after it was closed |
| RepairPipelineExitProofs | `OrderCorrect` | `PipelineOrder`: formatters get a file in the order of priority and name, each once, before it is recorded |
| | `ExitCorrect` | `HonestExit`: nil means that everything accepted is formatted and recorded, and nothing unread unless a signal came |
| | `ChangesCorrect` | `NoChangeMissed`: nil under `--fail-on-change` means that no accepted file has another size or second than `Read` saw |
| RepairPipelineRefinement | `RefinementCorrect` | `ImplementsContract`: the pass implements `FormatContract` |
| FormatCacheProofs | `TypeCorrect` | `TypeOK` |
| | `RunTwiceCorrect` | `RunTwiceSkips`: what a run recorded and nobody touched, the next one skips |
| | `OneAtWorkCorrect` | `OneAtWork`: of two processes that format at once, one runs without cache or had the cache removed under it |
| | `ChangeCorrect` | `ChangeSeen`: the wait of `--ci` is enough, whoever else writes to the file |
| | `EntriesCorrect` | an entry that fits the file was made by a whole sequence with its signature, applied to what the file holds, unless it is `unsure` |
| | `SkipCorrect` | `SkipSound`: what is skipped is formatted, with the same exception, if no two configurations share a signature |
| WalkReadersProofs | `TypeCorrect` | `TypeOK` |
| | `NothingForgottenCorrect` | `NothingForgotten`: files that came with an error are worked on too |
| | `OrderCorrect` | `DeliveredInOrder`: in the order of paths and listings, each file once, none passed over |
| | `CompleteCorrect` | `CompleteOrReported` |
| CheckRunProofs | `TypeCorrect`, `ReadCorrect` | `TypeOK`, and what a check knows of the tree (`ReadInv`) |
| | `CachedCorrect` | `CleanIsCached` |
| | `EntryCorrect` | `EntrySound`: but for files with the size and second of an earlier version, an entry that fits the tree is of a tree the linter accepts; if `NamesInputs` and no setup has "created" in `midRun` |
| | `ZeroCorrect` | `ZeroMeansClean`, with that exception for whole-tree linters, if `FileByFile`, `NamesInputs`, and no quiet setup has signals |
| | `OneCorrect` | `OneMeansFinding`, if `FileByFile` |
| RepairModesProofs | `TypeCorrect` | `TypeOK` |
| | `CommitCorrect` | `CommitIsFixes`: HEAD moves only in files that were clean, to what the tools made of them |
| | `IndexCorrect` | `IndexIsFixes`: restaging sweeps nothing else into the index |
| | `RefusalCorrect` | `RefusedUntouched`: exit code 2 leaves HEAD, index and working tree alone |
| | `RecordingCorrect` | `NothingStranded`: exit codes 0 and 3 leave no fix unrecorded |
| | `ConformanceCorrect` | `ConformantAfter`: after an uninterrupted 0 or 3 all that had to be formatted is, what was skipped for its entry included, but for files in `unnoticed` |
| | `StdinCorrect` | `StdinPrinted`: what is printed is made of what came in, after a failure perhaps in part, and formatted when the exit code is 0; the tree untouched |
| StartupProofs | `TypeCorrect` | `TypeOK` |
| | `LayersCorrect` | `LayersInOrder`: the first layer that sets an option decides |
| | `NearestCorrect` | `ConfigNearest`, if `RealCeilings` |
| | `GitRootCorrect` | `GitRootOrNone`, if `NamedAbsolutely` |
| | `CoversCorrect` | `RootCoversWork`, if `NamedAbsolutely`; the documents say otherwise of config files elsewhere, see section 5 |
| | `WholeTreeCorrect` | `WholeTreeFromBelow`, if `NamedAbsolutely` |
| | `StartedThereCorrect` | `AsIfStartedThere`, if `NamedAbsolutely`: relative names are all there is to the run `startup_relative_dir` |

Those of RepairModes are about the files nobody else touched during the run.

The hypotheses are facts about constants that the code does not secure, and for
each of them section 5 says what happens without it:

- Distinct signatures (`SkipCorrect` only): no two configurations have the same. The
  parts of the hash have no separators, so there are such configurations;
  `EntriesCorrect` needs no hypothesis and says what holds of those.
- `FileByFile`: a formatter or per-file linter finds fault with a set of files when
  it does with one of them. `NamesInputs`: a whole-tree linter sees nothing outside
  of its globs. No "created" in `midRun`: files are not created or moved
  while a check runs. A "quiet" setup is one where nobody saves files during a check; with
  signals in one, `check_interrupted` refutes `ZeroMeansClean`.
- `NamedAbsolutely`: `--working-dir` is not given a relative name. `RealCeilings`: a
  ceiling that follows an empty entry, and is therefore not resolved, names no link;
  through a link it bars nothing, and the empty entry is there to make that so.

TLC evaluates `FileByFile`, `NamesInputs`, `NamedAbsolutely` and `RealCeilings` for
the values of the runs, as assumptions of MCCheckRun and MCStartup; the signatures of
`cache_runs` are computed by `Signatures`.

Exceptions are in the properties, not in hypotheses, where the code cannot tell: what
shares size and second with something earlier (`unsure`, `unnoticed`, `Fresh`).

### The arguments

*RepairPipeline*, under `PipelineAssumption` (the types of the constants, names of
formatters are distinct). `RecordedMeansFormatted` is not inductive: a later
formatter could fail on a file that is recorded already, and a worker could
release a file whose batch it is not through with. `IInv` adds what excludes this:
`OwnedOnce` (the file is in nobody else's hands), `LetGo` (a recorded file is in
nobody's at all) and `JobProgress` (unless its `failed` flag is set, a job has "ok"
for every formatter it has finished, and for every file its current formatter has
finished). The central step is `IInvApply`: after `ApplyFormatter`,
`ChunkProgress` shows that the results of the chunk extend what the job has
achieved, using that the order of formatters has one foremost element
(`ForemostUnique`, from `Compare` being by priority and distinct names), while
`OwnedOnce` keeps the step away from the files of other jobs. Reads, submissions
and the writer only move files along (`IInvNarrow`, `IInvSubmit`, `IInvSchedule`,
`IInvWriter`). `ClosedCorrect` needs `TypeOK` only: the channel is closed after
`eg.Wait`, and nothing is scheduled afterwards.

*Order and exit of the pass.* `PipelineOrder` is about single steps, but a step that
gives a file its first result knows nothing of the results before it. `OrderInv`
does: no formatter has seen a file before its batch is with a worker (`Freshness`),
and a job has results for exactly the formatters it is through with, which all come
before those that are left (`Stepwise`). `HonestExit` speaks of the last state, so
`ExitInv` keeps the books until then. `Ledger`: each accepted file is in a batch or
a job, or done and on its way to the database, or one of the places a failure is
kept in holds one; each file that differs from what was read is still at work,
counted, or covered by a failure. `WalkKnown` says what the loop knows of the unread files, and `Closing`
what is over after each wait of the closing sequence: past `eg.Wait` no job works,
past `formatter.Close` no batch is left, past `Close` the writer has ended and the
channel is drained, or the writer died with an error. `Return` then finds the ledger
settled.

*The refinement* maps a file's status from where it is (`Status`) and the exit code
from `outcome`. RepairPipelineRefinement goes through the actions; its header lists
what each one is in the contract. Most are invisible, and that is the work: a file
that changes hands keeps its status. `ApplyFormatter` is `Finish` for the files of
the last formatter's chunk, or invisible, by `Stepwise`; `Return` is `Succeed` or
`Fail`, and that it is entitled to succeed is `HonestExit`.

*FormatCache*, for any number of processes, formatters, configurations, seconds, edits
and removals of the cache. `TypeInv` has the fields of a run for each of its stages.
`RunTwiceSkips` follows from types and the steps. `LockInv` is the lock: runs with cache
that are past `Open` have different databases open, and none a database newer than the
current one; so of two that format, one has a removed one. `CiInv` follows the
comparison of seconds from the wait at the start of a run to the stat after the
formatters: a file that is not newer than the start has an mtime before the present
second when it is listed, and whoever writes it later moves the mtime up. `KnownInv`
has two halves. `Applied`: an entry that is not `unsure` and fits the file tells what
was applied to it. `Knows`: while nobody writes in between (`sure`) and no formatter
fails, the file is as far as the run is, and after the stat still is as long as size
and second stay. Neither is inductive alone: `Record` turns what a run knows into an
entry. `ListedInv` carries this from the listing to the comparison, and there
`SkipCorrect` needs that one signature means one configuration.

*WalkReaders*, for any number of paths and any listings, batches and buffers. What is
left in a channel is increasing and belongs to the listing so far (`Channels`); a
reader the composite has passed has an empty channel and a goroutine that ended
(`PassedInv`); what was taken is in order and before what is in the channels
(`TakenInv`); every line listed was taken, skipped, or is still in a channel, until
a read fails (`Accounted`); and no gap is behind a file that was taken, unless the
goroutine failed (`Gapless`). Order follows. Completeness needs `ClosedInv`, what
`Close` has seen of the readers: a loop that ends well has looked at each goroutine.
The sequences are handled by the library's theorems and a few lemmas (`Appended`,
`Consumed`); nothing needs induction, as the channel is described by its indices.

*CheckRun*, for any files, tools, setups and batch sizes. `ReadInv` is what a run
knows: what it has in hand is what it saw, what it saw is there, in a version not
newer than the present one (`SeenInv`), and no file of a tree that nobody adds to
has escaped the whole-tree linters (`Gathers`). `TrustInv` is the one on the cache.
`EntrySound` itself is not inductive: a clean run of a linter may be stored for
files that somebody saved meanwhile. Such an entry is `Stale`: some file has a later
version. Hence an entry vouches for its files or is stale (`Trusted`), from the linter's
run to the store, across saves and later checks. The cache knows stamps only, so a
stale entry may fit the tree again; but entries are never newer than the files
(`PastInv`), so then some file has the stamp of an earlier version. If none has
(`Fresh`), equal stamps mean equal files, and a linter that was skipped is `Doubtful`
otherwise.
`Checked` and `Warranted` relate findings to the tree: tool by tool, a file still
waits, was found fault with, or is without fault; and no finding is made up.

*RepairModes*, under `ModesAssumption` (types, and formatters are idempotent), for
any number of files, linters, edits and combination of faults, and any tree root.
The properties speak of the end of a run, so `IInv` says how the run got there,
one conjunct per question, each about files nobody else touched: HEAD and index
are as at the beginning until something is recorded (`HeadKept`), the working tree
is made of what it was by tools and unchanged before they start (`WorkMade`,
`WorkKept`), `pre` is what git said at the beginning (`PreKnown`), `record` is what
the tools changed (`RecordKnown`), what the cache takes for formatted is `Okay`, that
is formatted or in `unnoticed` (`Entries`, across invocations and edits, see
`WrittenEntries`), and so is what the pass is through with (`ScopeKnown`, by
idempotence), the pipe's content is made of its input
(`PipeKnown`), and when a run has ended well, the fixes are where they belong
(`Fixes`). That tools lead from "made of" to "made of" is `MadeOfStep`: `Derived` is
the least set closed under tools, stated without recursion. An edit moves its
file out of every conjunct (`OthersInv`).

*Startup*, for any directories (a tree, by real names: `DirsAssumption`), links and
situations (`WorldsAssumption`: one value per layer and key, repository commands
print real names). Each stage of the set-up leaves a fact for the later ones:
the variables (`EnvInv`), the directory the process is in (`DirInv`), the options as
they follow from the layers (`MergeInv`), the probes that answered or did not
(`ProbeInv`). The config search has two of its own. `AboveInv`: the directory
searched is above the working directory, from which `WholeTreeFromBelow` follows.
`NearInv`: the ceilings leave the directory open, and none between it and the start
holds a config file; when the search stops, it has found the nearest or there is
none. `RealCeilings` enters where the ceilings, resolved one by one, are compared
with the directories above the start.

### What is only model-checked

- `RunReturns` and `ReturnsUnlessStranded`: liveness under fairness, and with it ENABLED, is
  beyond TLAPS.
- What `Signatures` computes: texts are put together by recursion, and what a
  recursive definition yields for every input takes induction over data. That
  configurations which differ in an option differ in their signature is the
  hypothesis of `SkipCorrect`, and computed by TLC in `cache_runs`.
- The violations of section 5, which need one counterexample each.

## 5. What the checks say about the code

Most of what the documents promise holds in the model. Where code and documents
disagree, a run shows it:

- `pipeline_writer_dies`: when a cache transaction fails, `process` returns and
  nobody reads `updateCh` any more (walk/cached.go:110). Once it is full, workers
  block in the release function and the run never returns. As long as the
  channel has room, the run ends, and never with nil (`HonestExit`).
- `walk_close_hangs`: without cache, a loop that stops reading while `filesCh` is
  full waits in `Close` for a goroutine that is blocked on sending to it
  (walk/filesystem.go:72). With a git or jujutsu listing any output that is left
  unread is enough, as an `io.Pipe` holds nothing (walk/git.go:157-170,
  walk/jujutsu.go:123-144). `ReturnsUnlessStranded` says that nothing else hangs.
- `check_interrupted`: an interrupted read is treated like the end of the walk
  (cmd/check.go:194), so an interrupted check exits 0 with files unchecked.
- `modes_staged_subdir`: git prints paths relative to the repository's toplevel;
  `RunStaged` joins them to the tree root (cmd/format/staged.go:106). With a tree
  root in a subdirectory `s`, a staged `s/x` becomes `s/s/x`: the run fails, or, if
  there is such a file, formats that one.
- `startup_relative_dir`: after `changeWorkingDir` has changed to a relative
  `-C s`, `FromViper` makes the same option absolute again (config/config.go:286):
  the working directory is `s/s`, where no repository command can be started.

Further limits, met while modelling, that the passing runs exclude by their
constants, or their properties by a condition on the setup. Each shows up when the
constant is changed or the condition dropped:

| change | what happens |
|---|---|
| `SkipSound` without its exception (`unsure`) | fails: the signature that is recorded comes from a stat after the formatters ran (format/scheduler.go:178-207); a save between them is recorded as formatted |
| `OneAtWork` without its exception | fails: `--no-cache` opens no database, and removing the file removes the lock with it (walk/cache/cache.go:87-90) |
| `cache_runs` with a formatter `ab` with option `c` that becomes `a` with option `bc` | `SkipSound` fails: the parts of the hash have no separators (format/formatter.go:77-91) |
| `ZeroMeansClean` or `EntrySound` without `Fresh` | fail: `wholeTreeSignature` takes mtimes in whole seconds (format/check.go:229-236), so a file saved with its old size within the second leaves the entry valid and hides a finding, although "any added, removed, or modified matched file changes the key" (check.go:212-213) |
| `ConformantAfter` without `unnoticed` | fails: a file saved while it is being formatted is recorded as formatted, and the next invocation skips it and exits 0 |
| `CompleteOrReported` without `~setup.cached` | fails: `CachedReader.Close` does not close the reader below (walk/cached.go:129-141), so the error of a walk that ended early is lost |
| `CompleteOrReported` without `"command" \notin setup.faults`, this fault in the first setup | fails: `CloseWithError` always returns nil (walk/git.go:169) and the scanner's error is not looked at, so a listing command that fails half-way reads like a complete one |
| `check_verdict` with "created" in `midRun` | `EntrySound` fails: the linter sees a file that is not part of the key |
| `OneMeansFinding` without `"signal" \notin setup.faults`, this fault in the first setup | fails: a tool killed by the signal counts as findings (format/linter.go:111) |

What the model says of the code and no property contradicts, but a reader may not
expect:

- Where a config file outside of the working directory and its parents is named, the
  documents say that the tree root is its directory (conformist.toml.5.scd:49-51,
  configure.md:288-289, the flag's help at config/config.go:160-162). The code takes
  the working directory unless the config file is in or above it
  (config.go:452-470). `RootCoversWork` is the rule of the code's comment there; it
  would be false of the documents' rule.
- Keys the config file must not set are 'rejected' there by conformist.toml.5.scd:33-35;
  the code overrides them without a word (`LayersInOrder`).
- `--fail-on-change` goes by size and second: a file rewritten with the same size in
  the second it was last written in does not count, and without `--ci` the run exits 0,
  where conformist.toml.5 says "exit non-zero if any file was changed"
  (walk/walk.go:112-140; `NoChangeMissed` says what is left).
- Overlapping path arguments deliver a file twice (walk/walk.go:294-334). Batches are
  per delivery, so two formatters may work on one path at once, against
  configure.md:490.
- Errors of `loadConfig` end a check with 1 (cmd/check.go:79), where RFC 0001 section 7
  asks for 2.
- A linter that takes one file at a time refuses several (format/linter.go:91) instead
  of being run once per file (RFC 0001, line 140).
- The key of the whole-tree cache has a linter's command as it is written, its options
  and its globs (format/check.go:214-225), not the executable: another version of the
  tool does not make it run again.
- A tool killed by a signal during linter repairs counts as having exited non-zero
  (format/linter.go:109-113); if it was the last of its batch, and the walk was at its
  end, the run goes on to the formatting pass with a cancelled context
  (cmd/format/format.go:266-269).
- An interrupted `--commit` may exit 0 or 3 although files of the tree were not
  formatted (`ConformantAfter` asks for an uninterrupted run, commit.go:24 does not).
- A file somebody saves while `--staged` formats it is restaged with that edit,
  whatever the comment at staged.go:132-134 hopes for; likewise `--commit`.
- `--fail-on-change` does not see what linter repairs changed.
- In repair mode too, a linter that takes one file at a time and matches several
  fails the run (`TooMany`).
- A failing formatter does not keep `--stdin` from printing what it and those before
  it have made of the content by then (walk/stdin.go:62); the exit code is 1.
- `--fail-on-change` with `--commit` exits 1 when both are flags (cobra) and 2 when
  a variable, the config file or `--ci` brings the former in.
- A jujutsu repository that is not found is not fatal under `--walk jujutsu`, as
  config.go:435 tests for git again (configure.md:318-321).
- A working directory reached through a link makes the link the tree root when
  the config file is beside it, and with ceilings set the search leaves the link
  (`RootCoversWork` and `WholeTreeFromBelow` allow for it).
- A relative `--config-file` leaves the tree root at the working directory, as
  `dirContains` gives up on relative names (config.go:605-607).
- A variable that is set to the empty string keeps the legacy one out.
- Tools of a check run in the order of Go maps (format/check.go:107), where RFC
  0001 section 5 asks for priorities; a file saved between its copy into the
  sandbox and the comparison gives a finding that is none (format/sandbox.go:144).

## 6. What is not modelled

- The bytes of file contents, the language of globs, log output, the text of
  findings and statistics, and the CPU profile.
- Executables that are replaced while a run is on: a configuration of FormatCache includes
  them, and a run keeps the one it loaded.
- Of the global excludes, what becomes of such a file in the pass: `SkipUnmatched` passes
  over it like over one that matches nothing, and no run of RepairPipeline has one.
- The schema of the database; an entry is a value per file (FormatCache) or per
  linter (CheckRun).
- Which entries of a listing are files, links or directories: a choice, not
  computed.
- Of the configuration: the check of names, the selection by `--formatters`,
  excludes, `verbose` and `quiet`.
- Of git: renames, trailers, hooks, and what `git status` says of ignored files.
- `version`, `completions`, `genman` and `--init`, which print or write one file;
  generated enumerations; the Nix module, which is declarative.
- Why a run cannot be set up (cache, globs, executables that are missing) is one
  fault in RepairModes and CheckRun. RepairModes leaves `on-unmatched = fatal` to
  RepairPipeline, and takes the linters' pass as one batch: in a tree of more than
  1024 files a linter runs once per batch.

## 7. Plan

Every safety property of the passing runs has its theorem. What is left to prove:

1. CheckRun: which findings survive when files are created during a check, in place
   of excluding it.
2. `FormatContract`: its own promises as theorems about the contract, so that
   `RefinementCorrect` carries them over to the pipeline.

Models: the composition of RepairModes' passes with `FormatContract`, and runs of
check mode between runs of repair mode on one tree.
