--------------------------- MODULE RepairPipeline ---------------------------
(***************************************************************************)
(* The formatting pass of one `conformist` run (repair mode): the main     *)
(* goroutine reads batches of files and matches each to its formatters     *)
(* (cmd/format/format.go, format/composite.go), the scheduler groups files *)
(* by formatter sequence and runs full groups on a bounded pool of workers *)
(* (format/scheduler.go), and released files travel through a bounded      *)
(* channel to the goroutine that writes the cache (walk/cached.go).        *)
(*                                                                         *)
(* The walker's Read is taken at its interface (what it may return); the   *)
(* readers themselves are in WalkReaders.  What a formatter does is left   *)
(* open: it succeeds or fails, and rewrites any of the files it was given. *)
(***************************************************************************)
EXTENDS Integers, FiniteSets

CONSTANTS
  Files,          \* the walk.File values the walker delivers in this run
  Formatters,     \* the configured formatters
  Workers,        \* the errgroup's slots, runtime.NumCPU() of them
  Wants,          \* Wants[f]: the formatters whose patterns match f
  Priority,       \* Priority[g]: the configured priority
  Rank,           \* Rank[g]: position of g's name in lexicographic order
  NoPositional,   \* the formatters with no-positional-arg-support
  Rewriters,      \* the formatters that find something to rewrite
  Excluded,       \* the files matched by the global excludes
  FatalUnmatched, \* whether on-unmatched is "fatal": the settings considered
  FailOnChange,   \* --fail-on-change
  UseCache,       \* FALSE under --no-cache
  BatchSize,      \* format.BatchSize
  CacheBatch,     \* walk.BatchSize
  Faults          \* the failures the environment may produce

FaultKinds == {"format", "stat", "hash", "read", "deadline", "interrupt", "db"}

ASSUME PipelineAssumption ==
  /\ IsFiniteSet(Files)
  /\ Wants \in [Files -> SUBSET Formatters]
  /\ Priority \in [Formatters -> Int]
  /\ Rank \in [Formatters -> Int]
  /\ \A g, h \in Formatters : Rank[g] = Rank[h] => g = h
  /\ NoPositional \cup Rewriters \subseteq Formatters
  /\ Excluded \subseteq Files
  /\ {FailOnChange, UseCache} \cup FatalUnmatched \subseteq BOOLEAN
  /\ BatchSize \in Nat \ {0} /\ CacheBatch \in Nat \ {0}
  /\ Faults \subseteq FaultKinds

VARIABLES
  pc,          \* where the main goroutine is
  unread,      \* files the walker has not delivered yet
  inbox,       \* files of the current Read that Apply has still to look at
  readErr,     \* the error of the last Read
  formatErr,   \* Apply returned an error
  cancelled,   \* a signal cancelled the context
  fatal,       \* on-unmatched is "fatal" in this run
  cached,      \* files whose stored signature matched when they were read
  batches,     \* scheduler.batches, by formatter set
  job,         \* what each worker runs
  result,      \* result[f][g]: how applying g to f went
  differs,     \* files whose size or second of modification is not what Read saw
  formatError, \* scheduler.formatError
  egErr,       \* a worker returned an error
  stats,       \* the counters of stats.Stats
  updateCh,    \* CachedReader.updateCh
  wbuf,        \* the cache writer's batch
  writer,      \* the cache writer: "running", "done" or "failed"
  db,          \* files whose current signature is in the database
  outcome      \* what Run returned

mainVars   == <<pc, unread, inbox, readErr, formatErr>>
workVars   == <<job, result, differs, formatError, egErr>>
writerVars == <<updateCh, wbuf, writer, db>>
given      == <<fatal, cached>>
vars == <<mainVars, cancelled, given, batches, workVars, stats, writerVars, outcome>>

-----------------------------------------------------------------------------
(* Formatter order and batch keys.                                         *)

\* Mutant: ties and priorities both left to the name.
CompareNamesOnly(a, b) == Rank[a] - Rank[b]

\* formatterSortFunc: by priority, then by name.
Compare(a, b) ==
  LET byPriority == Priority[a] - Priority[b]
  IN  IF byPriority = 0 THEN Rank[a] - Rank[b] ELSE byPriority

Before(a, b) == Compare(a, b) < 0

Foremost(g, S) == g \in S /\ \A h \in S \ {g} : Before(g, h)

\* A batch key names a sequence of formatters; as the sequence is sorted, the
\* set of formatters identifies it.
Keys == (SUBSET Formatters) \ {{}}

\* The lists of files one formatter is run with: all the batch, or one by one.
Chunks(g, todo) == IF g \in NoPositional THEN {{f} : f \in todo} ELSE {todo}

Full(batch) == Cardinality(batch) = BatchSize

UpdateChCapacity == CacheBatch * Cardinality(Workers)

Counters == {"matched", "formatted", "changed"}

\* stats.Add, an atomic addition.
Count(counter, n) == stats' = [stats EXCEPT ![counter] = @ + n]

-----------------------------------------------------------------------------
(* Jobs: one call of the closure passed to eg.Go.                          *)

Idle == [stage |-> "idle", key |-> {}, batch |-> {}, left |-> {}, todo |-> {},
         failed |-> FALSE]

NewJob(key, batch) ==
  [stage |-> "format", key |-> key, batch |-> batch, left |-> key, todo |-> batch,
   failed |-> FALSE]

\* Mutant: only the last formatter's failure is remembered.
LastFailureOnly(j, g, chunk, ok) ==
  LET rest == j.todo \ chunk
  IN  [j EXCEPT !.left = IF rest = {} THEN @ \ {g} ELSE @,
                !.todo = IF rest = {} THEN j.batch ELSE rest,
                !.failed = ~ok]

\* The job after formatter g, the foremost of left, handled chunk: the next
\* chunk of the same formatter, or the whole batch for the next formatter.
AfterChunk(j, g, chunk, ok) ==
  LET rest == j.todo \ chunk
  IN  [j EXCEPT !.left = IF rest = {} THEN @ \ {g} ELSE @,
                !.todo = IF rest = {} THEN j.batch ELSE rest,
                !.failed = @ \/ ~ok]

Posting(j) == [j EXCEPT !.stage = "post"]

\* Mutant: the worker keeps its slot after its last file.
KeepSlot(j, f) == [j EXCEPT !.todo = @ \ {f}]

AfterRelease(j, f) == IF j.todo = {f} THEN Idle ELSE [j EXCEPT !.todo = @ \ {f}]

\* Mutant: the release context ignores that the batch had errors.
NeverNoCache(failed) == FALSE

\* The no-cache flag of the release context.
NoCache(failed) == failed

AllIdle == \A w \in Workers : job[w].stage = "idle"

-----------------------------------------------------------------------------
(* The main goroutine: format.Run and, inside it, CompositeFormatter.Apply. *)

Init ==
  /\ pc = "read"
  /\ unread = Files /\ inbox = {}
  /\ readErr = "none" /\ formatErr = FALSE /\ cancelled = FALSE
  /\ fatal \in FatalUnmatched
  /\ cached \in (IF UseCache THEN SUBSET {f \in Files : Wants[f] # {}} ELSE {{}})
  /\ batches = [k \in Keys |-> {}]
  /\ job = [w \in Workers |-> Idle]
  /\ result = [f \in Files |-> [g \in Formatters |-> "none"]]
  /\ differs = {}
  /\ formatError = FALSE /\ egErr = FALSE
  /\ stats = [c \in Counters |-> 0]
  /\ updateCh = {} /\ wbuf = {}
  /\ writer = IF UseCache THEN "running" ELSE "done"
  /\ db = cached
  /\ outcome = "none"

\* What walker.Read may return: a full batch; fewer files where the reader of
\* one path ends (CompositeReader turns its EOF into nil); the last files, less
\* than a batch and often none, together with EOF; or the files it had when an
\* error stopped it.
Delivers(chunk, err) ==
  /\ Cardinality(chunk) <= BatchSize
  /\ \/ err = "none" /\ chunk # {}
     \/ err = "eof" /\ chunk = unread /\ Cardinality(chunk) < BatchSize
     \/ err = "canceled" /\ cancelled /\ Cardinality(chunk) < BatchSize
     \/ err = "deadline" /\ "deadline" \in Faults /\ Cardinality(chunk) < BatchSize
     \/ err = "other" /\ "read" \in Faults /\ Cardinality(chunk) < BatchSize

Read ==
  /\ pc = "read"
  /\ \E chunk \in SUBSET unread, err \in {"none", "eof", "canceled", "deadline", "other"} :
       /\ Delivers(chunk, err)
       /\ inbox' = chunk /\ unread' = unread \ chunk /\ readErr' = err
  /\ pc' = "apply"
  /\ UNCHANGED <<formatErr, cancelled, given, batches, workVars, stats, writerVars, outcome>>

\* No formatter is asked for: globally excluded, or no match and not fatal.
SkipUnmatched(f) ==
  /\ pc = "apply" /\ f \in inbox
  /\ f \in Excluded \/ (Wants[f] = {} /\ ~fatal)
  /\ inbox' = inbox \ {f}
  /\ UNCHANGED <<pc, unread, readErr, formatErr, cancelled, given, batches, workVars,
                 stats, writerVars, outcome>>

\* Apply fails on f, which stops the loop of Run: unmatched and fatal, or the
\* signature of f's formatters cannot be computed.  A signature is computed
\* for the first file of its key only.
FirstOfKey(f) ==
  \A e \in Files \ (unread \cup inbox \cup Excluded) : Wants[e] # Wants[f]

Abort(f) ==
  /\ pc = "apply" /\ f \in inbox \ Excluded
  /\ \/ Wants[f] = {} /\ fatal /\ UNCHANGED stats
     \/ /\ Wants[f] # {} /\ "hash" \in Faults /\ FirstOfKey(f)
        /\ Count("matched", 1)
  /\ formatErr' = TRUE /\ pc' = "close"
  /\ UNCHANGED <<unread, inbox, readErr, cancelled, given, batches, workVars, writerVars,
                 outcome>>

\* submit: the stored signature is the current one, nothing to do.
SkipCached(f) ==
  /\ pc = "apply" /\ f \in inbox \ Excluded
  /\ Wants[f] # {} /\ f \in cached
  /\ inbox' = inbox \ {f}
  /\ Count("matched", 1)
  /\ UNCHANGED <<pc, unread, readErr, formatErr, cancelled, given, batches, workVars,
                 writerVars, outcome>>

\* submit: append to the batch of f's key; a full batch is scheduled next.
Submit(f) ==
  /\ pc = "apply" /\ f \in inbox \ Excluded
  /\ Wants[f] # {} /\ f \notin cached
  /\ inbox' = inbox \ {f}
  /\ Count("matched", 1)
  /\ batches' = [batches EXCEPT ![Wants[f]] = @ \cup {f}]
  /\ pc' = IF Full(batches'[Wants[f]]) THEN "handoff" ELSE "apply"
  /\ UNCHANGED <<unread, readErr, formatErr, cancelled, given, workVars, writerVars, outcome>>

\* Mutant: the batch is not reset once it is scheduled.
KeepBatch(bs, k) == bs

\* The batch of k is reset to an empty one.
Emptied(bs, k) == [bs EXCEPT ![k] = {}]

\* schedule: eg.Go blocks until a worker is free.  In submit the full batch is
\* scheduled and reset; in close every batch that is left, in map order.
Schedule(k, w) ==
  /\ job[w].stage = "idle"
  /\ \/ pc = "handoff" /\ Full(batches[k]) /\ pc' = "apply"
     \/ pc = "close" /\ batches[k] # {} /\ UNCHANGED pc
  /\ job' = [job EXCEPT ![w] = NewJob(k, batches[k])]
  /\ batches' = Emptied(batches, k)
  /\ UNCHANGED <<unread, inbox, readErr, formatErr, cancelled, given, result, differs,
                 formatError, egErr, stats, writerVars, outcome>>

\* Apply returned nil: read again, or stop on the read error.
EndApply ==
  /\ pc = "apply" /\ inbox = {}
  /\ pc' = IF readErr = "none" THEN "read" ELSE "close"
  /\ UNCHANGED <<unread, inbox, readErr, formatErr, cancelled, given, batches, workVars,
                 stats, writerVars, outcome>>

\* Mutant: formatter.Close does not wait for the workers.
NoWait == TRUE

WorkersDone == AllIdle

\* formatter.Close returns from eg.Wait; walker.Close then closes updateCh.
CloseFormatter ==
  /\ pc = "close" /\ \A k \in Keys : batches[k] = {}
  /\ WorkersDone
  /\ pc' = "drain"
  /\ UNCHANGED <<unread, inbox, readErr, formatErr, cancelled, given, batches, workVars,
                 stats, writerVars, outcome>>

\* Mutant: walker.Close does not close the channel.
NeverClosed == FALSE

UpdateChClosed == pc \in {"drain", "returned"}

\* Mutant: close reports what eg.Wait returned and forgets formatError.
EgErrOnly == egErr

CloseErr == egErr \/ formatError

\* Mutant: the change check is left out when the walk reached its end.
IgnoreChanges == readErr # "eof" /\ FailOnChange /\ stats["changed"] # 0

ChangeErr == FailOnChange /\ stats["changed"] # 0

\* The switch at the end of Run, in the order of the code.
Outcome ==
  IF readErr \in {"deadline", "other"} THEN "read error"
  ELSE IF formatErr THEN "format error"
  ELSE IF CloseErr THEN "close error"
  ELSE IF writer = "failed" THEN "cache error"
  ELSE IF ChangeErr THEN "changed" ELSE "ok"

\* walker.Close waited for the cache writer; Run returns.
Return ==
  /\ pc = "drain" /\ writer # "running"
  /\ outcome' = Outcome
  /\ pc' = "returned"
  /\ UNCHANGED <<unread, inbox, readErr, formatErr, cancelled, given, batches, workVars,
                 stats, writerVars>>

\* SIGINT or SIGTERM: the goroutine that listens cancels the context.
Interrupt ==
  /\ "interrupt" \in Faults /\ ~cancelled /\ pc # "returned"
  /\ cancelled' = TRUE
  /\ UNCHANGED <<mainVars, given, batches, workVars, stats, writerVars, outcome>>

-----------------------------------------------------------------------------
(* A worker: the closure of scheduler.schedule.                            *)

\* Formatter.Apply: g ran on the files of chunk, ended well or not, and may have
\* rewritten any of them.  A rewrite need not show: File.Stat compares the size and the
\* modification time in whole seconds, and both may be what they were.
RunOn(w, g, chunk, ok) ==
  /\ IF g \in Rewriters
     THEN \E showing \in SUBSET chunk : differs' = (differs \ chunk) \cup showing
     ELSE UNCHANGED differs
  /\ result' = [f \in Files |-> IF f \in chunk
                  THEN [result[f] EXCEPT ![g] = IF ok THEN "ok" ELSE "err"]
                  ELSE result[f]]
  /\ job' = [job EXCEPT ![w] = AfterChunk(@, g, chunk, ok)]

\* The next call of Apply.  A failed formatter does not stop the next ones; a
\* cancelled context interrupts the process.
ApplyFormatter(w) ==
  /\ job[w].stage = "format"
  /\ \E g \in job[w].left, ok \in BOOLEAN :
       /\ Foremost(g, job[w].left)
       /\ ok \/ "format" \in Faults \/ cancelled
       /\ \E chunk \in Chunks(g, job[w].todo) : RunOn(w, g, chunk, ok)
  /\ UNCHANGED <<mainVars, cancelled, given, batches, formatError, egErr, stats, writerVars,
                 outcome>>

FormattedBy(j) == IF j.failed THEN 0 ELSE Cardinality(j.batch)

\* All formatters ran: record the failure, or count the batch as formatted.
EndFormat(w) ==
  /\ job[w].stage = "format" /\ job[w].left = {}
  /\ job' = [job EXCEPT ![w] = Posting(@)]
  /\ formatError' = (formatError \/ job[w].failed)
  /\ Count("formatted", FormattedBy(job[w]))
  /\ UNCHANGED <<mainVars, cancelled, given, batches, result, differs, egErr, writerVars,
                 outcome>>

\* file.Stat failed: the worker returns and releases none of what is left.
StatError(w) ==
  /\ job[w].stage = "post" /\ "stat" \in Faults
  /\ job' = [job EXCEPT ![w] = Idle]
  /\ egErr' = TRUE
  /\ UNCHANGED <<mainVars, cancelled, given, batches, result, differs, formatError, stats,
                 writerVars, outcome>>

\* Stat f, count a change and release f.  The cached reader's release function
\* sends f to updateCh, and blocks while the channel is full.
PostFile(w) ==
  /\ job[w].stage = "post"
  /\ \E f \in job[w].todo :
       /\ Count("changed", IF f \in differs THEN 1 ELSE 0)
       /\ job' = [job EXCEPT ![w] = AfterRelease(@, f)]
       /\ IF UseCache /\ ~NoCache(job[w].failed)
          THEN /\ Cardinality(updateCh) < UpdateChCapacity
               /\ updateCh' = updateCh \cup {f}
          ELSE UNCHANGED updateCh
  /\ UNCHANGED <<mainVars, cancelled, given, batches, result, differs, formatError, egErr,
                 wbuf, writer, db, outcome>>

-----------------------------------------------------------------------------
(* The cache writer: CachedReader.process.                                 *)

Take ==
  /\ writer = "running" /\ Cardinality(wbuf) < CacheBatch
  /\ \E f \in updateCh : updateCh' = updateCh \ {f} /\ wbuf' = wbuf \cup {f}
  /\ UNCHANGED <<mainVars, cancelled, given, batches, workVars, stats, writer, db, outcome>>

LastFlush == UpdateChClosed /\ updateCh = {}

\* flush in one transaction: a full batch, or what is left when the channel is
\* closed.  When it fails nothing is written and the goroutine returns.
Flush ==
  /\ writer = "running"
  /\ Cardinality(wbuf) = CacheBatch \/ LastFlush
  /\ \/ /\ db' = db \cup wbuf /\ wbuf' = {}
        /\ writer' = IF Cardinality(wbuf) < CacheBatch THEN "done" ELSE writer
     \/ /\ "db" \in Faults /\ wbuf # {}
        /\ writer' = "failed" /\ UNCHANGED <<db, wbuf>>
  /\ UNCHANGED <<mainVars, cancelled, given, batches, workVars, stats, updateCh, outcome>>

-----------------------------------------------------------------------------
Done == pc = "returned" /\ UNCHANGED vars

Main ==
  \/ Read \/ EndApply \/ CloseFormatter \/ Return
  \/ \E f \in Files : SkipUnmatched(f) \/ Abort(f) \/ SkipCached(f) \/ Submit(f)
  \/ \E k \in Keys, w \in Workers : Schedule(k, w)

Work(w) == ApplyFormatter(w) \/ EndFormat(w) \/ StatError(w) \/ PostFile(w)

Next == Main \/ Interrupt \/ (\E w \in Workers : Work(w)) \/ Take \/ Flush \/ Done

\* Every goroutine that can run is run, and every external process ends.
Fairness ==
  /\ WF_vars(Main)
  /\ \A w \in Workers : WF_vars(Work(w))
  /\ WF_vars(Take \/ Flush)

Spec == Init /\ [][Next]_vars

FairSpec == Spec /\ Fairness

-----------------------------------------------------------------------------
(* Properties.                                                             *)

JobOK(j) ==
  \/ j = Idle
  \/ /\ j \in [stage : {"format", "post"}, key : Keys, batch : SUBSET Files,
               left : SUBSET Formatters, todo : SUBSET Files, failed : BOOLEAN]
     /\ j.left \subseteq j.key /\ j.todo \subseteq j.batch /\ j.todo # {}
     /\ j.stage = "post" => j.left = {}

\* Every variable has its type; a worker that holds a slot has files left to
\* handle (scheduler.go:140-211 returns, and frees the slot, after the last one).
TypeOK ==
  /\ pc \in {"read", "apply", "handoff", "close", "drain", "returned"}
  /\ unread \subseteq Files /\ inbox \subseteq Files
  /\ readErr \in {"none", "eof", "canceled", "deadline", "other"}
  /\ {formatErr, cancelled, formatError, egErr} \subseteq BOOLEAN
  /\ fatal \in BOOLEAN /\ cached \subseteq Files
  /\ batches \in [Keys -> SUBSET Files]
  /\ DOMAIN job = Workers /\ \A w \in Workers : JobOK(job[w])
  /\ result \in [Files -> [Formatters -> {"none", "ok", "err"}]]
  /\ differs \subseteq Files
  /\ stats \in [Counters -> Nat]
  /\ updateCh \subseteq Files /\ wbuf \subseteq Files /\ db \subseteq Files
  /\ writer \in {"running", "done", "failed"}
  /\ outcome \in {"none", "ok", "read error", "format error", "close error", "cache error",
                  "changed"}

FullyFormatted(f) == \A g \in Wants[f] : result[f][g] = "ok"

Recorded == updateCh \cup wbuf \cup db

\* A file whose signature is in the cache, or on its way there, either had it
\* before this run or was successfully handled by every formatter that wants
\* it: an entry is what lets the next run skip the file (scheduler.go:113-119).
RecordedMeansFormatted == \A f \in Recorded \ cached : FullyFormatted(f)

\* A file is in one place at a time - still to be read, in Apply's slice, in one
\* pending batch, or with one worker - so no two workers ever share a file and
\* none is formatted twice (scheduler.go:126-134 hands a batch over by reference
\* and replaces it).
OwnedOnce ==
  /\ unread \cap inbox = {}
  /\ \A k \in Keys : batches[k] \cap (unread \cup inbox) = {}
  /\ \A k \in Keys : \A f \in batches[k] : Wants[f] = k
  /\ \A w \in Workers : job[w].batch \cap (unread \cup inbox) = {}
  /\ \A w \in Workers, k \in Keys : job[w].batch \cap batches[k] = {}
  /\ \A v, w \in Workers : v # w => job[v].batch \cap job[w].batch = {}

\* What a worker has achieved so far: all files of its batch want exactly the
\* formatters of its key, and unless a formatter failed every one it is through
\* with succeeded on every file (scheduler.go:144-161).  A file on its way to
\* the cache is in nobody's hands any more.
JobProgress(j) ==
  /\ \A f \in j.batch : Wants[f] = j.key
  /\ ~j.failed => \A f \in j.batch : \A g \in j.key :
       g \notin j.left \/ (Foremost(g, j.left) /\ f \notin j.todo) => result[f][g] = "ok"

LetGo(f) ==
  /\ f \notin unread \cup inbox
  /\ \A k \in Keys : f \notin batches[k]
  /\ \A w \in Workers : job[w].stage = "format" => f \notin job[w].batch

ProgressKept ==
  /\ \A w \in Workers : JobProgress(job[w])
  /\ \A f \in Recorded \ cached : LetGo(f)

\* No worker is left to send on updateCh once it is closed, on any error path:
\* a send on a closed channel panics (cached.go:110,132, format.go:172-176).
NoSendOnClosed ==
  UpdateChClosed => \A w \in Workers : job[w].stage = "idle"

Accepted ==
  {f \in Files \ (unread \cup inbox \cup Excluded \cup cached) : Wants[f] # {}}

\* When Run returns nil, every file it accepted went through all its formatters
\* and is recorded, no failure was dropped on the way, and unless a signal
\* stopped the walk every file was looked at (format.go:183-216).
HonestExit ==
  outcome = "ok" =>
    /\ inbox = {}
    /\ unread = {} \/ cancelled
    /\ \A f \in Accepted : FullyFormatted(f)
    /\ UseCache => Accepted \subseteq db

\* A run with --fail-on-change that returns nil leaves every file with the size
\* and the second of modification it was read with, whichever worker, chunk or
\* formatter had it and whatever stopped the walk (conformist.toml.5: "When
\* true, exit non-zero if any file was changed.").  That a rewrite moves the
\* second is what --ci waits for: ChangeSeen of FormatCache.
NoChangeMissed == outcome = "ok" /\ FailOnChange => differs = {}

\* The formatters of a file run in ascending order of priority and name, each
\* at most once per file, and never again after the cache entry is on its way
\* (configure.md:484-488, scheduler.go:144-158).
PipelineOrder ==
  [][\A f \in Files, g \in Formatters :
       result'[f][g] # result[f][g] =>
         /\ result[f][g] = "none"
         /\ f \notin Recorded
         /\ \A h \in Wants[f] :
              LET first == Priority[h] < Priority[g]
                             \/ (Priority[h] = Priority[g] /\ Rank[h] < Rank[g])
              IN  (result[f][h] # "none") <=> first]_vars

\* How far file f is, in the terms of FormatContract.
Status(f) ==
  IF f \in unread \cup inbox THEN "waiting"
  ELSE IF f \in Excluded \cup cached \/ Wants[f] = {} THEN "skipped"
  ELSE IF \E g \in Wants[f] : result[f][g] = "none" THEN "working"
  ELSE IF FullyFormatted(f) THEN "formatted" ELSE "failed"

Contract == INSTANCE FormatContract WITH
  Ignored     <- {f \in Files : f \in Excluded \/ Wants[f] = {}},
  status      <- [f \in Files |-> Status(f)],
  recorded    <- db,
  interrupted <- cancelled,
  exit        <- IF outcome \in {"none", "ok"} THEN outcome ELSE "error"

\* The run does what FormatContract promises: batching, the worker pool, the
\* channel and the cache writer are invisible from the outside.
ImplementsContract == Contract!Spec

\* Run returns, whatever fails in between (format.go:172-216).
RunReturns == <>(pc = "returned")
=============================================================================
