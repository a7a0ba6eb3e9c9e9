----------------------------- MODULE FormatCache -----------------------------
(***************************************************************************)
(* The evaluation cache across runs, for one file of the tree: conformist  *)
(* processes start, look the file up, format it, stat it and record it      *)
(* (walk/walk.go, walk/cached.go, walk/cache/cache.go, format/scheduler.go);*)
(* meanwhile the file is edited, the configuration changes, processes are  *)
(* killed, and the cache is cleared.                                       *)
(*                                                                         *)
(* The file's content is reduced to what the cache claims about it: for     *)
(* which configurations how much of the sequence of formatters was applied  *)
(* to it since it was last written otherwise.  Time is in seconds, the      *)
(* precision of the comparison.                                            *)
(***************************************************************************)
EXTENDS Integers, FiniteSets

CONSTANTS
  Procs,       \* conformist processes, each of which runs again and again
  Configs,     \* the formatters of this file, their options and their executables
  SigOf,       \* SigOf[c]: what formattersSignature computes under c
  Sizes,       \* sizes the file may have
  Chain,       \* how many formatters the file goes through
  MaxTime,     \* bound on the clock
  MaxClears,   \* bound on how often the cache is removed
  MaxEvents,   \* bound on how many runs start, saves happen and configurations change
  Flags,       \* command lines in use: [ci, clear]; --ci waits for the next second, no cache
  None         \* no entry, no info, no configuration

Stages == {"off", "waiting", "clearing", "opening", "opened", "listed", "formatting", "posted"}

ASSUME CacheAssumption ==
  /\ Chain \in Nat \ {0} /\ MaxTime \in Nat \ {0} /\ {MaxClears, MaxEvents} \subseteq Nat
  /\ DOMAIN SigOf = Configs
  /\ Sizes \subseteq Nat /\ Sizes # {}
  /\ Flags \subseteq [ci : BOOLEAN, clear : BOOLEAN]

\* What is absent is told apart from what is there.
ASSUME NoneAssumption ==
  /\ None \notin [mtime : Nat, size : Sizes]
  /\ None \notin [formatters : {SigOf[c] : c \in Configs}, mtime : Nat, size : Sizes]

VARIABLES
  now,      \* the clock
  file,     \* the file: mtime, size and what was done to it: <<c, k>> when the first k
            \* formatters of c were applied to what it holds
  cfg,      \* the configuration on disk
  inode,    \* the database file Open finds
  db,       \* db[i]: the file's entry in database i
  run,      \* what each process is doing
  events,   \* how many runs started, saves happened and configurations changed
  settled,  \* history: the configuration whose run recorded the file last,
            \* None once anything happened to the file or the database since
  unsure    \* history: the databases whose entry fits a file written otherwise

history == <<events, settled, unsure>>
vars == <<now, file, cfg, inode, db, run, history>>

Signature(c, info) == [formatters |-> SigOf[c], mtime |-> info.mtime, size |-> info.size]

InfoOf(f) == [mtime |-> f.mtime, size |-> f.size]

\* The configurations whose formatters were all applied to file f.
Full(f) == {c \in Configs : <<c, Chain>> \in f.done}

Off == [at |-> "off"]

Init ==
  /\ now = 1
  /\ \E s \in Sizes : file = [mtime |-> 0, size |-> s, done |-> {}]
  /\ cfg \in Configs
  /\ inode = 0
  /\ db = [i \in 0 .. MaxClears |-> None]
  /\ run = [p \in Procs |-> Off]
  /\ events = 0 /\ settled = None /\ unsure = {}

-----------------------------------------------------------------------------
(* One run of a process.                                                   *)

\* Mutant: CI does not wait.
NoDelay(t, ci) == t

\* When processing may begin: in CI mode not before the next second.
StartAfter(t, ci) == IF ci THEN t + 1 ELSE t

\* Load the configuration; --clear-cache removes the database first.
Start(p) ==
  /\ run[p].at = "off" /\ events < MaxEvents /\ events' = events + 1
  /\ \E f \in Flags :
       run' = [run EXCEPT ![p] = [at |-> "waiting", cfg |-> cfg, ci |-> f.ci, clear |-> f.clear,
                                  began |-> IF f.ci THEN now ELSE 0]]
  /\ UNCHANGED <<now, file, cfg, inode, db, settled, unsure>>

Wake(p) ==
  /\ run[p].at = "waiting" /\ now >= StartAfter(run[p].began, run[p].ci)
  /\ run' = [run EXCEPT ![p] = [at |-> IF run[p].clear THEN "clearing" ELSE "opening",
                                cfg |-> run[p].cfg, ci |-> run[p].ci, began |-> run[p].began]]
  /\ UNCHANGED <<now, file, cfg, inode, db, history>>

\* cache.Remove unlinks the database: whoever has it open keeps using it, and
\* the next Open finds an empty one.
RemoveCache(p) ==
  /\ run[p].at = "clearing" /\ inode < MaxClears
  /\ inode' = inode + 1
  /\ run' = [run EXCEPT ![p].at = "opening"]
  /\ settled' = None
  /\ UNCHANGED <<now, file, cfg, db, events, unsure>>

HasOpen(q, i) ==
  run[q].at \in {"opened", "listed", "formatting", "posted"} /\ run[q].inode = i

\* Mutant: the database is opened without waiting for its lock.
NeverLocked(p) == FALSE

\* Another process holds the lock of the database file.
Locked(p) == \E q \in Procs \ {p} : HasOpen(q, inode)

\* cache.Open, skipped under --no-cache, which CI implies.
Open(p) ==
  /\ run[p].at = "opening"
  /\ run[p].ci \/ ~Locked(p)
  /\ run' = [run EXCEPT ![p] = [at |-> "opened", cfg |-> run[p].cfg, ci |-> run[p].ci,
                                began |-> run[p].began, inode |-> IF run[p].ci THEN -1 ELSE inode]]
  /\ UNCHANGED <<now, file, cfg, inode, db, history>>

\* bolt.Open gives up after a second: the run fails.
OpenTimeout(p) ==
  /\ run[p].at = "opening" /\ ~run[p].ci /\ Locked(p)
  /\ run' = [run EXCEPT ![p] = Off]
  /\ UNCHANGED <<now, file, cfg, inode, db, history>>

\* The walker stats the file, and CachedReader.Read attaches its entry.  The
\* slice bucket.Get returns is used after its transaction ended, when bbolt may
\* have reused the page: it then holds other bytes than a signature of this file.
List(p) ==
  /\ run[p].at = "opened"
  /\ \E entry \in {None} \cup (IF run[p].ci THEN {} ELSE {db[run[p].inode]}) :
       run' = [run EXCEPT ![p] = [at |-> "listed", cfg |-> run[p].cfg, ci |-> run[p].ci,
                                  inode |-> run[p].inode, info |-> InfoOf(file),
                                  cached |-> entry,
                                  old |-> run[p].ci /\ file.mtime <= run[p].began,
                                  sound |-> \/ run[p].cfg \in Full(file)
                                            \/ run[p].inode \in unsure]]
  /\ UNCHANGED <<now, file, cfg, inode, db, history>>

UpToDate(r) == r.cached = Signature(r.cfg, r.info)

\* submit: same signature as the entry, nothing to do.
Skip(p) ==
  /\ run[p].at = "listed" /\ UpToDate(run[p])
  /\ run' = [run EXCEPT ![p] = Off]
  /\ UNCHANGED <<now, file, cfg, inode, db, history>>

Accept(p) ==
  /\ run[p].at = "listed" /\ ~UpToDate(run[p])
  /\ run' = [run EXCEPT ![p] = [at |-> "formatting", cfg |-> run[p].cfg, ci |-> run[p].ci,
                                inode |-> run[p].inode, info |-> run[p].info,
                                old |-> run[p].old, k |-> 0, failed |-> FALSE,
                                wrote |-> FALSE, sure |-> TRUE]]
  /\ UNCHANGED <<now, file, cfg, inode, db, history>>

\* What formatter k+1 of configuration c makes of file f.  A formatter writes
\* only when it changes something (formatter-spec.md, rule 2), never when the
\* whole sequence was already applied to this content.
Formatted(f, c, k, ok, write, s) ==
  LET kept == IF write THEN {} ELSE f.done
  IN  [mtime |-> IF write THEN now ELSE f.mtime,
       size  |-> IF write THEN s ELSE f.size,
       done  |-> IF ok /\ (k = 0 \/ <<c, k>> \in f.done) THEN kept \cup {<<c, k + 1>>}
                 ELSE kept]

MayRecord(r) == ~r.ci /\ ~r.failed

\* The info a posted run computes its signature from.
Recorded(r) == IF r.formatted = None THEN r.info ELSE r.formatted

\* A write of somebody else that run r does not know of and will not tell: between two
\* of its formatters, or after them with the size and in the second it saw.
Overtaken(r, f) ==
  \/ r.at = "formatting" /\ MayRecord(r) /\ r.k > 0
  \/ r.at = "posted" /\ MayRecord(r) /\ Recorded(r) = InfoOf(f)

Told(r, f) == IF Overtaken(r, f) THEN [r EXCEPT !.sure = FALSE] ELSE r

\* The databases whose entry goes on fitting the file when it becomes f.
Fitting(f) == {i \in DOMAIN db : db[i] # None /\ db[i].mtime = f.mtime /\ db[i].size = f.size}

\* Mutant: one formatter too many.
Overrun(r) == r.k <= Chain

MoreToApply(r) == r.k < Chain

Format(p) ==
  /\ run[p].at = "formatting" /\ MoreToApply(run[p])
  /\ \E ok, write \in BOOLEAN, s \in Sizes :
       /\ write => run[p].cfg \notin Full(file)
       /\ ~write => s = file.size
       /\ file' = Formatted(file, run[p].cfg, run[p].k, ok, write, s)
       /\ run' = [q \in Procs |->
                   IF q = p THEN [run[p] EXCEPT !.k = @ + 1, !.failed = @ \/ ~ok,
                                                !.wrote = @ \/ (write /\ run[p].old)]
                   ELSE IF write THEN Told(run[q], file') ELSE run[q]]
       /\ settled' = IF write THEN None ELSE settled
       /\ unsure' = IF write THEN unsure \cup Fitting(file') ELSE unsure
  /\ UNCHANGED <<now, cfg, inode, db, events>>

Differs(a, b) == a.size # b.size \/ a.mtime # b.mtime

\* Stat after the last formatter: the change that is counted, and the info the
\* new signature is computed from.
Stat(p) ==
  /\ run[p].at = "formatting" /\ ~MoreToApply(run[p])
  /\ LET r       == run[p]
         changed == Differs(r.info, file) IN
     run' = [run EXCEPT ![p] =
              [at |-> "posted", cfg |-> r.cfg, ci |-> r.ci, inode |-> r.inode, info |-> r.info,
               old |-> r.old, changed |-> changed,
               formatted |-> IF changed THEN InfoOf(file) ELSE None,
               failed |-> r.failed, wrote |-> r.wrote, sure |-> r.sure]]
  /\ UNCHANGED <<now, file, cfg, inode, db, history>>

\* Mutant: the signature of the file as it was read.
SignatureAsRead(r) == Signature(r.cfg, r.info)

\* File.NewFormatSignature.
NewSignature(r) == Signature(r.cfg, Recorded(r))

\* The cache writer commits the entry and the run ends; a failed batch or a run
\* without cache ends without.
Record(p) ==
  /\ run[p].at = "posted"
  /\ IF MayRecord(run[p])
     THEN /\ db' = [db EXCEPT ![run[p].inode] = NewSignature(run[p])]
          /\ settled' = IF ~Differs(file, Recorded(run[p])) /\ run[p].inode = inode
                        THEN run[p].cfg ELSE None
          /\ unsure' = IF run[p].sure THEN unsure \ {run[p].inode}
                       ELSE unsure \cup {run[p].inode}
     ELSE UNCHANGED <<db, settled, unsure>>
  /\ run' = [run EXCEPT ![p] = Off]
  /\ UNCHANGED <<now, file, cfg, inode, events>>

\* The process is killed; the database keeps what was committed.
Crash(p) ==
  /\ run[p].at # "off"
  /\ run' = [run EXCEPT ![p] = Off]
  /\ UNCHANGED <<now, file, cfg, inode, db, history>>

-----------------------------------------------------------------------------
(* Everybody else.                                                         *)

\* Somebody saves the file.
Edit ==
  /\ events < MaxEvents /\ events' = events + 1
  /\ \E s \in Sizes : file' = [mtime |-> now, size |-> s, done |-> {}]
  /\ run' = [p \in Procs |-> Told(run[p], file')]
  /\ unsure' = unsure \cup Fitting(file')
  /\ settled' = None
  /\ UNCHANGED <<now, cfg, inode, db>>

\* A run keeps the configuration it loaded.
Reconfigure ==
  /\ events < MaxEvents /\ events' = events + 1
  /\ \E c \in Configs \ {cfg} : cfg' = c
  /\ UNCHANGED <<now, file, inode, db, run, settled, unsure>>

Tick ==
  /\ now < MaxTime /\ now' = now + 1
  /\ UNCHANGED <<file, cfg, inode, db, run, history>>

RunStep(p) ==
  \/ Start(p) \/ Wake(p) \/ RemoveCache(p) \/ Open(p) \/ OpenTimeout(p) \/ List(p) \/ Skip(p)
  \/ Accept(p) \/ Format(p) \/ Stat(p) \/ Record(p)

Next == Edit \/ Reconfigure \/ Tick \/ \E p \in Procs : RunStep(p) \/ Crash(p)

Spec == Init /\ [][Next]_vars

-----------------------------------------------------------------------------
(* Properties.                                                             *)

\* Every variable has its type; no run applies more than its Chain formatters.
TypeOK ==
  /\ now \in 1 .. MaxTime
  /\ file \in [mtime : 0 .. now, size : Sizes, done : SUBSET (Configs \X (1 .. Chain))]
  /\ cfg \in Configs /\ inode \in 0 .. MaxClears
  /\ \A i \in DOMAIN db : db[i] # None =>
       db[i] \in [formatters : {SigOf[c] : c \in Configs}, mtime : 0 .. now, size : Sizes]
  /\ \A p \in Procs : /\ run[p].at \in Stages
                      /\ run[p].at = "formatting" => run[p].k \in 0 .. Chain
  /\ events \in 0 .. MaxEvents /\ settled \in Configs \cup {None} /\ unsure \subseteq DOMAIN db

\* scheduler.go:116-118: "We know from the hash signature that we have already
\* applied this sequence of formatters (and their config) to this file."  A run
\* skips the file only if that is so of the content it listed - unless somebody wrote
\* to the file between two formatters of the run that recorded it, or in the recorded
\* second and with the recorded size, which nothing in the entry tells.
SkipSound ==
  \A p \in Procs : run[p].at = "listed" /\ UpToDate(run[p]) => run[p].sound

\* Nothing to do twice: once a run recorded the file and nothing touched it, the
\* entry is the one that makes the next run under this configuration skip it.
RunTwiceSkips == settled # None => db[inode] = Signature(settled, InfoOf(file))

\* format.go:48-50 "to ensure our EPOCH level modtime comparisons for change
\* detection are accurate": in CI mode no formatter's write goes unnoticed to a file
\* nobody wrote after the run began, whoever writes to it while the run is on.
ChangeSeen ==
  \A p \in Procs :
    run[p].at = "posted" /\ run[p].ci /\ run[p].wrote => run[p].changed

\* configure.md:490 "guarantees only one formatter will be operating on a given
\* file at any point in time": when two processes are formatting at once, one of them
\* runs without a cache or the cache was removed under one of them; otherwise the lock
\* of the database (cache.go:46) keeps the second away from the tree.
OneAtWork ==
  \A p, q \in Procs : run[p].at = "formatting" /\ run[q].at = "formatting" /\ p # q =>
    \E r \in {run[p], run[q]} : r.ci \/ r.inode < inode
=============================================================================
