------------------------ MODULE RepairPipelineProofs ------------------------
(***************************************************************************)
(* Theorems about RepairPipeline for every set of files, formatters and    *)
(* workers, every batch size and every combination of failures.            *)
(***************************************************************************)
EXTENDS RepairPipeline, FiniteSetTheorems, TLAPS

USE DEF Keys

-----------------------------------------------------------------------------
(* Type correctness.                                                       *)

\* No job of any kind is in the idle stage but Idle.
LEMMA JobStages ==
  ASSUME NEW j, JobOK(j), j.stage # "idle"
  PROVE  /\ j \in [stage : {"format", "post"}, key : Keys, batch : SUBSET Files,
                   left : SUBSET Formatters, todo : SUBSET Files, failed : BOOLEAN]
         /\ j.left \subseteq j.key /\ j.todo \subseteq j.batch /\ j.todo # {}
         /\ j.stage = "post" => j.left = {}
  BY DEF JobOK, Idle

\* A formatter is given files of its batch.
LEMMA ChunkOf ==
  ASSUME NEW g, NEW todo, NEW chunk \in Chunks(g, todo)
  PROVE  chunk \subseteq todo
  BY DEF Chunks

\* The fields of any job.
LEMMA JobFields ==
  ASSUME NEW j, JobOK(j)
  PROVE  /\ j.batch \subseteq Files /\ j.todo \subseteq Files /\ j.todo \subseteq j.batch
         /\ j.left \subseteq Formatters /\ j.left \subseteq j.key
         /\ j.failed \in BOOLEAN
         /\ j.stage \in {"idle", "format", "post"}
         /\ j.stage # "format" => j.left = {}
         /\ j.stage = "idle" => j.batch = {} /\ j.todo = {}
<1>1. CASE j = Idle
  BY <1>1 DEF Idle
<1>2. CASE j.stage # "idle"
  BY <1>2, JobStages
<1> QED
  BY <1>1, <1>2 DEF JobOK

LEMMA IdleOK == JobOK(Idle)
  BY DEF JobOK

\* A new job of a non-empty batch is well formed.
LEMMA NewJobOK ==
  ASSUME NEW k \in Keys, NEW b \in SUBSET Files, b # {}
  PROVE  JobOK(NewJob(k, b))
  BY DEF JobOK, NewJob

\* Handling a non-empty chunk keeps a formatting job well formed.
LEMMA AfterChunkOK ==
  ASSUME NEW j, JobOK(j), j.stage = "format", NEW g \in j.left,
         NEW chunk \in SUBSET j.todo, NEW ok \in BOOLEAN
  PROVE  JobOK(AfterChunk(j, g, chunk, ok)) /\ AfterChunk(j, g, chunk, ok).stage = "format"
  BY JobStages DEF JobOK, AfterChunk

LEMMA PostingOK ==
  ASSUME NEW j, JobOK(j), j.stage = "format", j.left = {}
  PROVE  JobOK(Posting(j)) /\ Posting(j).stage = "post"
  BY JobStages DEF JobOK, Posting

LEMMA AfterReleaseOK ==
  ASSUME NEW j, JobOK(j), j.stage = "post", NEW f \in j.todo
  PROVE  JobOK(AfterRelease(j, f))
<1>1. CASE j.todo = {f}
  BY <1>1, IdleOK DEF AfterRelease
<1>2. CASE j.todo # {f}
  <2>1. j.todo \ {f} # {}
    BY <1>2
  <2> QED
    BY <1>2, <2>1, JobStages DEF AfterRelease, JobOK
<1> QED
  BY <1>1, <1>2

\* What a chunk is made of.
LEMMA ChunkInTodo ==
  ASSUME NEW g, NEW todo, NEW chunk \in Chunks(g, todo)
  PROVE  chunk \in SUBSET todo
  BY DEF Chunks

LEMMA FinitelyManyFiles == IsFiniteSet(Files)
  BY PipelineAssumption

\* Counting keeps the counters natural numbers.
LEMMA CountType ==
  ASSUME NEW c \in Counters, NEW n \in Nat, stats \in [Counters -> Nat], Count(c, n)
  PROVE  stats' \in [Counters -> Nat]
  BY DEF Count, Counters

LEMMA TypeInit == Init => TypeOK
<1> SUFFICES ASSUME Init PROVE TypeOK
  OBVIOUS
<1>1. cached \subseteq Files /\ db \subseteq Files
  BY DEF Init
<1>2. DOMAIN job = Workers /\ \A w \in Workers : JobOK(job[w])
  BY IdleOK DEF Init
<1>3. stats \in [Counters -> Nat]
  BY DEF Init
<1>4. result \in [Files -> [Formatters -> {"none", "ok", "err"}]]
  BY DEF Init
<1>5. batches \in [Keys -> SUBSET Files]
  BY DEF Init
<1>6. fatal \in BOOLEAN
  BY PipelineAssumption DEF Init
<1> QED
  BY <1>1, <1>2, <1>3, <1>4, <1>5, <1>6 DEF Init, TypeOK

LEMMA TypeNext == TypeOK /\ [Next]_vars => TypeOK'
<1> SUFFICES ASSUME TypeOK, [Next]_vars PROVE TypeOK'
  OBVIOUS
<1> USE DEF TypeOK
<1>1. CASE Read
  BY <1>1 DEF Read, Delivers, workVars, writerVars, given
<1>2. CASE EndApply
  BY <1>2 DEF EndApply, workVars, writerVars, given
<1>3. CASE CloseFormatter
  BY <1>3 DEF CloseFormatter, workVars, writerVars, given
<1>4. CASE Return
  <2>1. Outcome \in {"ok", "read error", "format error", "close error", "cache error", "changed"}
    BY <1>4 DEF Outcome, CloseErr
  <2> QED
    BY <1>4, <2>1 DEF Return, workVars, writerVars, given
<1>5. ASSUME NEW f \in Files, SkipUnmatched(f) PROVE TypeOK'
  BY <1>5 DEF SkipUnmatched, workVars, writerVars, given
<1>6. ASSUME NEW f \in Files, Abort(f) PROVE TypeOK'
  <2>1. stats' \in [Counters -> Nat]
    BY <1>6, CountType DEF Abort, Counters, given
  <2> QED
    BY <1>6, <2>1 DEF Abort, workVars, writerVars, given
<1>7. ASSUME NEW f \in Files, SkipCached(f) PROVE TypeOK'
  <2>1. stats' \in [Counters -> Nat]
    BY <1>7, CountType DEF SkipCached, Counters, given
  <2> QED
    BY <1>7, <2>1 DEF SkipCached, workVars, writerVars, given
<1>8. ASSUME NEW f \in Files, Submit(f) PROVE TypeOK'
  <2>1. stats' \in [Counters -> Nat]
    BY <1>8, CountType DEF Submit, Counters, given
  <2> QED
    BY <1>8, <2>1 DEF Submit, workVars, writerVars, given
<1>9. ASSUME NEW k \in Keys, NEW w \in Workers, Schedule(k, w) PROVE TypeOK'
  <2>1. batches[k] # {}
    BY <1>9, FS_EmptySet, PipelineAssumption DEF Schedule, Full, given
  <2>2. JobOK(NewJob(k, batches[k]))
    BY <2>1, NewJobOK
  <2>3. DOMAIN job' = Workers /\ \A v \in Workers : JobOK(job'[v])
    BY <1>9, <2>2 DEF Schedule, given
  <2>4. batches' \in [Keys -> SUBSET Files]
    BY <1>9 DEF Schedule, Emptied, given
  <2> QED
    BY <1>9, <2>3, <2>4 DEF Schedule, writerVars, given
<1>10. CASE Interrupt
  BY <1>10 DEF Interrupt, mainVars, workVars, writerVars, given
<1>11. ASSUME NEW w \in Workers, ApplyFormatter(w) PROVE TypeOK'
  <2>1. PICK g \in job[w].left, ok \in BOOLEAN :
           \E chunk \in Chunks(g, job[w].todo) : RunOn(w, g, chunk, ok)
    BY <1>11 DEF ApplyFormatter, given
  <2>. PICK chunk \in Chunks(g, job[w].todo) : RunOn(w, g, chunk, ok)
    BY <2>1
  <2>2. JobOK(job[w]) /\ job[w].stage = "format"
    BY <1>11 DEF ApplyFormatter, given
  <2>2a. chunk \subseteq job[w].todo
    BY ChunkOf
  <2>3. chunk \subseteq Files /\ g \in Formatters
    BY <2>2, <2>2a, JobFields
  <2>4. DOMAIN job' = Workers /\ \A v \in Workers : JobOK(job'[v])
    BY <2>2, <2>2a, AfterChunkOK DEF RunOn
  <2>5. differs' \subseteq Files
    BY <2>3 DEF RunOn
  <2>6. result' \in [Files -> [Formatters -> {"none", "ok", "err"}]]
    BY <2>3 DEF RunOn
  <2> QED
    BY <1>11, <2>4, <2>5, <2>6 DEF ApplyFormatter, mainVars, writerVars, given
<1>12. ASSUME NEW w \in Workers, EndFormat(w) PROVE TypeOK'
  <2>1. JobOK(job[w]) /\ job[w].stage = "format" /\ job[w].left = {}
    BY <1>12 DEF EndFormat, given
  <2>2. JobOK(Posting(job[w]))
    BY <2>1, PostingOK
  <2>3. DOMAIN job' = Workers /\ \A v \in Workers : JobOK(job'[v])
    BY <1>12, <2>2 DEF EndFormat, given
  <2>4. job[w].batch \subseteq Files /\ job[w].failed \in BOOLEAN
    BY <2>1, JobFields
  <2>5. FormattedBy(job[w]) \in Nat
    <3>1. IsFiniteSet(job[w].batch)
      BY <2>4, FinitelyManyFiles, FS_Subset
    <3> QED
      BY <3>1, FS_CardinalityType DEF FormattedBy
  <2>6. stats' \in [Counters -> Nat]
    BY <1>12, <2>5, CountType DEF EndFormat, Counters, given
  <2> QED
    BY <1>12, <2>3, <2>4, <2>6 DEF EndFormat, mainVars, writerVars, given
<1>13. ASSUME NEW w \in Workers, StatError(w) PROVE TypeOK'
  BY <1>13, IdleOK DEF StatError, mainVars, writerVars, given
<1>14. ASSUME NEW w \in Workers, PostFile(w) PROVE TypeOK'
  <2>1. PICK f \in job[w].todo :
           /\ Count("changed", IF f \in differs THEN 1 ELSE 0)
           /\ job' = [job EXCEPT ![w] = AfterRelease(@, f)]
           /\ updateCh' = updateCh \cup {f} \/ UNCHANGED updateCh
    BY <1>14 DEF PostFile, given
  <2>2. JobOK(job[w]) /\ job[w].stage = "post"
    BY <1>14 DEF PostFile, given
  <2>3. DOMAIN job' = Workers /\ \A v \in Workers : JobOK(job'[v])
    BY <2>1, <2>2, AfterReleaseOK
  <2>4. f \in Files
    BY <2>2, JobFields
  <2>5. updateCh' \subseteq Files
    BY <2>1, <2>4
  <2>6. stats' \in [Counters -> Nat]
    <3>1. PICK n \in Nat : Count("changed", n)
      BY <2>1
    <3> QED
      BY <3>1, CountType DEF Counters
  <2> QED
    BY <1>14, <2>3, <2>5, <2>6 DEF PostFile, mainVars, given
<1>15. CASE Take
  BY <1>15 DEF Take, mainVars, workVars, given
<1>16. CASE Flush
  BY <1>16 DEF Flush, mainVars, workVars, given
<1>17. CASE UNCHANGED vars
  BY <1>17 DEF vars, mainVars, workVars, writerVars, given
<1> QED
  BY <1>1, <1>2, <1>3, <1>4, <1>5, <1>6, <1>7, <1>8, <1>9, <1>10, <1>11, <1>12, <1>13,
     <1>14, <1>15, <1>16, <1>17 DEF Next, Main, Work, Done

\* Every variable keeps its type, whatever fails.
THEOREM TypeCorrect == Spec => []TypeOK
  BY TypeInit, TypeNext, PTL DEF Spec

-----------------------------------------------------------------------------
(* What is recorded was formatted.                                         *)

\* The order of formatters is strict: a set has at most one foremost element.
LEMMA ForemostUnique ==
  ASSUME NEW S \in SUBSET Formatters, NEW g, NEW h, Foremost(g, S), Foremost(h, S)
  PROVE  g = h
<1> SUFFICES ASSUME g # h PROVE FALSE
  OBVIOUS
<1>1. g \in Formatters /\ h \in Formatters /\ Before(g, h) /\ Before(h, g)
  BY DEF Foremost
<1>2. /\ Priority[g] \in Int /\ Priority[h] \in Int
      /\ Rank[g] \in Int /\ Rank[h] \in Int
  BY <1>1, PipelineAssumption
<1> QED
  BY <1>1, <1>2 DEF Before, Compare

LEMMA IdleProgress == JobProgress(Idle)
  BY DEF JobProgress, Idle

\* The inductive invariant.  RecordedMeansFormatted alone is not inductive: a
\* later formatter could fail on a recorded file (LetGo excludes it), and a
\* worker could release a file it is not through with (JobProgress excludes it).
IInv ==
  /\ TypeOK
  /\ OwnedOnce
  /\ \A w \in Workers : JobProgress(job[w])
  /\ \A f \in Recorded \ cached : LetGo(f)
  /\ RecordedMeansFormatted

LEMMA IInvInit == Init => IInv
<1> SUFFICES ASSUME Init PROVE IInv
  OBVIOUS
<1>1. OwnedOnce
  BY DEF Init, OwnedOnce, Idle
<1>2. Recorded \ cached = {}
  BY DEF Init, Recorded
<1> QED
  BY TypeInit, <1>1, <1>2, IdleProgress DEF Init, IInv, RecordedMeansFormatted

\* The part of the state the invariant speaks of.
ledger == <<unread, inbox, cached, batches, job, result, updateCh, wbuf, db>>

LEMMA IInvStutter ==
  ASSUME IInv, TypeOK', UNCHANGED ledger
  PROVE  IInv'
<1> USE DEF ledger
<1>1. OwnedOnce'
  BY DEF IInv, OwnedOnce
<1>2. \A w \in Workers : JobProgress(job[w])'
  BY DEF IInv, JobProgress
<1>3. \A f \in Recorded' \ cached' : LetGo(f)'
  BY DEF IInv, LetGo, Recorded
<1>4. RecordedMeansFormatted'
  BY DEF IInv, RecordedMeansFormatted, Recorded, FullyFormatted
<1> QED
  BY <1>1, <1>2, <1>3, <1>4 DEF IInv

\* A step of the main goroutine that only moves files from unread to inbox and
\* from inbox to nowhere.
LEMMA IInvNarrow ==
  ASSUME IInv, TypeOK', UNCHANGED <<cached, batches, job, result, updateCh, wbuf, db>>,
         unread' \cup inbox' \subseteq unread \cup inbox, unread' \cap inbox' = {}
  PROVE  IInv'
<1>1. OwnedOnce'
  BY DEF IInv, OwnedOnce
<1>2. \A w \in Workers : JobProgress(job[w])'
  BY DEF IInv, JobProgress
<1>3. \A f \in Recorded' \ cached' : LetGo(f)'
  BY DEF IInv, LetGo, Recorded
<1>4. RecordedMeansFormatted'
  BY DEF IInv, RecordedMeansFormatted, Recorded, FullyFormatted
<1> QED
  BY <1>1, <1>2, <1>3, <1>4 DEF IInv

\* A step of the cache writer moves recorded files and adds none.
LEMMA IInvWriter ==
  ASSUME IInv, TypeOK', UNCHANGED <<unread, inbox, cached, batches, job, result>>,
         Recorded' \subseteq Recorded
  PROVE  IInv'
<1>1. OwnedOnce'
  BY DEF IInv, OwnedOnce
<1>2. \A w \in Workers : JobProgress(job[w])'
  BY DEF IInv, JobProgress
<1>3. \A f \in Recorded' \ cached' : LetGo(f)'
  BY DEF IInv, LetGo
<1>4. RecordedMeansFormatted'
  BY DEF IInv, RecordedMeansFormatted, FullyFormatted
<1> QED
  BY <1>1, <1>2, <1>3, <1>4 DEF IInv

LEMMA IInvSubmit ==
  ASSUME IInv, TypeOK', NEW f \in Files, Submit(f)
  PROVE  IInv'
<1> USE DEF IInv
<1>1. /\ f \in inbox /\ f \notin cached /\ Wants[f] \in Keys
      /\ inbox' = inbox \ {f} /\ unread' = unread
      /\ batches' = [batches EXCEPT ![Wants[f]] = @ \cup {f}]
      /\ UNCHANGED <<cached, job, result, updateCh, wbuf, db>>
  BY PipelineAssumption DEF Submit, workVars, writerVars, given
<1>2. batches \in [Keys -> SUBSET Files]
  BY DEF TypeOK
<1>3. \A k \in Keys : batches'[k] = IF k = Wants[f] THEN batches[k] \cup {f} ELSE batches[k]
  BY <1>1, <1>2
<1>4. f \notin unread /\ \A w \in Workers : f \notin job[w].batch
  BY <1>1 DEF OwnedOnce
<1>5. OwnedOnce'
  BY <1>1, <1>3, <1>4 DEF OwnedOnce
<1>6. \A w \in Workers : JobProgress(job[w])'
  BY <1>1 DEF JobProgress
<1>7. \A e \in Recorded' \ cached' : LetGo(e)'
  BY <1>1, <1>3 DEF LetGo, Recorded
<1>8. RecordedMeansFormatted'
  BY <1>1 DEF RecordedMeansFormatted, Recorded, FullyFormatted
<1> QED
  BY <1>5, <1>6, <1>7, <1>8

LEMMA IInvSchedule ==
  ASSUME IInv, TypeOK', NEW k \in Keys, NEW w \in Workers, Schedule(k, w)
  PROVE  IInv'
<1> USE DEF IInv
<1>1. /\ job' = [job EXCEPT ![w] = NewJob(k, batches[k])]
      /\ batches' = [batches EXCEPT ![k] = {}]
      /\ UNCHANGED <<unread, inbox, cached, result, updateCh, wbuf, db>>
  BY DEF Schedule, Emptied, writerVars, given
<1>2. /\ \A h \in Keys : batches'[h] = IF h = k THEN {} ELSE batches[h]
      /\ \A v \in Workers : job'[v] = IF v = w THEN NewJob(k, batches[k]) ELSE job[v]
  BY <1>1 DEF TypeOK
<1>3. NewJob(k, batches[k]).batch = batches[k]
  BY DEF NewJob
<1>4. \A h \in Keys : h # k => batches[h] \cap batches[k] = {}
  BY DEF OwnedOnce
<1>5. OwnedOnce'
  BY <1>1, <1>2, <1>3, <1>4 DEF OwnedOnce
<1>6. JobProgress(NewJob(k, batches[k]))
  BY DEF JobProgress, NewJob, OwnedOnce
<1>7. \A v \in Workers : JobProgress(job[v])'
  BY <1>1, <1>2, <1>6 DEF JobProgress
<1>8. \A e \in Recorded' \ cached' : LetGo(e)'
  BY <1>1, <1>2, <1>3 DEF LetGo, Recorded
<1>9. RecordedMeansFormatted'
  BY <1>1 DEF RecordedMeansFormatted, Recorded, FullyFormatted
<1> QED
  BY <1>5, <1>7, <1>8, <1>9

\* A chunk the formatter handled well carries the progress of its job forward;
\* a failure ends the claim.
LEMMA ChunkProgress ==
  ASSUME TypeOK, NEW w \in Workers, JobProgress(job[w]), job[w].stage = "format",
         NEW g \in job[w].left, Foremost(g, job[w].left),
         NEW chunk \in SUBSET job[w].todo, NEW ok \in BOOLEAN, RunOn(w, g, chunk, ok)
  PROVE  JobProgress(job[w])'
<1> DEFINE j == job[w]  n == AfterChunk(j, g, chunk, ok)  rest == j.todo \ chunk
<1>1. /\ JobOK(j) /\ j.batch \subseteq Files /\ j.left \subseteq Formatters
      /\ j.todo \subseteq j.batch /\ j.failed \in BOOLEAN
  BY JobFields DEF TypeOK
<1>2. job'[w] = n
  BY DEF RunOn, TypeOK
<1>3. /\ n.key = j.key /\ n.batch = j.batch
      /\ n.left = IF rest = {} THEN j.left \ {g} ELSE j.left
      /\ n.todo = IF rest = {} THEN j.batch ELSE rest
      /\ n.failed = (j.failed \/ ~ok)
  BY <1>1, JobStages DEF AfterChunk
<1>4. \A f \in j.batch, h \in Formatters :
        result'[f][h] = IF f \in chunk /\ h = g THEN (IF ok THEN "ok" ELSE "err")
                        ELSE result[f][h]
  BY <1>1 DEF RunOn, TypeOK
<1>5. \A f \in n.batch : Wants[f] = n.key
  BY <1>3 DEF JobProgress
<1>6. ASSUME ~n.failed, NEW f \in n.batch, NEW h \in n.key,
             h \notin n.left \/ (Foremost(h, n.left) /\ f \notin n.todo)
      PROVE  result'[f][h] = "ok"
  <2>1. ~j.failed /\ ok /\ f \in j.batch /\ h \in j.key
    BY <1>3, <1>6
  <2>2. h \in Formatters
    BY <1>1, <2>1, JobStages DEF TypeOK
  <2>3. CASE h \notin j.left
    BY <2>1, <2>2, <2>3, <1>4 DEF JobProgress
  <2>4. CASE h \in j.left /\ h # g
    <3>1. n.left = j.left
      BY <1>3, <1>6, <2>4, ForemostUnique, <1>1
    <3>2. Foremost(h, j.left)
      BY <1>6, <3>1, <2>4
    <3> QED
      BY <3>2, <2>4, ForemostUnique, <1>1
  <2>5. CASE h = g
    <3>1. f \notin j.todo \/ f \in chunk
      BY <1>3, <1>6, <2>5
    <3>2. CASE f \in chunk
      BY <3>2, <2>1, <2>2, <2>5, <1>4
    <3>3. CASE f \notin j.todo
      BY <3>3, <2>1, <2>2, <2>5, <1>4 DEF JobProgress
    <3> QED
      BY <3>1, <3>2, <3>3
  <2> QED
    BY <2>3, <2>4, <2>5
<1> QED
  BY <1>2, <1>5, <1>6 DEF JobProgress

LEMMA IInvApply ==
  ASSUME IInv, TypeOK', NEW w \in Workers, ApplyFormatter(w)
  PROVE  IInv'
<1> USE DEF IInv
<1>1. PICK g \in job[w].left, ok \in BOOLEAN :
         Foremost(g, job[w].left) /\ \E chunk \in Chunks(g, job[w].todo) : RunOn(w, g, chunk, ok)
  BY DEF ApplyFormatter, given
<1> PICK chunk \in Chunks(g, job[w].todo) : RunOn(w, g, chunk, ok)
  BY <1>1
<1>2. /\ job[w].stage = "format" /\ JobOK(job[w])
      /\ UNCHANGED <<unread, inbox, cached, batches, updateCh, wbuf, db>>
  BY DEF ApplyFormatter, TypeOK, mainVars, writerVars, given
<1>3. chunk \in SUBSET job[w].todo
  BY DEF Chunks
<1>4. /\ job' = [job EXCEPT ![w] = AfterChunk(@, g, chunk, ok)]
      /\ \A f \in Files \ chunk : result'[f] = result[f]
  BY DEF RunOn
<1>5. /\ AfterChunk(job[w], g, chunk, ok).batch = job[w].batch
      /\ AfterChunk(job[w], g, chunk, ok).stage = "format"
  BY <1>2, JobStages DEF AfterChunk
<1>6. \A v \in Workers : job'[v].batch = job[v].batch /\ job'[v].stage = job[v].stage
  BY <1>2, <1>4, <1>5 DEF TypeOK
<1>7. OwnedOnce'
  BY <1>2, <1>6 DEF OwnedOnce
<1>8. ASSUME NEW v \in Workers PROVE JobProgress(job[v])'
  <2>1. CASE v = w
    BY <1>1, <1>2, <1>3, <2>1, ChunkProgress
  <2>2. CASE v # w
    <3>1. job'[v] = job[v] /\ job[v].batch \subseteq Files
      BY <1>4, <2>2, JobFields DEF TypeOK
    <3>2. chunk \cap job[v].batch = {}
      BY <1>2, <1>3, <2>2, JobFields DEF OwnedOnce, TypeOK
    <3>3. \A f \in job[v].batch : result'[f] = result[f]
      BY <1>4, <3>1, <3>2
    <3> QED
      BY <3>1, <3>3 DEF JobProgress
  <2> QED
    BY <2>1, <2>2
<1>9. \A f \in Recorded' \ cached' : LetGo(f)'
  BY <1>2, <1>6 DEF LetGo, Recorded
<1>10. RecordedMeansFormatted'
  <2>1. Recorded' = Recorded /\ cached' = cached
    BY <1>2 DEF Recorded
  <2>2. \A f \in Recorded \ cached : f \in Files /\ f \notin chunk
    BY <1>2, <1>3, JobFields DEF LetGo, TypeOK, Recorded
  <2> QED
    BY <2>1, <2>2, <1>4 DEF RecordedMeansFormatted, FullyFormatted
<1> QED
  BY <1>7, <1>8, <1>9, <1>10

\* A job that becomes idle takes nothing with it.
LEMMA IInvDropJob ==
  ASSUME IInv, TypeOK', NEW w \in Workers, job' = [job EXCEPT ![w] = Idle],
         UNCHANGED <<unread, inbox, cached, batches, result, updateCh, wbuf, db>>
  PROVE  IInv'
<1> USE DEF IInv
<1>1. \A v \in Workers : job'[v] = IF v = w THEN Idle ELSE job[v]
  BY DEF TypeOK
<1>2. Idle.batch = {} /\ Idle.stage = "idle"
  BY DEF Idle
<1>3. OwnedOnce'
  BY <1>1, <1>2 DEF OwnedOnce
<1>4. \A v \in Workers : JobProgress(job[v])'
  BY <1>1, IdleProgress DEF JobProgress
<1>5. \A f \in Recorded' \ cached' : LetGo(f)'
  BY <1>1, <1>2 DEF LetGo, Recorded
<1>6. RecordedMeansFormatted'
  BY DEF RecordedMeansFormatted, Recorded, FullyFormatted
<1> QED
  BY <1>3, <1>4, <1>5, <1>6

LEMMA IInvEndFormat ==
  ASSUME IInv, TypeOK', NEW w \in Workers, EndFormat(w)
  PROVE  IInv'
<1> USE DEF IInv
<1>1. /\ job' = [job EXCEPT ![w] = Posting(@)] /\ job[w].stage = "format" /\ JobOK(job[w])
      /\ UNCHANGED <<unread, inbox, cached, batches, result, updateCh, wbuf, db>>
  BY DEF EndFormat, TypeOK, mainVars, writerVars, given
<1>2. /\ Posting(job[w]).batch = job[w].batch /\ Posting(job[w]).key = job[w].key
      /\ Posting(job[w]).left = job[w].left /\ Posting(job[w]).todo = job[w].todo
      /\ Posting(job[w]).failed = job[w].failed /\ Posting(job[w]).stage = "post"
  BY <1>1, JobStages DEF Posting
<1>3. \A v \in Workers : job'[v] = IF v = w THEN Posting(job[w]) ELSE job[v]
  BY <1>1 DEF TypeOK
<1>4. OwnedOnce'
  BY <1>1, <1>2, <1>3 DEF OwnedOnce
<1>5. \A v \in Workers : JobProgress(job[v])'
  BY <1>1, <1>2, <1>3 DEF JobProgress
<1>6. \A f \in Recorded' \ cached' : LetGo(f)'
  BY <1>1, <1>2, <1>3 DEF LetGo, Recorded
<1>7. RecordedMeansFormatted'
  BY <1>1 DEF RecordedMeansFormatted, Recorded, FullyFormatted
<1> QED
  BY <1>4, <1>5, <1>6, <1>7

LEMMA IInvPost ==
  ASSUME IInv, TypeOK', NEW w \in Workers, PostFile(w)
  PROVE  IInv'
<1> USE DEF IInv
<1>1. PICK f \in job[w].todo :
        /\ job' = [job EXCEPT ![w] = AfterRelease(@, f)]
        /\ \/ ~job[w].failed /\ updateCh' = updateCh \cup {f}
           \/ updateCh' = updateCh
  BY DEF PostFile, NoCache, given
<1>2. /\ job[w].stage = "post" /\ JobOK(job[w])
      /\ UNCHANGED <<unread, inbox, cached, batches, result, wbuf, db>>
  BY DEF PostFile, TypeOK, mainVars, given
<1>3. f \in job[w].batch /\ job[w].left = {}
  BY <1>2, JobFields
<1> DEFINE n == AfterRelease(job[w], f)
<1>4. n = Idle \/ (/\ n.batch = job[w].batch /\ n.key = job[w].key /\ n.left = job[w].left
                   /\ n.failed = job[w].failed /\ n.stage = "post")
  BY <1>2, JobStages DEF AfterRelease
<1>5. Idle.batch = {} /\ Idle.stage = "idle"
  BY DEF Idle
<1>6. n.batch \subseteq job[w].batch /\ n.stage # "format"
  BY <1>4, <1>5
<1>7. \A v \in Workers : job'[v] = IF v = w THEN n ELSE job[v]
  BY <1>1 DEF TypeOK
<1>8. OwnedOnce'
  BY <1>2, <1>6, <1>7 DEF OwnedOnce
<1>9. JobProgress(n)
  <2>1. CASE n = Idle
    BY <2>1, IdleProgress
  <2>2. CASE n # Idle
    <3>1. /\ n.batch = job[w].batch /\ n.key = job[w].key /\ n.left = {}
          /\ n.failed = job[w].failed
      BY <2>2, <1>3, <1>4
    <3> HIDE DEF n
    <3> QED
      BY <3>1, <1>3 DEF JobProgress
  <2> QED
    BY <2>1, <2>2
<1>10. \A v \in Workers : JobProgress(job[v])'
  BY <1>2, <1>7, <1>9 DEF JobProgress
<1>11. Recorded' \subseteq Recorded \cup {f}
  BY <1>1, <1>2 DEF Recorded
<1>12. \A e \in Recorded \ cached : LetGo(e)'
  BY <1>2, <1>6, <1>7 DEF LetGo
<1>13. LetGo(f)'
  BY <1>2, <1>3, <1>6, <1>7 DEF LetGo, OwnedOnce
<1>14. \A e \in Recorded' \ cached' : LetGo(e)'
  BY <1>2, <1>11, <1>12, <1>13
<1>15. ~job[w].failed => FullyFormatted(f)
  BY <1>3 DEF JobProgress, FullyFormatted
<1>16. RecordedMeansFormatted'
  BY <1>1, <1>2, <1>15 DEF RecordedMeansFormatted, Recorded, FullyFormatted
<1> QED
  BY <1>8, <1>10, <1>14, <1>16

LEMMA IInvNext == IInv /\ [Next]_vars => IInv'
<1> SUFFICES ASSUME IInv, [Next]_vars PROVE IInv'
  OBVIOUS
<1>0. TypeOK /\ TypeOK'
  BY TypeNext DEF IInv
<1>1. CASE Read
  BY <1>0, <1>1, IInvNarrow DEF Read, workVars, writerVars, given
<1>2. CASE EndApply
  BY <1>0, <1>2, IInvStutter DEF EndApply, workVars, writerVars, ledger, given
<1>3. CASE CloseFormatter
  BY <1>0, <1>3, IInvStutter DEF CloseFormatter, workVars, writerVars, ledger, given
<1>4. CASE Return
  BY <1>0, <1>4, IInvStutter DEF Return, workVars, writerVars, ledger, given
<1>5. ASSUME NEW f \in Files, SkipUnmatched(f) PROVE IInv'
  BY <1>0, <1>5, IInvNarrow DEF SkipUnmatched, workVars, writerVars, IInv, OwnedOnce, given
<1>6. ASSUME NEW f \in Files, Abort(f) PROVE IInv'
  BY <1>0, <1>6, IInvStutter DEF Abort, workVars, writerVars, ledger, given
<1>7. ASSUME NEW f \in Files, SkipCached(f) PROVE IInv'
  BY <1>0, <1>7, IInvNarrow DEF SkipCached, workVars, writerVars, IInv, OwnedOnce, given
<1>8. ASSUME NEW f \in Files, Submit(f) PROVE IInv'
  BY <1>0, <1>8, IInvSubmit
<1>9. ASSUME NEW k \in Keys, NEW w \in Workers, Schedule(k, w) PROVE IInv'
  BY <1>0, <1>9, IInvSchedule
<1>10. CASE Interrupt
  BY <1>0, <1>10, IInvStutter DEF Interrupt, mainVars, workVars, writerVars, ledger, given
<1>11. ASSUME NEW w \in Workers, ApplyFormatter(w) PROVE IInv'
  BY <1>0, <1>11, IInvApply
<1>12. ASSUME NEW w \in Workers, EndFormat(w) PROVE IInv'
  BY <1>0, <1>12, IInvEndFormat
<1>13. ASSUME NEW w \in Workers, StatError(w) PROVE IInv'
  BY <1>0, <1>13, IInvDropJob DEF StatError, mainVars, writerVars, given
<1>14. ASSUME NEW w \in Workers, PostFile(w) PROVE IInv'
  BY <1>0, <1>14, IInvPost
<1>15. CASE Take
  BY <1>0, <1>15, IInvWriter DEF Take, mainVars, workVars, Recorded, given
<1>16. CASE Flush
  BY <1>0, <1>16, IInvWriter DEF Flush, mainVars, workVars, Recorded, given
<1>17. CASE UNCHANGED vars
  BY <1>0, <1>17, IInvStutter DEF vars, mainVars, workVars, writerVars, ledger, given
<1> QED
  BY <1>1, <1>2, <1>3, <1>4, <1>5, <1>6, <1>7, <1>8, <1>9, <1>10, <1>11, <1>12, <1>13,
     <1>14, <1>15, <1>16, <1>17 DEF Next, Main, Work, Done

LEMMA IInvAlways == Spec => []IInv
  BY IInvInit, IInvNext, PTL DEF Spec

\* Whatever fails and however the goroutines interleave, a file whose signature
\* is in the cache or on its way there was handled successfully by every one of
\* its formatters, in this run or before it.
THEOREM RecordedCorrect == Spec => []RecordedMeansFormatted
<1>1. IInv => RecordedMeansFormatted
  BY DEF IInv
<1> QED
  BY <1>1, IInvAlways, PTL

\* No file is ever in two hands.
THEOREM OwnershipCorrect == Spec => []OwnedOnce
<1>1. IInv => OwnedOnce
  BY DEF IInv
<1> QED
  BY <1>1, IInvAlways, PTL

\* Unless a formatter failed, a worker has "ok" for every file and formatter it is
\* through with, and a file on its way to the cache is in nobody's hands: what
\* RecordedCorrect rests on, and no more than a state of affairs.
THEOREM ProgressCorrect == Spec => []ProgressKept
<1>1. IInv => ProgressKept
  BY DEF IInv, ProgressKept
<1> QED
  BY <1>1, IInvAlways, PTL

-----------------------------------------------------------------------------
(* Shutdown order.                                                         *)

LEMMA ClosedNext == TypeOK /\ NoSendOnClosed /\ [Next]_vars => NoSendOnClosed'
<1> SUFFICES ASSUME TypeOK, NoSendOnClosed, [Next]_vars PROVE NoSendOnClosed'
  OBVIOUS
<1> USE DEF NoSendOnClosed, UpdateChClosed
<1>1. CASE Main
  <2>1. CASE Read \/ EndApply
    BY <2>1 DEF Read, EndApply, given
  <2>2. CASE CloseFormatter
    BY <2>2 DEF CloseFormatter, WorkersDone, AllIdle, workVars, given
  <2>3. CASE Return
    BY <2>3 DEF Return, workVars, given
  <2>4. ASSUME NEW f \in Files, SkipUnmatched(f) \/ Abort(f) \/ SkipCached(f) \/ Submit(f)
        PROVE  NoSendOnClosed'
    BY <2>4 DEF SkipUnmatched, Abort, SkipCached, Submit, given
  <2>5. ASSUME NEW k \in Keys, NEW w \in Workers, Schedule(k, w) PROVE NoSendOnClosed'
    BY <2>5 DEF Schedule, given
  <2> QED
    BY <1>1, <2>1, <2>2, <2>3, <2>4, <2>5 DEF Main
<1>2. ASSUME NEW w \in Workers, Work(w) PROVE NoSendOnClosed'
  <2>1. job[w].stage # "idle" /\ pc' = pc
    BY <1>2 DEF Work, ApplyFormatter, EndFormat, StatError, PostFile, mainVars, given
  <2> QED
    BY <2>1
<1>3. CASE Interrupt \/ Take \/ Flush \/ UNCHANGED vars
  BY <1>3 DEF Interrupt, Take, Flush, vars, mainVars, workVars, given
<1> QED
  BY <1>1, <1>2, <1>3 DEF Next, Done

\* Nothing is ever sent on the closed channel: formatter.Close has waited for
\* the last worker before walker.Close closes it, on every error path.
THEOREM ClosedCorrect == Spec => []NoSendOnClosed
<1>1. Init => NoSendOnClosed
  BY DEF Init, NoSendOnClosed, Idle
<1> QED
  BY <1>1, TypeCorrect, ClosedNext, PTL DEF Spec
=============================================================================
