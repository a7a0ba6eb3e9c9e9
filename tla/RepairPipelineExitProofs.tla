---------------------- MODULE RepairPipelineExitProofs ----------------------
(***************************************************************************)
(* Theorems about RepairPipeline, continued: the order in which formatters *)
(* handle a file, and what the exit status of a run tells.                 *)
(***************************************************************************)
EXTENDS RepairPipelineProofs

USE DEF Keys

-----------------------------------------------------------------------------
(* Which files are at work, and what has been done to them.                *)

\* The files that some formatter wants and no stored signature excuses.
Chosen == {f \in Files : f \notin Excluded \cup cached /\ Wants[f] # {}}

\* Only chosen files are batched, worked on and sent to the cache.
Selection ==
  /\ \A k \in Keys : batches[k] \subseteq Chosen
  /\ \A w \in Workers : job[w].batch \subseteq Chosen
  /\ updateCh \cup wbuf \subseteq Chosen
  /\ db \subseteq Chosen \cup cached
  /\ cached \subseteq db

Fresh(f) == \A g \in Formatters : result[f][g] = "none"

\* No formatter saw a file before its batch is with a worker.
Freshness ==
  /\ \A f \in unread \cup inbox : Fresh(f)
  /\ \A k \in Keys : \A f \in batches[k] : Fresh(f)

\* The job is through with formatter h for file f.
Handled(j, f, h) == h \notin j.left \/ (Foremost(h, j.left) /\ f \notin j.todo)

\* A formatting job has results for exactly what it is through with, and what
\* it is through with comes before what is left.
Stepwise(j) ==
  j.stage = "format" =>
    /\ \A f \in j.batch, h \in j.key : result[f][h] # "none" <=> Handled(j, f, h)
    /\ \A h \in j.key \ j.left, g \in j.left : Before(h, g)

OrderInv == Selection /\ Freshness /\ \A w \in Workers : Stepwise(job[w])

LEMMA OrderInit == Init => OrderInv
<1> SUFFICES ASSUME Init PROVE OrderInv
  OBVIOUS
<1>1. Selection
  BY DEF Init, Selection, Idle
<1>2. Freshness
  BY DEF Init, Freshness, Fresh
<1>3. \A w \in Workers : Stepwise(job[w])
  BY DEF Init, Stepwise, Idle
<1> QED
  BY <1>1, <1>2, <1>3 DEF OrderInv

\* Reading, and dropping files from the slice of a Read.
LEMMA OrderNarrow ==
  ASSUME OrderInv, UNCHANGED <<cached, batches, job, result, updateCh, wbuf, db>>,
         unread' \cup inbox' \subseteq unread \cup inbox
  PROVE  OrderInv'
<1>1. Selection'
  BY DEF OrderInv, Selection, Chosen
<1>2. Freshness'
  BY DEF OrderInv, Freshness, Fresh
<1>3. \A w \in Workers : Stepwise(job[w])'
  BY DEF OrderInv, Stepwise, Handled
<1> QED
  BY <1>1, <1>2, <1>3 DEF OrderInv

\* The cache writer moves files along.
LEMMA OrderWriter ==
  ASSUME OrderInv, UNCHANGED <<unread, inbox, cached, batches, job, result>>,
         updateCh' \cup wbuf' \subseteq updateCh \cup wbuf,
         db' = db \/ db' = db \cup wbuf
  PROVE  OrderInv'
<1>1. Selection'
  BY DEF OrderInv, Selection, Chosen
<1>2. Freshness'
  BY DEF OrderInv, Freshness, Fresh
<1>3. \A w \in Workers : Stepwise(job[w])'
  BY DEF OrderInv, Stepwise, Handled
<1> QED
  BY <1>1, <1>2, <1>3 DEF OrderInv

LEMMA OrderSubmit ==
  ASSUME TypeOK, OrderInv, NEW f \in Files, Submit(f)
  PROVE  OrderInv'
<1>1. /\ f \in inbox /\ f \in Chosen /\ Wants[f] \in Keys
      /\ inbox' = inbox \ {f} /\ unread' = unread
      /\ batches' = [batches EXCEPT ![Wants[f]] = @ \cup {f}]
      /\ UNCHANGED <<cached, job, result, updateCh, wbuf, db>>
  <2>1. Wants[f] \in SUBSET Formatters /\ Wants[f] # {}
    BY PipelineAssumption DEF Submit, given
  <2> QED
    BY <2>1 DEF Submit, workVars, writerVars, Chosen, given
<1>2. \A k \in Keys : batches'[k] \subseteq batches[k] \cup {f}
  BY <1>1 DEF TypeOK
<1>3. Selection'
  BY <1>1, <1>2 DEF OrderInv, Selection, Chosen
<1>4. Freshness'
  BY <1>1, <1>2 DEF OrderInv, Freshness, Fresh
<1>5. \A w \in Workers : Stepwise(job[w])'
  BY <1>1 DEF OrderInv, Stepwise, Handled
<1> QED
  BY <1>3, <1>4, <1>5 DEF OrderInv

LEMMA OrderSchedule ==
  ASSUME TypeOK, OwnedOnce, OrderInv, NEW k \in Keys, NEW w \in Workers, Schedule(k, w)
  PROVE  OrderInv'
<1> DEFINE n == NewJob(k, batches[k])
<1>1. /\ job' = [job EXCEPT ![w] = n]
      /\ batches' = [batches EXCEPT ![k] = {}]
      /\ UNCHANGED <<unread, inbox, cached, result, updateCh, wbuf, db>>
  BY DEF Schedule, Emptied, writerVars, given
<1>2. /\ \A h \in Keys : batches'[h] \subseteq batches[h]
      /\ \A v \in Workers : job'[v] = IF v = w THEN n ELSE job[v]
  BY <1>1 DEF TypeOK
<1>3. n.batch = batches[k] /\ n.todo = n.batch /\ n.key = k /\ n.left = k
  BY DEF NewJob
<1> HIDE DEF n
<1>4. Selection'
  BY <1>1, <1>2, <1>3 DEF OrderInv, Selection, Chosen
<1>5. Freshness'
  BY <1>1, <1>2 DEF OrderInv, Freshness, Fresh
<1>6. Stepwise(n)
  <2>1. \A f \in n.batch, h \in n.key : result[f][h] = "none"
    BY <1>3 DEF OrderInv, Freshness, Fresh
  <2>2. \A f \in n.batch, h \in n.key : ~Handled(n, f, h)
    BY <1>3 DEF Handled
  <2> QED
    BY <2>1, <2>2, <1>3 DEF Stepwise
<1>7. \A v \in Workers : Stepwise(job[v])'
  BY <1>1, <1>2, <1>6 DEF OrderInv, Stepwise, Handled
<1> QED
  BY <1>4, <1>5, <1>7 DEF OrderInv

\* After a chunk the job is through with exactly one formatter more for the
\* files of the chunk.
LEMMA ChunkStepwise ==
  ASSUME TypeOK, NEW w \in Workers, Stepwise(job[w]), job[w].stage = "format",
         NEW g \in job[w].left, Foremost(g, job[w].left),
         NEW chunk \in SUBSET job[w].todo, NEW ok \in BOOLEAN, RunOn(w, g, chunk, ok)
  PROVE  Stepwise(job[w])'
<1> DEFINE j == job[w]  n == AfterChunk(j, g, chunk, ok)  rest == j.todo \ chunk
<1>1. /\ JobOK(j) /\ j.batch \subseteq Files /\ j.left \subseteq Formatters
      /\ j.todo \subseteq j.batch /\ j.left \subseteq j.key /\ j.key \subseteq Formatters
  <2>1. JobOK(j) /\ j.stage # "idle"
    BY DEF TypeOK
  <2>2. j.key \in Keys
    BY <2>1, JobStages
  <2> QED
    BY <2>1, <2>2, JobFields
<1>2. job'[w] = n
  BY DEF RunOn, TypeOK
<1>3. /\ n.key = j.key /\ n.batch = j.batch
      /\ n.left = IF rest = {} THEN j.left \ {g} ELSE j.left
      /\ n.todo = IF rest = {} THEN j.batch ELSE rest
  BY <1>1, JobStages DEF AfterChunk
<1>4. \A f \in j.batch, h \in Formatters :
        result'[f][h] = IF f \in chunk /\ h = g THEN (IF ok THEN "ok" ELSE "err")
                        ELSE result[f][h]
  BY <1>1 DEF RunOn, TypeOK
<1> HIDE DEF n
<1>5. ASSUME NEW f \in n.batch, NEW h \in n.key
      PROVE  result'[f][h] # "none" <=> Handled(n, f, h)
  <2>1. f \in j.batch /\ h \in j.key /\ h \in Formatters
    BY <1>1, <1>3
  <2>2. result[f][h] # "none" <=> Handled(j, f, h)
    BY <2>1 DEF Stepwise
  <2>3. CASE h = g
    <3>1. result'[f][h] # "none" <=> (f \in chunk \/ f \notin j.todo)
      BY <1>4, <2>1, <2>2, <2>3 DEF Handled
    <3>2. CASE rest = {}
      BY <3>1, <3>2, <2>3, <1>3 DEF Handled
    <3>3. CASE rest # {}
      BY <3>1, <3>3, <2>3, <1>3 DEF Handled
    <3> QED
      BY <3>2, <3>3
  <2>4. CASE h # g
    <3>1. result'[f][h] = result[f][h]
      BY <1>4, <2>1, <2>4
    <3>2. Handled(j, f, h) <=> h \notin j.left
      BY <2>4, ForemostUnique, <1>1 DEF Handled
    <3>3. CASE rest = {}
      <4>1. f \in n.todo
        BY <1>3, <3>3
      <4> QED
        BY <4>1, <3>1, <3>2, <2>2, <2>4, <1>3, <3>3 DEF Handled
    <3>4. CASE rest # {}
      <4>1. Handled(n, f, h) <=> h \notin j.left
        BY <2>4, ForemostUnique, <1>1, <1>3, <3>4 DEF Handled
      <4> QED
        BY <4>1, <3>1, <3>2, <2>2
    <3> QED
      BY <3>3, <3>4
  <2> QED
    BY <2>3, <2>4
<1>6. ASSUME NEW h \in n.key \ n.left, NEW e \in n.left PROVE Before(h, e)
  <2>1. h \in j.key /\ e \in j.left /\ (h \in j.left => h = g /\ e # g)
    BY <1>3, <1>6
  <2> QED
    BY <2>1 DEF Stepwise, Foremost
<1> QED
  BY <1>2, <1>5, <1>6 DEF Stepwise, Handled

LEMMA OrderApply ==
  ASSUME TypeOK, OwnedOnce, OrderInv, NEW w \in Workers, ApplyFormatter(w)
  PROVE  OrderInv'
<1>1. PICK g \in job[w].left, ok \in BOOLEAN :
         Foremost(g, job[w].left) /\ \E chunk \in Chunks(g, job[w].todo) : RunOn(w, g, chunk, ok)
  BY DEF ApplyFormatter, given
<1> PICK chunk \in Chunks(g, job[w].todo) : RunOn(w, g, chunk, ok)
  BY <1>1
<1>2. /\ job[w].stage = "format" /\ JobOK(job[w])
      /\ UNCHANGED <<unread, inbox, cached, batches, updateCh, wbuf, db>>
  BY DEF ApplyFormatter, TypeOK, mainVars, writerVars, given
<1>3. chunk \in SUBSET job[w].todo /\ chunk \subseteq job[w].batch
  BY <1>2, JobFields, ChunkInTodo
<1>4. /\ job' = [job EXCEPT ![w] = AfterChunk(@, g, chunk, ok)]
      /\ \A f \in Files \ chunk : result'[f] = result[f]
  BY DEF RunOn
<1>5. \A v \in Workers : job'[v].batch = job[v].batch
  BY <1>2, <1>4, JobStages DEF TypeOK, AfterChunk
<1>6. Selection'
  BY <1>2, <1>5 DEF OrderInv, Selection, Chosen
<1>7. Freshness'
  <2>1. \A f \in unread \cup inbox : f \in Files /\ f \notin chunk
    BY <1>3 DEF OwnedOnce, TypeOK
  <2>2. \A k \in Keys : \A f \in batches[k] : f \in Files /\ f \notin chunk
    BY <1>3 DEF OwnedOnce, TypeOK
  <2> QED
    BY <1>2, <1>4, <2>1, <2>2 DEF OrderInv, Freshness, Fresh
<1>8. ASSUME NEW v \in Workers PROVE Stepwise(job[v])'
  <2>1. CASE v = w
    BY <1>1, <1>2, <1>3, <2>1, ChunkStepwise DEF OrderInv
  <2>2. CASE v # w
    <3>1. job'[v] = job[v] /\ job[v].batch \subseteq Files
      BY <1>4, <2>2, JobFields DEF TypeOK
    <3>2. \A f \in job[v].batch : result'[f] = result[f]
      BY <1>3, <1>4, <3>1, <2>2 DEF OwnedOnce
    <3> QED
      BY <3>1, <3>2 DEF OrderInv, Stepwise, Handled
  <2> QED
    BY <2>1, <2>2
<1> QED
  BY <1>6, <1>7, <1>8 DEF OrderInv

\* A worker that leaves the formatting stage, or goes on in the next.
LEMMA OrderLeave ==
  ASSUME TypeOK, OrderInv, NEW w \in Workers, NEW n,
         job' = [job EXCEPT ![w] = n], n.batch \subseteq job[w].batch, n.stage # "format",
         updateCh' \subseteq updateCh \cup job[w].batch,
         UNCHANGED <<unread, inbox, cached, batches, result, wbuf, db>>
  PROVE  OrderInv'
<1>1. \A v \in Workers : job'[v] = IF v = w THEN n ELSE job[v]
  BY DEF TypeOK
<1>2. Selection'
  BY <1>1 DEF OrderInv, Selection, Chosen
<1>3. Freshness'
  BY DEF OrderInv, Freshness, Fresh
<1>4. \A v \in Workers : Stepwise(job[v])'
  BY <1>1 DEF OrderInv, Stepwise, Handled
<1> QED
  BY <1>2, <1>3, <1>4 DEF OrderInv

\* What becomes of a job by posting one of its files.
LEMMA Released ==
  ASSUME NEW j, JobOK(j), j.stage = "post", NEW f \in j.todo
  PROVE  LET n == AfterRelease(j, f)
         IN  /\ n.todo = j.todo \ {f}
             /\ n.batch \subseteq j.batch
             /\ n.stage # "format"
             /\ n.stage = "post" => n.failed = j.failed
<1>1. CASE j.todo = {f}
  BY <1>1 DEF AfterRelease, Idle
<1>2. CASE j.todo # {f}
  BY <1>2, JobStages DEF AfterRelease
<1> QED
  BY <1>1, <1>2

LEMMA PostedFields ==
  ASSUME NEW j, JobOK(j), j.stage = "format"
  PROVE  /\ Posting(j).stage = "post" /\ Posting(j).batch = j.batch
         /\ Posting(j).todo = j.todo /\ Posting(j).failed = j.failed
  BY JobStages DEF Posting

LEMMA OrderNext == IInv /\ OrderInv /\ [Next]_vars => OrderInv'
<1> SUFFICES ASSUME IInv, OrderInv, [Next]_vars PROVE OrderInv'
  OBVIOUS
<1>0. TypeOK /\ OwnedOnce
  BY DEF IInv
<1>1. CASE Read \/ EndApply \/ CloseFormatter \/ Return \/ Interrupt
  BY <1>1, OrderNarrow
     DEF Read, EndApply, CloseFormatter, Return, Interrupt, mainVars, workVars, writerVars, given
<1>2. ASSUME NEW f \in Files, SkipUnmatched(f) \/ Abort(f) \/ SkipCached(f) PROVE OrderInv'
  BY <1>2, OrderNarrow DEF SkipUnmatched, Abort, SkipCached, workVars, writerVars, given
<1>3. ASSUME NEW f \in Files, Submit(f) PROVE OrderInv'
  BY <1>0, <1>3, OrderSubmit
<1>4. ASSUME NEW k \in Keys, NEW w \in Workers, Schedule(k, w) PROVE OrderInv'
  BY <1>0, <1>4, OrderSchedule
<1>5. ASSUME NEW w \in Workers, ApplyFormatter(w) PROVE OrderInv'
  BY <1>0, <1>5, OrderApply
<1>6. ASSUME NEW w \in Workers, EndFormat(w) PROVE OrderInv'
  BY <1>0, <1>6, OrderLeave, PostedFields DEF EndFormat, TypeOK, mainVars, writerVars, given
<1>7. ASSUME NEW w \in Workers, StatError(w) PROVE OrderInv'
  <2>1. Idle.batch = {} /\ Idle.stage # "format"
    BY DEF Idle
  <2> QED
    BY <1>0, <1>7, <2>1, OrderLeave DEF StatError, mainVars, writerVars, given
<1>8. ASSUME NEW w \in Workers, PostFile(w) PROVE OrderInv'
  <2>1. PICK f \in job[w].todo : /\ job' = [job EXCEPT ![w] = AfterRelease(@, f)]
                                 /\ updateCh' = updateCh \cup {f} \/ updateCh' = updateCh
    BY <1>8 DEF PostFile, given
  <2>2. JobOK(job[w]) /\ job[w].stage = "post" /\ f \in job[w].batch
    BY <1>0, <1>8, JobFields DEF PostFile, TypeOK, given
  <2> DEFINE n == AfterRelease(job[w], f)
  <2>3. n.batch \subseteq job[w].batch /\ n.stage # "format"
    BY <2>2, Released
  <2>4. job' = [job EXCEPT ![w] = n]
    BY <2>1
  <2> HIDE DEF n
  <2> QED
    BY <1>0, <1>8, <2>1, <2>2, <2>3, <2>4, OrderLeave DEF PostFile, mainVars, given
<1>9. CASE Take
  BY <1>9, OrderWriter DEF Take, mainVars, workVars, given
<1>10. CASE Flush
  BY <1>10, OrderWriter DEF Flush, mainVars, workVars, given
<1>11. CASE UNCHANGED vars
  BY <1>11, OrderNarrow DEF vars, mainVars, workVars, writerVars, given
<1> QED
  BY <1>1, <1>2, <1>3, <1>4, <1>5, <1>6, <1>7, <1>8, <1>9, <1>10, <1>11
     DEF Next, Main, Work, Done

LEMMA OrderAlways == Spec => []OrderInv
  BY OrderInit, OrderNext, IInvAlways, PTL DEF Spec

-----------------------------------------------------------------------------
(* Formatters run in order.                                                *)

\* What PipelineOrder says of one step.
InOrder ==
  \A f \in Files, g \in Formatters :
    result'[f][g] # result[f][g] =>
      /\ result[f][g] = "none"
      /\ f \notin Recorded
      /\ \A h \in Wants[f] :
           LET first == Priority[h] < Priority[g]
                          \/ (Priority[h] = Priority[g] /\ Rank[h] < Rank[g])
           IN  (result[f][h] # "none") <=> first

\* Compare is the order by priority and, among equals, by name.
LEMMA BeforeMeans ==
  ASSUME NEW g \in Formatters, NEW h \in Formatters
  PROVE  Before(h, g) <=> \/ Priority[h] < Priority[g]
                          \/ Priority[h] = Priority[g] /\ Rank[h] < Rank[g]
<1>1. Priority[g] \in Int /\ Priority[h] \in Int /\ Rank[g] \in Int /\ Rank[h] \in Int
  BY PipelineAssumption
<1> QED
  BY <1>1 DEF Before, Compare

LEMMA BeforeStrict ==
  ASSUME NEW g \in Formatters, NEW h \in Formatters, Before(h, g)
  PROVE  ~Before(g, h)
<1>1. Priority[g] \in Int /\ Priority[h] \in Int /\ Rank[g] \in Int /\ Rank[h] \in Int
  BY PipelineAssumption
<1> QED
  BY <1>1, BeforeMeans

\* Where nothing is formatted no result changes.
LEMMA OthersKeepResults ==
  ASSUME [Next]_vars, \A w \in Workers : ~ApplyFormatter(w)
  PROVE  result' = result
<1>1. CASE Main
  BY <1>1 DEF Main, Read, EndApply, CloseFormatter, Return, SkipUnmatched, Abort, SkipCached,
              Submit, Schedule, workVars, given
<1>2. ASSUME NEW w \in Workers, Work(w) PROVE result' = result
  BY <1>2 DEF Work, EndFormat, StatError, PostFile, given
<1>3. CASE Interrupt \/ Take \/ Flush \/ UNCHANGED vars
  BY <1>3 DEF Interrupt, Take, Flush, vars, workVars, given
<1> QED
  BY <1>1, <1>2, <1>3 DEF Next, Done

LEMMA OrderStep == IInv /\ OrderInv /\ [Next]_vars => InOrder
<1> SUFFICES ASSUME IInv, OrderInv, [Next]_vars PROVE InOrder
  OBVIOUS
<1>1. CASE \A w \in Workers : ~ApplyFormatter(w)
  BY <1>1, OthersKeepResults DEF InOrder
<1>2. ASSUME NEW w \in Workers, ApplyFormatter(w) PROVE InOrder
  <2>1. PICK g \in job[w].left, ok \in BOOLEAN :
           Foremost(g, job[w].left) /\ \E chunk \in Chunks(g, job[w].todo) : RunOn(w, g, chunk, ok)
    BY <1>2 DEF ApplyFormatter, given
  <2> PICK chunk \in Chunks(g, job[w].todo) : RunOn(w, g, chunk, ok)
    BY <2>1
  <2> DEFINE j == job[w]
  <2>2. JobOK(j) /\ j.stage = "format"
    BY <1>2 DEF ApplyFormatter, IInv, TypeOK, given
  <2>3. /\ chunk \subseteq j.todo /\ j.todo \subseteq j.batch
        /\ j.left \subseteq j.key /\ j.key \subseteq Formatters
    <3>1. j.key \in Keys
      BY <2>2, JobStages
    <3> QED
      BY <2>2, <3>1, JobFields, ChunkInTodo
  <2>4. Stepwise(j) /\ JobProgress(j)
    BY DEF OrderInv, IInv
  <2> SUFFICES ASSUME NEW f \in Files, NEW e \in Formatters, result'[f][e] # result[f][e]
               PROVE  /\ result[f][e] = "none"
                      /\ f \notin Recorded
                      /\ \A h \in Wants[f] :
                           (result[f][h] # "none")
                              <=> (\/ Priority[h] < Priority[e]
                                   \/ Priority[h] = Priority[e] /\ Rank[h] < Rank[e])
    BY DEF InOrder
  <2>5. f \in chunk /\ e = g
    <3>1. result \in [Files -> [Formatters -> {"none", "ok", "err"}]]
      BY DEF IInv, TypeOK
    <3> QED
      BY <3>1 DEF RunOn
  <2>6. f \in j.todo /\ f \in j.batch /\ Wants[f] = j.key
    BY <2>3, <2>4, <2>5 DEF JobProgress
  <2>7. result[f][g] = "none"
    BY <2>1, <2>2, <2>3, <2>4, <2>6 DEF Stepwise, Handled
  <2>8. f \notin Recorded
    <3>1. f \notin cached
      BY <2>6 DEF OrderInv, Selection, Chosen
    <3> QED
      BY <3>1, <2>2, <2>6 DEF IInv, LetGo
  <2>9. ASSUME NEW h \in j.key PROVE (result[f][h] # "none") <=> Before(h, g)
    <3>1. h \in Formatters /\ g \in Formatters
      BY <2>1, <2>3
    <3>2. (result[f][h] # "none") <=> h \notin j.left
      BY <2>2, <2>4, <2>6 DEF Stepwise, Handled
    <3>3. CASE h \notin j.left
      BY <3>2, <3>3, <2>2, <2>4 DEF Stepwise
    <3>4. CASE h \in j.left /\ h # g
      BY <3>1, <3>2, <3>4, <2>1, BeforeStrict DEF Foremost
    <3>5. CASE h = g
      BY <3>1, <3>2, <3>5, BeforeStrict
    <3> QED
      BY <3>3, <3>4, <3>5
  <2> QED
    BY <2>3, <2>5, <2>6, <2>7, <2>8, <2>9, BeforeMeans
<1> QED
  BY <1>1, <1>2

\* However the workers interleave, the formatters of a file run in ascending
\* order of priority and name, each once, and none after the file is on its way
\* to the cache (scheduler.go:144-158).
THEOREM OrderCorrect == Spec => PipelineOrder
<1>1. IInv /\ OrderInv /\ [Next]_vars => [InOrder]_vars
  BY OrderStep
<1> QED
  BY <1>1, IInvAlways, OrderAlways, PTL DEF Spec, PipelineOrder, InOrder

-----------------------------------------------------------------------------
(* What the exit status tells.                                             *)

\* The files a job still has to let go of.
Held(j) == IF j.stage = "format" THEN j.batch ELSE j.todo

InHands(f) ==
  \/ \E k \in Keys : f \in batches[k]
  \/ \E w \in Workers : f \in Held(job[w])

\* An accepted file is at work, is done with in full, or a failure is on record.
Accounted(f) ==
  \/ InHands(f)
  \/ egErr \/ formatError
  \/ FullyFormatted(f) /\ (UseCache => f \in Recorded)

\* A file that differs is still at work, or the change or a failure is on record.
ChangeCounted(f) ==
  (\E w \in Workers : f \in Held(job[w])) \/ egErr \/ stats["changed"] # 0

Ledger ==
  /\ \A f \in Accepted : Accounted(f)
  /\ \A f \in differs : ChangeCounted(f)
  /\ \A w \in Workers :
       /\ job[w].stage = "post" /\ job[w].failed => formatError
       /\ job[w].stage = "format" /\ job[w].left = {} => job[w].todo = job[w].batch

\* What the main goroutine knows of the walk where it stands.
WalkKnown ==
  /\ pc = "read" => inbox = {}
  /\ pc \in {"close", "drain", "returned"} /\ ~formatErr => inbox = {} /\ readErr # "none"
  /\ readErr = "eof" => unread = {}
  /\ readErr = "canceled" => cancelled

\* What is over once the main goroutine is past each wait.
Closing ==
  /\ UpdateChClosed => AllIdle /\ \A k \in Keys : batches[k] = {}
  /\ writer = "done" /\ UseCache => UpdateChClosed /\ updateCh = {} /\ wbuf = {}
  /\ outcome = "none" <=> pc # "returned"
  /\ pc = "returned" => writer # "running" /\ outcome = Outcome

ExitInv == Ledger /\ WalkKnown /\ Closing

LEMMA ExitInit == Init => ExitInv
<1> SUFFICES ASSUME Init PROVE ExitInv
  OBVIOUS
<1>1. Ledger
  BY DEF Init, Ledger, Accepted, Idle
<1>2. WalkKnown
  BY DEF Init, WalkKnown
<1>3. Closing
  BY DEF Init, Closing, UpdateChClosed
<1> QED
  BY <1>1, <1>2, <1>3 DEF ExitInv

LEMMA WalkNext == TypeOK /\ WalkKnown /\ [Next]_vars => WalkKnown'
<1> SUFFICES ASSUME TypeOK, WalkKnown, [Next]_vars PROVE WalkKnown'
  OBVIOUS
<1> USE DEF WalkKnown
<1>1. CASE Read
  BY <1>1 DEF Read, Delivers, given
<1>2. CASE EndApply \/ CloseFormatter \/ Return
  BY <1>2 DEF EndApply, CloseFormatter, Return, TypeOK, given
<1>3. ASSUME NEW f \in Files, SkipUnmatched(f) \/ Abort(f) \/ SkipCached(f) \/ Submit(f)
      PROVE  WalkKnown'
  BY <1>3 DEF SkipUnmatched, Abort, SkipCached, Submit, given
<1>4. ASSUME NEW k \in Keys, NEW w \in Workers, Schedule(k, w) PROVE WalkKnown'
  BY <1>4 DEF Schedule, given
<1>5. ASSUME NEW w \in Workers, Work(w) PROVE WalkKnown'
  BY <1>5 DEF Work, ApplyFormatter, EndFormat, StatError, PostFile, mainVars, given
<1>6. CASE Interrupt \/ Take \/ Flush \/ UNCHANGED vars
  BY <1>6 DEF Interrupt, Take, Flush, vars, mainVars, given
<1> QED
  BY <1>1, <1>2, <1>3, <1>4, <1>5, <1>6 DEF Next, Main, Done

\* Past formatter.Close nothing moves but the cache writer, until Run returns.
LEMMA ClosingNext == TypeOK /\ Closing /\ [Next]_vars => Closing'
<1> SUFFICES ASSUME TypeOK, Closing, [Next]_vars PROVE Closing'
  OBVIOUS
<1> USE DEF Closing, UpdateChClosed, AllIdle
<1>1. CASE Read \/ EndApply
  BY <1>1 DEF Read, EndApply, workVars, writerVars, given
<1>2. CASE CloseFormatter
  BY <1>2 DEF CloseFormatter, WorkersDone, workVars, writerVars, given
<1>3. CASE Return
  BY <1>3 DEF Return, Outcome, CloseErr, ChangeErr, workVars, writerVars, given
<1>4. ASSUME NEW f \in Files, SkipUnmatched(f) \/ Abort(f) \/ SkipCached(f) PROVE Closing'
  BY <1>4 DEF SkipUnmatched, Abort, SkipCached, workVars, writerVars, given
<1>5. ASSUME NEW f \in Files, Submit(f) PROVE Closing'
  BY <1>5 DEF Submit, workVars, writerVars, given
<1>6. ASSUME NEW k \in Keys, NEW w \in Workers, Schedule(k, w) PROVE Closing'
  BY <1>6 DEF Schedule, writerVars, given
<1>7. ASSUME NEW w \in Workers, Work(w) PROVE Closing'
  <2>1. job[w].stage # "idle" /\ UNCHANGED <<mainVars, batches, wbuf, writer, outcome>>
    BY <1>7 DEF Work, ApplyFormatter, EndFormat, StatError, PostFile, writerVars, given
  <2>2. ~UpdateChClosed
    BY <2>1
  <2> QED
    BY <2>1, <2>2 DEF mainVars, given
<1>8. CASE Interrupt
  BY <1>8 DEF Interrupt, Outcome, CloseErr, ChangeErr, mainVars, workVars, writerVars, given
<1>9. CASE Take
  BY <1>9 DEF Take, mainVars, workVars, given
<1>10. CASE Flush
  <2>1. pc # "returned" /\ pc' = pc /\ outcome' = outcome
    BY <1>10 DEF Flush, mainVars, given
  <2>2. writer' = "done" => LastFlush /\ wbuf' = {}
    <3>1. writer' = "done" => Cardinality(wbuf) # CacheBatch /\ wbuf' = {}
      <4>1. CASE Cardinality(wbuf) = CacheBatch
        BY <4>1, <1>10, PipelineAssumption DEF Flush, given
      <4>2. CASE Cardinality(wbuf) # CacheBatch
        BY <4>2, <1>10 DEF Flush, given
      <4> QED
        BY <4>1, <4>2
    <3> QED
      BY <3>1, <1>10 DEF Flush, given
  <2> QED
    BY <1>10, <2>1, <2>2 DEF Flush, LastFlush, mainVars, workVars, given
<1>11. CASE UNCHANGED vars
  BY <1>11 DEF vars, Outcome, CloseErr, ChangeErr, mainVars, workVars, writerVars, given
<1> QED
  BY <1>1, <1>2, <1>3, <1>4, <1>5, <1>6, <1>7, <1>8, <1>9, <1>10, <1>11
     DEF Next, Main, Done

\* Steps that touch no batch, no job and no result.
LEMMA LedgerKept ==
  ASSUME Ledger, UNCHANGED <<batches, job, result, differs, formatError, egErr>>,
         stats'["changed"] = stats["changed"],
         Accepted' \subseteq Accepted, Recorded \subseteq Recorded'
  PROVE  Ledger'
<1>1. \A f \in Accepted' : Accounted(f)'
  BY DEF Ledger, Accounted, InHands, Held, FullyFormatted
<1>2. \A f \in differs' : ChangeCounted(f)'
  BY DEF Ledger, ChangeCounted, Held
<1> QED
  BY <1>1, <1>2 DEF Ledger

LEMMA LedgerSubmit ==
  ASSUME TypeOK, Ledger, NEW f \in Files, Submit(f)
  PROVE  Ledger'
<1>1. /\ f \in inbox /\ Wants[f] \in Keys /\ UNCHANGED <<unread, cached>>
      /\ inbox' = inbox \ {f}
      /\ batches' = [batches EXCEPT ![Wants[f]] = @ \cup {f}]
      /\ UNCHANGED <<job, result, differs, formatError, egErr, updateCh, wbuf, db>>
  <2>1. Wants[f] \in SUBSET Formatters /\ Wants[f] # {}
    BY PipelineAssumption DEF Submit, given
  <2> QED
    BY <2>1 DEF Submit, workVars, writerVars, given
<1>2. stats'["changed"] = stats["changed"]
  BY DEF Submit, Count, TypeOK, Counters, given
<1>3. \A k \in Keys : batches[k] \subseteq batches'[k]
  BY <1>1 DEF TypeOK
<1>4. f \in batches'[Wants[f]]
  BY <1>1 DEF TypeOK
<1>5. Accepted' \subseteq Accepted \cup {f}
  BY <1>1 DEF Accepted
<1>6. \A e \in Accepted' : Accounted(e)'
  BY <1>1, <1>3, <1>4, <1>5 DEF Ledger, Accounted, InHands, Held, FullyFormatted, Recorded
<1>7. \A e \in differs' : ChangeCounted(e)'
  BY <1>1, <1>2 DEF Ledger, ChangeCounted, Held
<1> QED
  BY <1>1, <1>6, <1>7 DEF Ledger

LEMMA LedgerSchedule ==
  ASSUME TypeOK, Ledger, NEW k \in Keys, NEW w \in Workers, Schedule(k, w)
  PROVE  Ledger'
<1> DEFINE n == NewJob(k, batches[k])
<1>1. /\ job' = [job EXCEPT ![w] = n] /\ job[w].stage = "idle"
      /\ batches' = [batches EXCEPT ![k] = {}]
      /\ UNCHANGED <<unread, inbox, cached, result, differs, formatError, egErr, stats,
                     updateCh, wbuf, db>>
  BY DEF Schedule, Emptied, writerVars, given
<1>2. /\ \A h \in Keys : h # k => batches'[h] = batches[h]
      /\ \A v \in Workers : job'[v] = IF v = w THEN n ELSE job[v]
  BY <1>1 DEF TypeOK
<1>3. Held(n) = batches[k] /\ n.stage = "format" /\ n.todo = n.batch
  BY DEF NewJob, Held
<1>4. Held(job[w]) = {}
  BY <1>1, JobFields DEF Held, TypeOK
<1> HIDE DEF n
<1>5. \A f : InHands(f) => InHands(f)'
  BY <1>2, <1>3, <1>4 DEF InHands, Held
<1>6. \A f \in Accepted' : Accounted(f)'
  BY <1>1, <1>5 DEF Ledger, Accounted, FullyFormatted, Recorded, Accepted
<1>7. \A f \in differs' : ChangeCounted(f)'
  BY <1>1, <1>2, <1>4 DEF Ledger, ChangeCounted, Held
<1> QED
  BY <1>1, <1>2, <1>3, <1>6, <1>7 DEF Ledger

LEMMA LedgerApply ==
  ASSUME TypeOK, Ledger, NEW w \in Workers, ApplyFormatter(w)
  PROVE  Ledger'
<1>1. PICK g \in job[w].left, ok \in BOOLEAN :
         \E chunk \in Chunks(g, job[w].todo) : RunOn(w, g, chunk, ok)
  BY DEF ApplyFormatter, given
<1> PICK chunk \in Chunks(g, job[w].todo) : RunOn(w, g, chunk, ok)
  BY <1>1
<1> DEFINE j == job[w]  n == AfterChunk(j, g, chunk, ok)
<1>2. /\ j.stage = "format" /\ JobOK(j)
      /\ UNCHANGED <<unread, inbox, cached, batches, formatError, egErr, stats, updateCh,
                     wbuf, db>>
  BY DEF ApplyFormatter, TypeOK, mainVars, writerVars, given
<1>3. chunk \subseteq j.batch
  BY <1>2, JobFields, ChunkInTodo
<1>4. /\ job' = [job EXCEPT ![w] = n]
      /\ \A f \in Files \ chunk : result'[f] = result[f]
      /\ differs' \subseteq differs \cup chunk
  BY DEF RunOn
<1>5. /\ n.stage = "format" /\ n.batch = j.batch
      /\ n.left = {} => n.todo = n.batch
  BY <1>1, <1>2, JobStages DEF AfterChunk
<1>6. \A v \in Workers : job'[v] = IF v = w THEN n ELSE job[v]
  BY <1>4 DEF TypeOK
<1>7. Held(n) = Held(j) /\ Held(j) = j.batch
  BY <1>2, <1>5 DEF Held
<1> HIDE DEF n
<1>8. \A f, v : v \in Workers => (f \in Held(job[v]) <=> f \in Held(job'[v]))
  BY <1>6, <1>7
<1>9. \A f : InHands(f) <=> InHands(f)'
  BY <1>2, <1>8 DEF InHands, Held
<1>10. \A f \in chunk : InHands(f)
  BY <1>3, <1>7 DEF InHands
<1>11. ASSUME NEW f \in Accepted' PROVE Accounted(f)'
  <2>1. f \in Accepted /\ f \in Files
    BY <1>2 DEF Accepted
  <2>2. CASE InHands(f)
    BY <2>2, <1>9 DEF Accounted
  <2>3. CASE ~InHands(f)
    <3>1. f \notin chunk /\ result'[f] = result[f] /\ Recorded' = Recorded
      BY <1>2, <1>4, <1>10, <2>1, <2>3 DEF Recorded
    <3> QED
      BY <3>1, <2>1, <2>3, <1>2 DEF Ledger, Accounted, FullyFormatted
  <2> QED
    BY <2>2, <2>3
<1>12. ASSUME NEW f \in differs' PROVE ChangeCounted(f)'
  <2>1. CASE f \in chunk
    <3>1. f \in Held(job'[w])
      BY <2>1, <1>3, <1>7, <1>8
    <3> QED
      BY <3>1 DEF ChangeCounted, Held
  <2>2. CASE f \in differs
    BY <2>2, <1>2, <1>8 DEF Ledger, ChangeCounted, Held
  <2> QED
    BY <2>1, <2>2, <1>4
<1>13. \A v \in Workers :
         /\ job'[v].stage = "post" /\ job'[v].failed => formatError'
         /\ job'[v].stage = "format" /\ job'[v].left = {} => job'[v].todo = job'[v].batch
  BY <1>2, <1>5, <1>6 DEF Ledger
<1> QED
  BY <1>11, <1>12, <1>13 DEF Ledger

LEMMA LedgerEndFormat ==
  ASSUME TypeOK, Ledger, NEW w \in Workers, EndFormat(w)
  PROVE  Ledger'
<1> DEFINE j == job[w]  n == Posting(j)
<1>1. /\ j.stage = "format" /\ JobOK(j) /\ j.left = {} /\ j.todo = j.batch
      /\ job' = [job EXCEPT ![w] = n]
      /\ formatError' = (formatError \/ j.failed)
      /\ stats'["changed"] = stats["changed"]
      /\ UNCHANGED <<unread, inbox, cached, batches, result, differs, egErr, updateCh, wbuf, db>>
  BY DEF EndFormat, TypeOK, Ledger, Count, Counters, mainVars, writerVars, given
<1>2. n.stage = "post" /\ n.todo = j.todo /\ n.failed = j.failed
  BY <1>1, PostedFields
<1>3. \A v \in Workers : job'[v] = IF v = w THEN n ELSE job[v]
  BY <1>1 DEF TypeOK
<1>4. Held(n) = Held(j)
  BY <1>1, <1>2 DEF Held
<1> HIDE DEF n
<1>5. \A f, v : v \in Workers => (f \in Held(job[v]) <=> f \in Held(job'[v]))
  BY <1>3, <1>4
<1>6. /\ Accepted' = Accepted /\ Recorded' = Recorded
      /\ \A f : FullyFormatted(f) => FullyFormatted(f)'
      /\ \A f : InHands(f) => InHands(f)'
  BY <1>1, <1>5 DEF InHands, Held, FullyFormatted, Recorded, Accepted
<1>7. egErr' = egErr /\ (formatError => formatError')
  BY <1>1
<1>8. \A f \in Accepted' : Accounted(f)'
  BY <1>6, <1>7 DEF Ledger, Accounted
<1>9. \A f \in differs' : ChangeCounted(f)'
  BY <1>1, <1>5 DEF Ledger, ChangeCounted, Held
<1>10. ASSUME NEW v \in Workers
       PROVE  /\ job'[v].stage = "post" /\ job'[v].failed => formatError'
              /\ job'[v].stage = "format" /\ job'[v].left = {} => job'[v].todo = job'[v].batch
  <2>1. CASE v = w
    BY <1>1, <1>2, <1>3, <2>1
  <2>2. CASE v # w
    <3>1. job'[v] = job[v]
      BY <1>3, <2>2
    <3> QED
      BY <1>7, <3>1 DEF Ledger
  <2> QED
    BY <2>1, <2>2
<1> QED
  BY <1>8, <1>9, <1>10 DEF Ledger

LEMMA LedgerStatError ==
  ASSUME TypeOK, Ledger, NEW w \in Workers, StatError(w)
  PROVE  Ledger'
<1>1. Idle.stage = "idle"
  BY DEF Idle
<1>2. \A v \in Workers : job'[v] = IF v = w THEN Idle ELSE job[v]
  BY DEF StatError, TypeOK, given
<1>3. egErr' /\ formatError' = formatError
  BY DEF StatError, given
<1> QED
  BY <1>1, <1>2, <1>3 DEF Ledger, Accounted, ChangeCounted

LEMMA LedgerPost ==
  ASSUME IInv, Ledger, NEW w \in Workers, PostFile(w)
  PROVE  Ledger'
<1> DEFINE j == job[w]
<1>1. PICK f \in j.todo :
        /\ Count("changed", IF f \in differs THEN 1 ELSE 0)
        /\ job' = [job EXCEPT ![w] = AfterRelease(@, f)]
        /\ IF UseCache /\ ~j.failed THEN updateCh' = updateCh \cup {f} ELSE UNCHANGED updateCh
  BY DEF PostFile, NoCache, given
<1> DEFINE n == AfterRelease(j, f)
<1>2. /\ j.stage = "post" /\ JobOK(j) /\ TypeOK
      /\ UNCHANGED <<unread, inbox, cached, batches, result, differs, formatError, egErr,
                     wbuf, db>>
  BY DEF PostFile, IInv, TypeOK, mainVars, given
<1>3. f \in j.batch /\ j.left = {} /\ j.todo \subseteq j.batch /\ j.batch \subseteq Files
  BY <1>2, JobFields
<1>4. /\ n.todo = j.todo \ {f} /\ n.stage # "format"
      /\ n.stage = "post" => n.failed = j.failed
  BY <1>2, Released
<1>5. \A v \in Workers : job'[v] = IF v = w THEN n ELSE job[v]
  BY <1>1, <1>2 DEF TypeOK
<1>6. Held(j) = j.todo /\ Held(n) = j.todo \ {f}
  BY <1>2, <1>4 DEF Held
<1> HIDE DEF n
<1>7. \A e, v : v \in Workers /\ e # f => (e \in Held(job[v]) => e \in Held(job'[v]))
  BY <1>5, <1>6
<1>8. ASSUME NEW e \in Accepted' PROVE Accounted(e)'
  <2>1. e \in Accepted /\ Accounted(e) /\ Recorded \subseteq Recorded'
    BY <1>1, <1>2 DEF Accepted, Ledger, Recorded
  <2>2. CASE e # f
    BY <2>1, <2>2, <1>2, <1>7 DEF Accounted, InHands, Held, FullyFormatted
  <2>3. CASE e = f /\ j.failed
    BY <2>3, <1>2 DEF Ledger, Accounted
  <2>4. CASE e = f /\ ~j.failed
    <3>1. FullyFormatted(f)'
      BY <2>4, <1>2, <1>3 DEF IInv, JobProgress, FullyFormatted
    <3>2. UseCache => f \in Recorded'
      BY <2>4, <1>1 DEF Recorded
    <3> QED
      BY <2>4, <3>1, <3>2 DEF Accounted
  <2> QED
    BY <2>2, <2>3, <2>4
<1>9. ASSUME NEW e \in differs' PROVE ChangeCounted(e)'
  <2>1. e \in differs /\ ChangeCounted(e)
    BY <1>2 DEF Ledger
  <2>2. /\ stats["changed"] \in Nat
        /\ stats'["changed"] = stats["changed"] + (IF f \in differs THEN 1 ELSE 0)
    BY <1>1, <1>2 DEF Count, TypeOK, Counters
  <2>3. CASE e = f
    <3>1. stats'["changed"] # 0
      BY <2>1, <2>2, <2>3
    <3> QED
      BY <3>1 DEF ChangeCounted
  <2>4. CASE e # f
    <3>1. stats["changed"] # 0 => stats'["changed"] # 0
      BY <2>2
    <3> QED
      BY <3>1, <2>1, <2>4, <1>2, <1>7 DEF ChangeCounted, Held
  <2> QED
    BY <2>3, <2>4
<1>10. \A v \in Workers :
         /\ job'[v].stage = "post" /\ job'[v].failed => formatError'
         /\ job'[v].stage = "format" /\ job'[v].left = {} => job'[v].todo = job'[v].batch
  BY <1>2, <1>4, <1>5 DEF Ledger
<1> QED
  BY <1>8, <1>9, <1>10 DEF Ledger

LEMMA LedgerNext == IInv /\ WalkKnown /\ Ledger /\ [Next]_vars => Ledger'
<1> SUFFICES ASSUME IInv, WalkKnown, Ledger, [Next]_vars PROVE Ledger'
  OBVIOUS
<1>0. TypeOK
  BY DEF IInv
<1>1. CASE Read \/ EndApply \/ CloseFormatter \/ Return \/ Interrupt
  <2>1. /\ UNCHANGED <<cached, batches, workVars, stats, writerVars>>
        /\ unread' \cup inbox' = unread \cup inbox \/ (unread' = unread /\ inbox' = inbox)
    <3>1. CASE Read
      <4>1. pc = "read"
        BY <3>1 DEF Read, given
      <4>2. PICK chunk \in SUBSET unread : inbox' = chunk /\ unread' = unread \ chunk
        BY <3>1 DEF Read, given
      <4> QED
        BY <3>1, <4>1, <4>2 DEF Read, WalkKnown, given
    <3>2. CASE EndApply \/ CloseFormatter \/ Return \/ Interrupt
      BY <3>2 DEF EndApply, CloseFormatter, Return, Interrupt, mainVars, given
    <3> QED
      BY <1>1, <3>1, <3>2
  <2>2. Accepted' = Accepted
    BY <2>1 DEF Accepted
  <2> QED
    BY <2>1, <2>2, LedgerKept DEF Recorded, workVars, writerVars, given
<1>2. ASSUME NEW f \in Files, SkipUnmatched(f) \/ Abort(f) \/ SkipCached(f) PROVE Ledger'
  <2>1. stats'["changed"] = stats["changed"]
    BY <1>0, <1>2 DEF SkipUnmatched, Abort, SkipCached, Count, TypeOK, Counters, given
  <2>2. Accepted' \subseteq Accepted
    BY <1>2 DEF SkipUnmatched, Abort, SkipCached, Accepted, given
  <2> QED
    BY <1>2, <2>1, <2>2, LedgerKept
       DEF SkipUnmatched, Abort, SkipCached, Recorded, workVars, writerVars, given
<1>3. ASSUME NEW f \in Files, Submit(f) PROVE Ledger'
  BY <1>0, <1>3, LedgerSubmit
<1>4. ASSUME NEW k \in Keys, NEW w \in Workers, Schedule(k, w) PROVE Ledger'
  BY <1>0, <1>4, LedgerSchedule
<1>5. ASSUME NEW w \in Workers, Work(w) PROVE Ledger'
  BY <1>0, <1>5, LedgerApply, LedgerEndFormat, LedgerStatError, LedgerPost DEF Work
<1>6. CASE Take
  BY <1>6, LedgerKept DEF Take, Accepted, Recorded, mainVars, workVars, given
<1>7. CASE Flush
  BY <1>7, LedgerKept DEF Flush, Accepted, Recorded, mainVars, workVars, given
<1>8. CASE UNCHANGED vars
  BY <1>8, LedgerKept DEF vars, Accepted, Recorded, mainVars, workVars, writerVars, given
<1> QED
  BY <1>1, <1>2, <1>3, <1>4, <1>5, <1>6, <1>7, <1>8 DEF Next, Main, Done

LEMMA ExitAlways == Spec => []ExitInv
<1>1. IInv /\ ExitInv /\ [Next]_vars => ExitInv'
  BY LedgerNext, WalkNext, ClosingNext DEF ExitInv, IInv
<1> QED
  BY <1>1, ExitInit, IInvAlways, PTL DEF Spec

LEMMA OkMeans ==
  ASSUME TypeOK, ExitInv, outcome = "ok"
  PROVE  /\ inbox = {} /\ (unread = {} \/ cancelled)
         /\ ~egErr /\ ~formatError /\ ~ChangeErr
         /\ UseCache => updateCh = {} /\ wbuf = {}
         /\ \A f : ~InHands(f)
<1>1. pc = "returned" /\ writer # "running" /\ Outcome = "ok"
  BY DEF ExitInv, Closing
<1>2. /\ readErr \notin {"deadline", "other"} /\ ~formatErr /\ ~egErr /\ ~formatError
      /\ writer = "done" /\ ~ChangeErr
  BY <1>1 DEF Outcome, CloseErr, TypeOK
<1>3. AllIdle /\ \A k \in Keys : batches[k] = {}
  BY <1>1 DEF ExitInv, Closing, UpdateChClosed
<1>4. \A w \in Workers : Held(job[w]) = {}
  BY <1>3, JobFields DEF AllIdle, Held, TypeOK
<1>5. \A f : ~InHands(f)
  BY <1>3, <1>4 DEF InHands
<1>6. inbox = {} /\ (unread = {} \/ cancelled)
  BY <1>1, <1>2 DEF ExitInv, WalkKnown, TypeOK
<1> QED
  BY <1>1, <1>2, <1>5, <1>6 DEF ExitInv, Closing

\* A run that returns nil looked at every file unless it was interrupted, put
\* each accepted file through all its formatters, and recorded it: no failure of
\* a formatter, a stat or a cache transaction is lost on the way to the exit
\* status (format.go:183-216).
THEOREM ExitCorrect == Spec => []HonestExit
<1>1. TypeOK /\ ExitInv => HonestExit
  <2> SUFFICES ASSUME TypeOK, ExitInv, outcome = "ok"
               PROVE  /\ inbox = {} /\ (unread = {} \/ cancelled)
                      /\ \A f \in Accepted : FullyFormatted(f)
                      /\ UseCache => Accepted \subseteq db
    BY DEF HonestExit
  <2>1. \A f \in Accepted : FullyFormatted(f) /\ (UseCache => f \in Recorded)
    BY OkMeans DEF ExitInv, Ledger, Accounted
  <2> QED
    BY <2>1, OkMeans DEF Recorded
<1> QED
  BY <1>1, TypeCorrect, ExitAlways, PTL

\* Under --fail-on-change a run that returns nil leaves every file with the size
\* and the second of modification it was read with: a difference is counted after
\* the last formatter and before the file is released, or the run fails.
THEOREM ChangesCorrect == Spec => []NoChangeMissed
<1>1. TypeOK /\ ExitInv => NoChangeMissed
  <2> SUFFICES ASSUME TypeOK, ExitInv, outcome = "ok", FailOnChange, NEW f \in differs
               PROVE  FALSE
    BY DEF NoChangeMissed
  <2>1. ChangeCounted(f) /\ (\A w \in Workers : f \notin Held(job[w])) /\ ~egErr
    BY OkMeans DEF ExitInv, Ledger, InHands
  <2>2. stats["changed"] = 0
    BY OkMeans DEF ChangeErr
  <2> QED
    BY <2>1, <2>2 DEF ChangeCounted
<1> QED
  BY <1>1, TypeCorrect, ExitAlways, PTL
=============================================================================
