---------------------- MODULE RepairPipelineRefinement ----------------------
(***************************************************************************)
(* RepairPipeline implements FormatContract under the mapping of Contract: *)
(* every step of the pipeline is a step of the contract or invisible.      *)
(*                                                                         *)
(*   Read, Abort, Schedule, EndApply,                                      *)
(*   CloseFormatter, EndFormat,                                            *)
(*   StatError, PostFile, Take       invisible                             *)
(*   SkipUnmatched, SkipCached       Skip                                  *)
(*   Submit                          Accept                                *)
(*   ApplyFormatter                  Finish, for the files of the last     *)
(*                                   formatter's chunk                     *)
(*   Flush                           Record, or invisible when it fails    *)
(*   Interrupt                       Interrupt                             *)
(*   Return                          Succeed or Fail                       *)
(***************************************************************************)
EXTENDS RepairPipelineExitProofs

USE DEF Keys

-----------------------------------------------------------------------------
(* The mapping.                                                            *)

statusBar == [f \in Files |-> Status(f)]
exitBar == IF outcome \in {"none", "ok"} THEN outcome ELSE "error"
contractVars == <<statusBar, db, cancelled, exitBar>>

Ignoring == {f \in Files : f \in Excluded \/ Wants[f] = {}}

LEMMA Invisible ==
  ASSUME UNCHANGED <<db, cancelled, outcome>>, \A f \in Files : Status(f)' = Status(f)
  PROVE  UNCHANGED contractVars
  BY DEF contractVars, statusBar, exitBar

\* The status of a file depends on where it is and on its results.
LEMMA StatusKept ==
  ASSUME UNCHANGED <<cached, result>>, NEW f \in Files,
         f \in unread' \cup inbox' <=> f \in unread \cup inbox
  PROVE  Status(f)' = Status(f)
  BY DEF Status, FullyFormatted

\* A step that moves no file out of the walk and changes no result is invisible.
LEMMA QuietStep ==
  ASSUME UNCHANGED <<cached, result, db, cancelled, outcome>>,
         unread' \cup inbox' = unread \cup inbox
  PROVE  UNCHANGED contractVars
  BY StatusKept, Invisible

LEMMA SkipRefines ==
  ASSUME TypeOK, OwnedOnce, OrderInv, NEW f \in Files, SkipUnmatched(f) \/ SkipCached(f),
         outcome = "none"
  PROVE  Contract!Next
<1>1. /\ f \in inbox /\ inbox' = inbox \ {f} /\ f \notin unread
      /\ UNCHANGED <<unread, cached, result, db, cancelled, outcome>>
  BY DEF SkipUnmatched, SkipCached, OwnedOnce, workVars, writerVars, given
<1>2. f \in Ignoring \cup db
  BY DEF SkipUnmatched, SkipCached, Ignoring, OrderInv, Selection, given
<1>3. Status(f) = "waiting" /\ Status(f)' = "skipped"
  BY <1>1 DEF Status, SkipUnmatched, SkipCached, given
<1>4. \A e \in Files \ {f} : Status(e)' = Status(e)
  BY <1>1, StatusKept
<1>5. statusBar' = [statusBar EXCEPT ![f] = "skipped"]
  BY <1>3, <1>4 DEF statusBar
<1>6. Contract!Skip(f)
  BY <1>1, <1>2, <1>3, <1>5 DEF Contract!Skip, statusBar, exitBar, Ignoring
<1> QED
  BY <1>6 DEF Contract!Next

LEMMA SubmitRefines ==
  ASSUME IInv, OrderInv, NEW f \in Files, Submit(f), outcome = "none"
  PROVE  Contract!Next
<1>1. /\ f \in inbox /\ inbox' = inbox \ {f} /\ f \notin unread
      /\ f \notin Excluded /\ f \notin cached /\ Wants[f] # {}
      /\ UNCHANGED <<unread, cached, result, db, cancelled, outcome>>
  BY DEF Submit, IInv, OwnedOnce, workVars, writerVars, given
<1>2. f \notin Ignoring \cup db
  BY <1>1 DEF Ignoring, IInv, LetGo, Recorded
<1>3. \A g \in Wants[f] : result[f][g] = "none"
  BY <1>1, PipelineAssumption DEF OrderInv, Freshness, Fresh
<1>4. Status(f) = "waiting" /\ Status(f)' = "working"
  BY <1>1, <1>3 DEF Status
<1>5. \A e \in Files \ {f} : Status(e)' = Status(e)
  BY <1>1, StatusKept
<1>6. statusBar' = [statusBar EXCEPT ![f] = "working"]
  BY <1>4, <1>5 DEF statusBar
<1>7. Contract!Accept(f)
  BY <1>1, <1>2, <1>4, <1>6 DEF Contract!Accept, statusBar, exitBar, Ignoring
<1> QED
  BY <1>7 DEF Contract!Next

\* A file of a formatting job is accepted, and still wants the formatter that
\* is about to handle it.
LEMMA AtWork ==
  ASSUME IInv, OrderInv, NEW w \in Workers, job[w].stage = "format",
         NEW g \in job[w].left, Foremost(g, job[w].left), NEW f \in job[w].todo
  PROVE  Status(f) = "working" /\ f \in Files
<1> DEFINE j == job[w]
<1>1. JobOK(j) /\ j.todo \subseteq j.batch /\ j.left \subseteq j.key /\ f \in Files
  BY JobFields DEF IInv, TypeOK
<1>2. f \notin unread \cup inbox /\ f \in Chosen /\ Wants[f] = j.key
  BY <1>1 DEF IInv, OwnedOnce, JobProgress, OrderInv, Selection
<1>3. result[f][g] = "none"
  BY <1>1 DEF OrderInv, Stepwise, Handled
<1> QED
  BY <1>1, <1>2, <1>3 DEF Status, Chosen

LEMMA ApplyRefines ==
  ASSUME IInv, OrderInv, NEW w \in Workers, ApplyFormatter(w), outcome = "none"
  PROVE  Contract!Next
<1>1. PICK g \in job[w].left, ok \in BOOLEAN :
         Foremost(g, job[w].left) /\ \E chunk \in Chunks(g, job[w].todo) : RunOn(w, g, chunk, ok)
  BY DEF ApplyFormatter, given
<1> PICK chunk \in Chunks(g, job[w].todo) : RunOn(w, g, chunk, ok)
  BY <1>1
<1>2. /\ job[w].stage = "format"
      /\ UNCHANGED <<unread, inbox, cached, db, cancelled, outcome>>
  BY DEF ApplyFormatter, mainVars, writerVars, given
<1>3. \A f \in Files \ chunk : result'[f] = result[f]
  BY DEF RunOn
<1>4. \A f \in chunk : f \in Files /\ Status(f) = "working"
  BY <1>1, <1>2, AtWork, ChunkInTodo
<1> DEFINE good == {f \in chunk : Status(f)' = "formatted"}
           bad  == {f \in chunk : Status(f)' = "failed"}
<1>5. \A f \in chunk : Status(f)' \in {"working", "formatted", "failed"}
  BY <1>2, <1>4 DEF Status
<1>6. \A f \in Files \ chunk : Status(f)' = Status(f)
  BY <1>2, <1>3 DEF Status, FullyFormatted
<1>7. \A f \in Files : Status(f)' = IF f \in good THEN "formatted"
                                    ELSE IF f \in bad THEN "failed" ELSE Status(f)
  BY <1>4, <1>5, <1>6
<1>8. good \cap bad = {} /\ good \in SUBSET Files /\ bad \in SUBSET Files
  BY <1>4
<1>9. \A f \in good \cup bad : f \in Files /\ statusBar[f] = "working"
  BY <1>4 DEF statusBar
<1> HIDE DEF good, bad
<1>10. statusBar' = [f \in Files |-> IF f \in good THEN "formatted"
                                     ELSE IF f \in bad THEN "failed" ELSE statusBar[f]]
  BY <1>7 DEF statusBar
<1>11. Contract!Finish(good, bad)
  BY <1>2, <1>8, <1>9, <1>10 DEF Contract!Finish, Contract!Having, statusBar, exitBar
<1> QED
  BY <1>8, <1>11 DEF Contract!Next

\* What the writer commits was formatted in this run.
LEMMA CommitRefines ==
  ASSUME IInv, OrderInv, Flush, db' = db \cup wbuf, outcome = "none"
  PROVE  Contract!Next
<1>1. UNCHANGED <<unread, inbox, cached, result, cancelled, outcome>>
  BY DEF Flush, mainVars, workVars, given
<1>2. \A f \in Files : Status(f)' = Status(f)
  BY <1>1, StatusKept
<1>3. ASSUME NEW f \in wbuf PROVE f \in Files /\ Status(f) = "formatted"
  <2>1. f \in Chosen /\ f \in Recorded \ cached
    BY DEF OrderInv, Selection, Chosen, Recorded
  <2>2. f \notin unread \cup inbox /\ FullyFormatted(f)
    BY <2>1 DEF IInv, LetGo, RecordedMeansFormatted
  <2> QED
    BY <2>1, <2>2 DEF Status, Chosen, FullyFormatted
<1>4. statusBar' = statusBar /\ exitBar' = exitBar
  BY <1>1, <1>2 DEF statusBar, exitBar
<1>5. wbuf \in SUBSET Files
  BY <1>3
<1>6. Contract!Record(wbuf)
  BY <1>1, <1>3, <1>4 DEF Contract!Record, Contract!Having, statusBar, exitBar
<1> QED
  BY <1>5, <1>6 DEF Contract!Next

\* An accepted file is one the contract sees working, formatted or failed.
LEMMA AcceptedStatus ==
  ASSUME NEW f \in Files, Status(f) \notin {"waiting", "skipped"}
  PROVE  f \in Accepted
  BY DEF Status, Accepted

LEMMA ReturnRefines ==
  ASSUME TypeOK, HonestExit', Return, outcome = "none"
  PROVE  Contract!Next
<1>1. /\ UNCHANGED <<unread, inbox, cached, result, db, cancelled>>
      /\ outcome' = Outcome
  BY DEF Return, workVars, writerVars, given
<1>2. \A f \in Files : Status(f)' = Status(f)
  BY <1>1, StatusKept
<1>3. statusBar' = statusBar
  BY <1>2 DEF statusBar
<1>4. CASE outcome' = "ok"
  <2>1. /\ inbox = {} /\ (unread = {} \/ cancelled)
        /\ \A f \in Accepted : FullyFormatted(f)
        /\ UseCache => Accepted \subseteq db
    BY <1>1, <1>4 DEF HonestExit, Accepted, FullyFormatted
  <2>2. \A f \in Files : Status(f) \notin {"working", "failed"}
    BY <2>1, AcceptedStatus DEF Status, FullyFormatted
  <2>3. cancelled \/ \A f \in Files : Status(f) # "waiting"
    BY <2>1 DEF Status
  <2>4. UseCache => \A f \in Files : Status(f) = "formatted" => f \in db
    BY <2>1, AcceptedStatus
  <2>5. Contract!Succeed
    BY <1>1, <1>3, <1>4, <2>2, <2>3, <2>4
       DEF Contract!Succeed, Contract!Having, statusBar, exitBar
  <2> QED
    BY <2>5 DEF Contract!Next
<1>5. CASE outcome' # "ok"
  <2>1. exitBar' = "error"
    BY <1>1, <1>5 DEF exitBar, Outcome
  <2>2. Contract!Fail
    BY <1>1, <1>3, <2>1 DEF Contract!Fail, statusBar, exitBar
  <2> QED
    BY <2>2 DEF Contract!Next
<1> QED
  BY <1>4, <1>5

LEMMA InterruptRefines ==
  ASSUME Interrupt, outcome = "none"
  PROVE  Contract!Next
<1>1. UNCHANGED <<unread, inbox, cached, result, db, outcome>> /\ cancelled'
  BY DEF Interrupt, mainVars, workVars, writerVars, given
<1>2. \A f \in Files : Status(f)' = Status(f)
  BY <1>1, StatusKept
<1>3. Contract!Interrupt
  BY <1>1, <1>2 DEF Contract!Interrupt, statusBar, exitBar, Interrupt, given
<1> QED
  BY <1>3 DEF Contract!Next

-----------------------------------------------------------------------------
(* Every step.                                                             *)

\* Once Run has returned nothing moves.
LEMMA StillAtTheEnd ==
  ASSUME TypeOK, ExitInv, [Next]_vars, outcome # "none"
  PROVE  UNCHANGED vars
<1>1. pc = "returned" /\ writer # "running" /\ \A w \in Workers : job[w].stage = "idle"
  BY DEF ExitInv, Closing, UpdateChClosed, AllIdle
<1> QED
  BY <1>1 DEF Next, Main, Read, EndApply, CloseFormatter, Return, SkipUnmatched, Abort,
     SkipCached, Submit, Schedule, Interrupt, Work, ApplyFormatter, EndFormat, StatError,
     PostFile, Take, Flush, Done, given

LEMMA StepRefines ==
  ASSUME IInv, OrderInv, ExitInv, HonestExit', [Next]_vars
  PROVE  Contract!Next \/ UNCHANGED contractVars
<1>0. TypeOK /\ OwnedOnce
  BY DEF IInv
<1>1. CASE outcome # "none"
  <2>1. UNCHANGED vars
    BY <1>0, <1>1, StillAtTheEnd
  <2> QED
    BY <2>1, QuietStep DEF vars, mainVars, workVars, writerVars, given
<1>2. CASE outcome = "none"
  <2>1. CASE Read
    <3>1. unread' \cup inbox' = unread \cup inbox
      <4>1. inbox = {}
        BY <2>1 DEF Read, ExitInv, WalkKnown, given
      <4>2. PICK chunk \in SUBSET unread : inbox' = chunk /\ unread' = unread \ chunk
        BY <2>1 DEF Read, given
      <4> QED
        BY <4>1, <4>2
    <3> QED
      BY <2>1, <3>1, QuietStep DEF Read, workVars, writerVars, given
  <2>2. CASE EndApply \/ CloseFormatter
    BY <2>2, QuietStep DEF EndApply, CloseFormatter, workVars, writerVars, given
  <2>3. CASE Return
    BY <1>0, <1>2, <2>3, ReturnRefines
  <2>4. ASSUME NEW f \in Files, SkipUnmatched(f) \/ SkipCached(f) PROVE Contract!Next
    BY <1>0, <1>2, <2>4, SkipRefines
  <2>5. ASSUME NEW f \in Files, Abort(f) PROVE UNCHANGED contractVars
    BY <2>5, QuietStep DEF Abort, workVars, writerVars, given
  <2>6. ASSUME NEW f \in Files, Submit(f) PROVE Contract!Next
    BY <1>2, <2>6, SubmitRefines
  <2>7. ASSUME NEW k \in Keys, NEW w \in Workers, Schedule(k, w) PROVE UNCHANGED contractVars
    BY <2>7, QuietStep DEF Schedule, writerVars, given
  <2>8. CASE Interrupt
    BY <1>2, <2>8, InterruptRefines
  <2>9. ASSUME NEW w \in Workers, ApplyFormatter(w) PROVE Contract!Next
    BY <1>2, <2>9, ApplyRefines
  <2>10. ASSUME NEW w \in Workers, EndFormat(w) \/ StatError(w) \/ PostFile(w)
         PROVE  UNCHANGED contractVars
    BY <2>10, QuietStep DEF EndFormat, StatError, PostFile, mainVars, writerVars, given
  <2>11. CASE Take
    BY <2>11, QuietStep DEF Take, mainVars, workVars, given
  <2>12. CASE Flush
    <3>1. CASE db' = db \cup wbuf
      BY <1>2, <2>12, <3>1, CommitRefines
    <3>2. CASE db' = db
      BY <2>12, <3>2, QuietStep DEF Flush, mainVars, workVars, given
    <3> QED
      BY <2>12, <3>1, <3>2 DEF Flush, given
  <2>13. CASE UNCHANGED vars
    BY <2>13, QuietStep DEF vars, mainVars, workVars, writerVars, given
  <2> QED
    BY <2>1, <2>2, <2>3, <2>4, <2>5, <2>6, <2>7, <2>8, <2>9, <2>10, <2>11, <2>12, <2>13
       DEF Next, Main, Work, Done
<1> QED
  BY <1>1, <1>2

LEMMA InitRefines == Init => Contract!Init
<1> SUFFICES ASSUME Init PROVE Contract!Init
  OBVIOUS
<1>1. \A f \in Files : Status(f) = "waiting"
  BY DEF Init, Status
<1> QED
  BY <1>1 DEF Init, Contract!Init

\* The pipeline implements the contract: seen through the mapping, batching,
\* the worker pool, the channel and the cache writer are invisible, and every
\* behaviour is one FormatContract allows.
THEOREM RefinementCorrect == Spec => ImplementsContract
<1>1. IInv /\ OrderInv /\ ExitInv /\ HonestExit' /\ [Next]_vars => [Contract!Next]_(Contract!vars)
  BY StepRefines DEF contractVars, statusBar, exitBar, Contract!vars
<1> QED
  BY <1>1, InitRefines, IInvAlways, OrderAlways, ExitAlways, ExitCorrect, PTL
     DEF Spec, ImplementsContract, Contract!Spec
=============================================================================
