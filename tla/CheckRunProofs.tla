--------------------------- MODULE CheckRunProofs ---------------------------
(***************************************************************************)
(* Theorems about CheckRun for any files, tools, versions and cached runs.   *)
(*                                                                         *)
(* First the types, then what the steps of a run know of the tree (ReadInv), *)
(* then what the cache vouches for (TrustInv), then the verdicts.            *)
(***************************************************************************)
EXTENDS CheckRun, FiniteSetTheorems, TLAPS

-----------------------------------------------------------------------------
(* The steps.                                                              *)

\* A run that ends without a verdict: with code 2, or 1 if the config is at fault; a
\* linter's refusal is the one end that is no failure.
Abort ==
  /\ \/ "config" \in setup.faults /\ EndRun(1, TRUE)
     \/ EndRun(2, TRUE)
     \/ setup.noPositional \cap Linters # {} /\ EndRun(2, FALSE)
  /\ UNCHANGED <<tree, db, undisturbed>>

\* A signal while a tool works on the tree, read as findings of the tool.
Killed(t) ==
  /\ Turn(t) /\ OnTheTree(t) /\ CanStart /\ "signal" \in setup.faults
  /\ Report(t) /\ pending' = pending \ {t} /\ interrupted' = TRUE
  /\ UNCHANGED <<tree, db, pc, input, sandbox, acc, queue, exit, failed, undisturbed>>

\* Every step is one of these.
LEMMA StepCases ==
  ASSUME Next
  PROVE  \/ Abort \/ Start \/ Read \/ Match
         \/ \E t \in Tools : CheckOnTree(t) \/ Killed(t) \/ Copy(t)
         \/ \E l \in Linters : Accumulate(l) \/ SkipCached(l) \/ CheckWholeTree(l)
                               \/ Store(l) \/ WholeTreeKilled(l)
         \/ Compare \/ EndBatch \/ Finish
         \/ \E f \in setup.files : Save(f) \/ Move(f)
         \/ Signal
<1>1. LoadConfigFails \/ SetupFails \/ MatchFatal \/ CompareFails \/ WalkFails => Abort
  BY DEF LoadConfigFails, SetupFails, MatchFatal, CompareFails, WalkFails, Abort, OperationalCode
<1>2. ASSUME NEW t \in Tools, CheckFails(t) \/ CopyFails(t) \/ Refuse(t)
      PROVE  Abort
  <2>1. Refused(t) => setup.noPositional \cap Linters # {}
    BY DEF Refused
  <2> QED
    BY <1>2, <2>1 DEF CheckFails, CopyFails, Refuse, Abort, OperationalCode
<1>3. ASSUME NEW t \in Tools, CheckKilled(t)
      PROVE  Killed(t) \/ Abort
  BY <1>3 DEF CheckKilled, Killed, Abort, OperationalCode, tree
<1>4. ASSUME NEW l \in Linters, WholeTreeFails(l)
      PROVE  Abort
  BY <1>4 DEF WholeTreeFails, Abort, OperationalCode
<1>5. ASSUME NEW t \in Tools, ToolStep(t)
      PROVE  CheckOnTree(t) \/ Killed(t) \/ Copy(t) \/ Abort
  BY <1>2, <1>3, <1>5 DEF ToolStep
<1>6. ASSUME NEW l \in Linters, LinterStep(l)
      PROVE  Accumulate(l) \/ SkipCached(l) \/ CheckWholeTree(l) \/ Store(l)
             \/ WholeTreeKilled(l) \/ Abort
  BY <1>4, <1>6 DEF LinterStep
<1>7. Step
  BY DEF Next
<1> QED
  BY <1>1, <1>5, <1>6, <1>7 DEF Step

-----------------------------------------------------------------------------
(* Types.                                                                  *)

LEMMA NowTyped ==
  ASSUME TypeOK, NEW S
  PROVE  Versions(Now(S))
  BY DEF TypeOK, Versions, Now

LEMMA SetupTyped ==
  ASSUME setup \in Setups
  PROVE  /\ setup.files \subseteq Files /\ setup.midRun \subseteq {"saved", "created"}
         /\ setup.wants \in [Tools -> SUBSET Files]
  BY CheckAssumption DEF Setup

LEMMA BatchTyped ==
  ASSUME TypeOK, NEW t
  PROVE  Versions(Matched(t))
  BY DEF TypeOK, Versions, Matched

\* The empty batch is small enough.
LEMMA NoBatch == Cardinality({}) <= BatchSize
  BY FS_EmptySet, CheckAssumption

LEMMA EndRunTyped ==
  ASSUME TypeOK, setup' = setup, NEW code \in {0, 1, 2}, NEW why \in BOOLEAN, EndRun(code, why),
         UNCHANGED <<tree, db, undisturbed>>
  PROVE  TypeOK'
  BY NoBatch DEF TypeOK, EndRun, tree, Versions

LEMMA TypeInit == Init => TypeOK
<1> SUFFICES ASSUME Init
             PROVE  TypeOK
  OBVIOUS
<1>1. 1 \in 1 .. MaxVersion
  BY CheckAssumption
<1>2. there \subseteq Files
  BY SetupTyped DEF Init
<1> QED
  BY <1>1, <1>2, NoBatch DEF Init, TypeOK, Versions

LEMMA TypeStep == TypeOK /\ [Next]_vars => TypeOK'
<1> SUFFICES ASSUME TypeOK, [Next]_vars
             PROVE  TypeOK'
  OBVIOUS
<1>1. CASE UNCHANGED vars
  BY <1>1 DEF TypeOK, vars, tree, input, Versions
<1>2. CASE Next
  <2>0. setup' = setup
    BY <1>2 DEF Next
  <2>1. CASE Abort
    BY <2>0, <2>1, EndRunTyped DEF Abort
  <2>2. CASE Start
    BY <2>0, <2>2 DEF TypeOK, Start, tree, Versions
  <2>3. CASE Read
    <3>1. PICK B \in SUBSET todo : todo' = todo \ B /\ batch' = Now(B)
                                   /\ Cardinality(Now(B)) <= BatchSize
      BY <2>3 DEF Read
    <3>2. Versions(batch')
      BY <3>1, NowTyped
    <3> QED
      BY <2>0, <2>3, <3>1, <3>2 DEF TypeOK, Read, tree, Versions
  <2>4. CASE Match
    BY <2>0, <2>4 DEF TypeOK, Match, tree, input, Versions
  <2>5. ASSUME NEW t \in Tools, CheckOnTree(t) \/ Killed(t)
        PROVE  TypeOK'
    <3>1. CASE CheckOnTree(t)
      BY <2>0, <3>1 DEF TypeOK, CheckOnTree, Report, tree, input, Versions
    <3>2. CASE Killed(t)
      BY <2>0, <3>2 DEF TypeOK, Killed, Report, tree, input, Versions
    <3> QED
      BY <2>5, <3>1, <3>2
  <2>6. ASSUME NEW t \in Tools, Copy(t)
        PROVE  TypeOK'
    <3>1. Versions(Now(Names(Matched(t))))
      BY NowTyped
    <3>2. sandbox'.tool \in Formatters /\ Versions(sandbox'.files)
      BY <2>6, <3>1 DEF Copy
    <3> QED
      BY <2>0, <2>6, <3>2 DEF TypeOK, Copy, tree, input, Versions
  <2>7. ASSUME NEW l \in Linters, Accumulate(l)
        PROVE  TypeOK'
    <3>1. Versions(Gathered(l))
      BY BatchTyped DEF Gathered, TypeOK, Versions
    <3>2. DOMAIN acc' = Linters /\ \A k \in Linters : Versions(acc'[k])
      BY <2>7, <3>1 DEF Accumulate, TypeOK
    <3> QED
      BY <2>0, <2>7, <3>2 DEF TypeOK, Accumulate, tree, input, Versions
  <2>8. ASSUME NEW l \in Linters, SkipCached(l) \/ CheckWholeTree(l) \/ WholeTreeKilled(l)
        PROVE  TypeOK'
    <3>1. CASE SkipCached(l)
      BY <2>0, <3>1 DEF TypeOK, SkipCached, tree, input, Versions
    <3>2. CASE CheckWholeTree(l)
      BY <2>0, <3>2 DEF TypeOK, CheckWholeTree, Report, tree, input, Versions, Tools
    <3>3. CASE WholeTreeKilled(l)
      BY <2>0, <3>3 DEF TypeOK, WholeTreeKilled, Report, tree, input, Versions, Tools
    <3> QED
      BY <2>8, <3>1, <3>2, <3>3
  <2>9. ASSUME NEW l \in Linters, Store(l)
        PROVE  TypeOK'
    <3>1. DOMAIN db' = Linters /\ \A k \in Linters : db'[k] = None \/ Versions(db'[k])
      BY <2>9 DEF Store, Key, TypeOK
    <3>2. undisturbed' \in BOOLEAN
      BY <2>9 DEF Store, TypeOK
    <3> QED
      BY <2>0, <2>9, <3>1, <3>2 DEF TypeOK, Store, tree, input, Versions
  <2>10. CASE Compare
    <3>1. sandbox.tool \in Tools
      BY <2>10 DEF Compare, TypeOK, Tools
    <3>2. findings' = findings \cup {sandbox.tool} \/ findings' = findings
      BY <2>10 DEF Compare, Report
    <3>3. findings' \subseteq Tools
      BY <3>1, <3>2 DEF TypeOK
    <3> QED
      BY <2>0, <2>10, <3>3 DEF TypeOK, Compare, tree, input, Versions
  <2>11. CASE EndBatch
    BY <2>0, <2>11 DEF TypeOK, EndBatch, tree, input, Versions
  <2>12. CASE Finish
    BY <2>0, <2>12, EndRunTyped DEF Finish, FindingsCode
  <2>13. ASSUME NEW f \in setup.files, Save(f) \/ Move(f)
         PROVE  TypeOK'
    <3>1. f \in Files
      BY SetupTyped DEF TypeOK
    <3>2. ver' \in [Files -> 1 .. MaxVersion]
      <4>1. MaxVersion \in Nat
        BY CheckAssumption
      <4> QED
        BY <2>13, <3>1, <4>1 DEF Save, Move, TypeOK
    <3> QED
      BY <2>0, <2>13, <3>1, <3>2 DEF TypeOK, Save, Move, input, Versions
  <2>14. CASE Signal
    BY <2>0, <2>14 DEF TypeOK, Signal, tree, input, Versions
  <2> QED
    BY <1>2, StepCases, <2>1, <2>2, <2>3, <2>4, <2>5, <2>6, <2>7, <2>8, <2>9, <2>10, <2>11,
       <2>12, <2>13, <2>14
<1> QED
  BY <1>1, <1>2

\* Type correctness of the check runs: a batch is never larger than BatchSize, whole-tree
\* entries are sets of versions, exit codes are 0, 1 or 2 (CheckRun.TypeOK).
THEOREM TypeCorrect == Spec => []TypeOK
  BY TypeInit, TypeStep, PTL DEF Spec

-----------------------------------------------------------------------------
(* What a run knows of the tree.                                           *)

\* While the run is calm the files it has seen are as it saw them; while the tree is
\* fixed there are no others.
Calm  == undisturbed \/ Quiet
Fixed == undisturbed \/ "created" \notin setup.midRun

Seen(p) == p[1] \in there /\ p[2] <= ver[p[1]] /\ (Calm => p[2] = ver[p[1]])

\* Between two runs only the exit code and the cache are left of the first.
Idle ==
  IF pc = "off"
  THEN /\ todo = {} /\ batch = {} /\ last = "nil" /\ pending = {} /\ sandbox = None
       /\ acc = [l \in Linters |-> {}] /\ queue = {} /\ findings = {} /\ interrupted = FALSE
  ELSE exit = None

\* What is at work in which stage, and how the walk ended.
Stages ==
  /\ pending # {} => pc = "tools"
  /\ sandbox # None => sandbox.tool \in pending \cap (Formatters \ Native)
  /\ queue # {} => pc \in {"finalize", "store"}
  /\ pc = "read" => last = "nil"
  /\ pc \in {"finalize", "store"} => last \in {"eof", "canceled"}
  /\ last = "eof" => todo = {}
  /\ last = "canceled" => interrupted
  /\ interrupted => "signal" \in setup.faults /\ (undisturbed => findings # {})

\* What the run has in hand is what it saw of the tree.
SeenInv ==
  /\ \A p \in batch : Seen(p)
  /\ \A l \in Linters : \A p \in acc[l] : Seen(p) /\ Matches(l, p[1])
  /\ \A l \in queue : acc[l] # {}
  /\ sandbox # None /\ Calm => sandbox.files = Matched(sandbox.tool)

\* Tool t has yet to see file f.
Waits(t, f) == f \in todo \/ (f \in Names(batch) /\ (pc = "match" \/ t \in pending))

\* No file of a fixed tree escapes the whole-tree linters that match it.
Gathers ==
  Fixed /\ pc # "off" =>
    \A l \in WholeTree : \A f \in there :
      Matches(l, f) => Waits(l, f) \/ f \in Names(acc[l])

ReadInv == TypeOK /\ Idle /\ Stages /\ SeenInv /\ Gathers

\* The files of S as they are now have been seen, and nothing else.
LEMMA NowSeen ==
  ASSUME TypeOK, NEW S
  PROVE  Names(Now(S)) = S \cap there /\ \A p \in Now(S) : Seen(p)
<1>1. \A f \in there : f \in Files /\ ver[f] \in Int
  BY DEF TypeOK
<1>2. \A p \in Now(S) : \E f \in S \cap there : p[1] = f /\ p[2] = ver[f]
  BY DEF Now
<1>3. \A f \in S \cap there : <<f, ver[f]>> \in Now(S)
  BY DEF Now
<1>4. Names(Now(S)) = S \cap there
  BY <1>2, <1>3 DEF Names
<1>5. \A p \in Now(S) : Seen(p)
  BY <1>1, <1>2 DEF Seen
<1> QED
  BY <1>4, <1>5

LEMMA IdleStep == TypeOK /\ Idle /\ Stages /\ Next => Idle'
<1> SUFFICES ASSUME TypeOK, Idle, Stages, Next
             PROVE  Idle'
  OBVIOUS
<1>1. CASE Abort
  BY <1>1 DEF Abort, EndRun, Idle
<1>2. CASE Start \/ Read \/ Match \/ EndBatch
  BY <1>2 DEF Start, Read, Match, EndBatch, Idle, input
<1>3. ASSUME NEW t \in Tools, CheckOnTree(t) \/ Killed(t) \/ Copy(t)
      PROVE  Idle'
  BY <1>3 DEF CheckOnTree, Killed, Copy, Turn, Idle
<1>4. ASSUME NEW l \in Linters, Accumulate(l) \/ SkipCached(l) \/ CheckWholeTree(l)
                                \/ Store(l) \/ WholeTreeKilled(l)
      PROVE  Idle'
  BY <1>4 DEF Accumulate, SkipCached, CheckWholeTree, Store, WholeTreeKilled, NextInQueue, Turn,
              Idle
<1>5. CASE Compare
  BY <1>5 DEF Compare, Idle
<1>6. CASE Finish
  BY <1>6 DEF Finish, EndRun, Idle
<1>7. ASSUME NEW f \in setup.files, Save(f) \/ Move(f)
      PROVE  Idle'
  BY <1>7 DEF Save, Move, Idle, input
<1>8. CASE Signal
  BY <1>8 DEF Signal, Idle
<1> QED
  BY StepCases, <1>1, <1>2, <1>3, <1>4, <1>5, <1>6, <1>7, <1>8

LEMMA StagesStep == TypeOK /\ Idle /\ Stages /\ Next => Stages'
<1> SUFFICES ASSUME TypeOK, Idle, Stages, Next
             PROVE  Stages'
  OBVIOUS
<1>0. setup' = setup
  BY DEF Next
<1>1. CASE Abort
  BY <1>1 DEF Abort, EndRun, Stages
<1>2. CASE Start
  BY <1>2 DEF Start, Stages, Idle
<1>3. CASE Read
  <2>1. last' = "eof" => todo' = {}
    BY <1>3 DEF Read, AtEof
  <2>2. last' = "canceled" => interrupted'
    BY <1>3 DEF Read
  <2> QED
    BY <1>0, <1>3, <2>1, <2>2 DEF Read, Stages, tree
<1>4. CASE Match
  <2>1. sandbox = None
    BY <1>4 DEF Match, Stages
  <2> QED
    BY <1>0, <1>4, <2>1 DEF Match, Stages, input
<1>5. ASSUME NEW t \in Tools, CheckOnTree(t)
      PROVE  Stages'
  BY <1>0, <1>5 DEF CheckOnTree, Turn, Report, Stages, input
<1>6. ASSUME NEW t \in Tools, Killed(t)
      PROVE  Stages'
  BY <1>0, <1>6 DEF Killed, Turn, Report, Stages, input
<1>7. ASSUME NEW t \in Tools, Copy(t)
      PROVE  Stages'
  <2>1. sandbox'.tool = t /\ t \in pending \cap (Formatters \ Native)
    BY <1>7 DEF Copy, Turn
  <2> QED
    BY <1>0, <1>7, <2>1 DEF Copy, Turn, Stages, input
<1>8. ASSUME NEW l \in Linters, Accumulate(l)
      PROVE  Stages'
  BY <1>0, <1>8 DEF Accumulate, Turn, Stages, input
<1>9. ASSUME NEW l \in Linters, SkipCached(l) \/ CheckWholeTree(l)
      PROVE  Stages'
  BY <1>0, <1>9 DEF SkipCached, CheckWholeTree, NextInQueue, Report, Stages, input
<1>10. ASSUME NEW l \in Linters, Store(l)
       PROVE  Stages'
  BY <1>0, <1>10 DEF Store, Stages, input
<1>11. ASSUME NEW l \in Linters, WholeTreeKilled(l)
       PROVE  Stages'
  BY <1>0, <1>11 DEF WholeTreeKilled, NextInQueue, Report, Stages, input
<1>12. CASE Compare
  <2>1. findings \subseteq findings'
    BY <1>12 DEF Compare, Report
  <2> QED
    BY <1>0, <1>12, <2>1 DEF Compare, Stages, input
<1>13. CASE EndBatch
  <2>1. last \in {"eof", "canceled"} \/ last = "nil"
    BY <1>13 DEF EndBatch, TypeOK
  <2> QED
    BY <1>0, <1>13, <2>1 DEF EndBatch, Stages, input
<1>14. CASE Finish
  BY <1>14 DEF Finish, EndRun, Stages
<1>15. ASSUME NEW f \in setup.files, Save(f) \/ Move(f)
       PROVE  Stages'
  BY <1>0, <1>15 DEF Save, Move, Stages, input
<1>16. CASE Signal
  BY <1>0, <1>16 DEF Signal, Stages, input
<1> QED
  BY StepCases, <1>1, <1>2, <1>3, <1>4, <1>5, <1>6, <1>7, <1>8, <1>9, <1>10, <1>11, <1>12, <1>13,
     <1>14, <1>15, <1>16

\* A step of the run leaves what was seen as it was.
LEMMA SeenKept ==
  ASSUME UNCHANGED <<setup, tree>>, undisturbed' => undisturbed
  PROVE  \A p : Seen(p) => Seen(p)'
  BY DEF Seen, tree, Calm, Quiet

\* So does a save while the run is at work: the tree is not quiet.
LEMMA SeenSaved ==
  ASSUME TypeOK, setup' = setup, NEW f \in setup.files, Save(f), pc # "off"
  PROVE  \A p : p[1] \in Files /\ p[2] \in Int /\ Seen(p) => Seen(p)'
<1>1. ~Calm'
  BY DEF Save, Calm, Quiet
<1>2. \A g \in Files : ver[g] \in Int /\ ver'[g] \in Int /\ ver[g] <= ver'[g]
  BY SetupTyped DEF Save, TypeOK
<1>3. there \subseteq there'
  BY DEF Save
<1> QED
  BY <1>1, <1>2, <1>3 DEF Seen

LEMMA SeenStep == TypeOK /\ Idle /\ Stages /\ SeenInv /\ Next => SeenInv'
<1> SUFFICES ASSUME TypeOK, Idle, Stages, SeenInv, Next
             PROVE  SeenInv'
  OBVIOUS
<1>0. setup' = setup
  BY DEF Next
<1>a. \A t, f : Matches(t, f)' <=> Matches(t, f)
  BY <1>0 DEF Matches
<1>1. CASE Abort \/ Finish
  <2>1. batch' = {} /\ acc' = [l \in Linters |-> {}] /\ queue' = {} /\ sandbox' = None
    BY <1>1 DEF Abort, Finish, EndRun
  <2> QED
    BY <2>1 DEF SeenInv
<1>2. CASE Start
  <2>1. batch' = {} /\ acc' = [l \in Linters |-> {}] /\ queue' = {} /\ sandbox' = None
    BY <1>2 DEF Start, Idle
  <2> QED
    BY <2>1 DEF SeenInv
<1>3. CASE Read
  <2>1. PICK B \in SUBSET todo : batch' = Now(B)
    BY <1>3 DEF Read
  <2>2. UNCHANGED <<setup, tree>> /\ undisturbed' = undisturbed /\ acc' = acc /\ queue' = queue
    BY <1>0, <1>3 DEF Read
  <2>3. \A p \in batch' : Seen(p)'
    BY <2>1, <2>2, NowSeen, SeenKept
  <2>4. sandbox' = None
    BY <1>3 DEF Read, Stages
  <2> QED
    BY <1>a, <2>2, <2>3, <2>4, SeenKept DEF SeenInv
<1>4. CASE Match
  BY <1>0, <1>a, <1>4, SeenKept DEF Match, SeenInv, input, Calm, Quiet, Matched
<1>5. ASSUME NEW t \in Tools, CheckOnTree(t) \/ Killed(t)
      PROVE  SeenInv'
  BY <1>0, <1>a, <1>5, SeenKept DEF CheckOnTree, Killed, Turn, SeenInv, input
<1>6. ASSUME NEW t \in Tools, Copy(t)
      PROVE  SeenInv'
  <2>1. sandbox' = [tool |-> t, files |-> Now(Names(Matched(t)))]
        /\ Names(Matched(t)) \subseteq there /\ batch' = batch
    BY <1>6 DEF Copy, input
  <2>2. ASSUME Calm
        PROVE  Now(Names(Matched(t))) = Matched(t)
    <3>1. \A p \in Matched(t) : p = <<p[1], ver[p[1]]>> /\ p[1] \in there
      BY <2>2 DEF Matched, SeenInv, Seen, TypeOK, Versions
    <3> QED
      BY <3>1 DEF Now, Names
  <2>3. Matched(t)' = Matched(t)
    BY <1>a, <2>1 DEF Matched
  <2>4. Calm' => Calm
    BY <1>0, <1>6 DEF Copy, Calm, Quiet
  <2>5. (sandbox.tool)' = t /\ (sandbox.files)' = Now(Names(Matched(t)))
    BY <2>1
  <2>6. Calm' => (sandbox.files)' = Matched(t)'
    BY <2>2, <2>3, <2>4, <2>5
  <2>7. Matched(sandbox.tool)' = Matched(t)'
    BY <2>5 DEF Matched, Matches
  <2> QED
    BY <1>0, <1>a, <1>6, <2>6, <2>7, SeenKept DEF Copy, SeenInv, input
<1>7. ASSUME NEW l \in Linters, Accumulate(l)
      PROVE  SeenInv'
  <2>1. \A p \in Gathered(l) : Seen(p) /\ Matches(l, p[1])
    BY DEF Gathered, Matched, SeenInv
  <2>2. \A k \in Linters : acc'[k] = IF k = l THEN Gathered(l) ELSE acc[k]
    BY <1>7 DEF Accumulate, TypeOK
  <2>3. queue' = {} /\ sandbox' = None
    BY <1>7 DEF Accumulate, Turn, Stages
  <2> QED
    BY <1>0, <1>a, <1>7, <2>1, <2>2, <2>3, SeenKept DEF Accumulate, SeenInv, input
<1>8. ASSUME NEW l \in Linters, SkipCached(l) \/ CheckWholeTree(l) \/ Store(l)
                                \/ WholeTreeKilled(l)
      PROVE  SeenInv'
  <2>1. /\ UNCHANGED <<setup, tree, batch, acc>> /\ (undisturbed' => undisturbed)
        /\ queue' \subseteq queue
    BY <1>0, <1>8 DEF SkipCached, CheckWholeTree, Store, WholeTreeKilled, input
  <2>2. sandbox' = None
    BY <1>8 DEF SkipCached, CheckWholeTree, Store, WholeTreeKilled, NextInQueue, Stages
  <2> QED
    BY <1>a, <2>1, <2>2, SeenKept DEF SeenInv
<1>9. CASE Compare
  BY <1>0, <1>a, <1>9, SeenKept DEF Compare, SeenInv, input
<1>10. CASE EndBatch
  <2>1. UNCHANGED <<setup, tree, batch, acc, undisturbed>>
    BY <1>0, <1>10 DEF EndBatch, input
  <2>2. sandbox' = None
    BY <1>10 DEF EndBatch, Stages
  <2>3. \A l \in queue' : acc'[l] # {}
    BY <1>10 DEF EndBatch, SeenInv
  <2> QED
    BY <1>a, <2>1, <2>2, <2>3, SeenKept DEF SeenInv
<1>11. ASSUME NEW f \in setup.files, Save(f) \/ Move(f)
       PROVE  SeenInv'
  <2>1. UNCHANGED <<batch, acc, queue, sandbox>>
    BY <1>11 DEF Save, Move, input
  <2>2. CASE pc = "off"
    BY <2>1, <2>2 DEF SeenInv, Idle
  <2>3. CASE pc # "off"
    <3>1. Save(f) /\ ~Calm'
      BY <1>0, <1>11, <2>3 DEF Save, Move, Calm, Quiet
    <3>2. \A p \in batch : p[1] \in Files /\ p[2] \in Int
      BY DEF TypeOK, Versions
    <3>3. \A l \in Linters : \A p \in acc[l] : p[1] \in Files /\ p[2] \in Int
      BY DEF TypeOK, Versions
    <3> QED
      BY <1>0, <1>a, <2>1, <2>3, <3>1, <3>2, <3>3, SeenSaved DEF SeenInv
  <2> QED
    BY <2>2, <2>3
<1>12. CASE Signal
  BY <1>0, <1>a, <1>12, SeenKept DEF Signal, SeenInv, input, Calm, Quiet, Matched
<1> QED
  BY StepCases, <1>1, <1>2, <1>3, <1>4, <1>5, <1>6, <1>7, <1>8, <1>9, <1>10, <1>11, <1>12

\* While a run is at work no file goes away, and of a fixed tree none appears.
LEMMA TreeKept ==
  ASSUME TypeOK, Next, pc # "off"
  PROVE  /\ Fixed' => Fixed /\ there' = there
         /\ Quiet \/ undisturbed' => tree' = tree
         /\ undisturbed' => undisturbed
<1>0. setup' = setup
  BY DEF Next
<1>1. CASE Abort \/ Read \/ Match \/ Compare \/ EndBatch \/ Finish
  <2>1. tree' = tree /\ undisturbed' = undisturbed
    BY <1>1 DEF Abort, Read, Match, Compare, EndBatch, Finish
  <2> QED
    BY <1>0, <2>1 DEF tree, Fixed
<1>2. CASE Start
  BY <1>2 DEF Start
<1>3. ASSUME NEW t \in Tools, CheckOnTree(t) \/ Killed(t) \/ Copy(t)
      PROVE  UNCHANGED <<tree, undisturbed>>
  BY <1>3 DEF CheckOnTree, Killed, Copy
<1>4. ASSUME NEW l \in Linters, Accumulate(l) \/ SkipCached(l) \/ CheckWholeTree(l)
                                \/ Store(l) \/ WholeTreeKilled(l)
      PROVE  tree' = tree /\ (undisturbed' => undisturbed)
  BY <1>4 DEF Accumulate, SkipCached, CheckWholeTree, Store, WholeTreeKilled
<1>5. Signal => tree' = tree /\ ~undisturbed'
  BY DEF Signal
<1>6. ASSUME NEW f \in setup.files, Save(f) \/ Move(f)
      PROVE  ~undisturbed' /\ ~Quiet /\ (Fixed' => there' = there)
  BY <1>0, <1>6 DEF Save, Move, Quiet, Fixed
<1> QED
  BY <1>0, StepCases, <1>1, <1>2, <1>3, <1>4, <1>5, <1>6 DEF tree, Fixed, Quiet

\* The steps that end the wait of a tool for its turn with a batch.
LEMMA Discharge ==
  ASSUME TypeOK, Stages, Next, pc' # "off", NEW t \in pending, t \notin pending'
  PROVE  \/ t \in Tools \ WholeTree /\ (CheckOnTree(t) \/ Killed(t))
         \/ Compare /\ t = sandbox.tool
         \/ t \in WholeTree /\ Accumulate(t)
<1>1. pc = "tools"
  BY DEF Stages
<1>2. CASE Abort \/ Finish
  BY <1>2 DEF Abort, Finish, EndRun
<1>3. CASE Start \/ Read \/ Match
  BY <1>1, <1>3 DEF Start, Read, Match
<1>4. ASSUME NEW u \in Tools, CheckOnTree(u) \/ Killed(u)
      PROVE  t = u /\ u \notin WholeTree
  BY <1>4, CheckAssumption DEF CheckOnTree, Killed, OnTheTree
<1>5. ASSUME NEW u \in Tools, Copy(u)
      PROVE  FALSE
  BY <1>5 DEF Copy
<1>6. ASSUME NEW l \in Linters, Accumulate(l)
      PROVE  t = l /\ l \in WholeTree
  BY <1>6 DEF Accumulate
<1>7. ASSUME NEW l \in Linters, SkipCached(l) \/ CheckWholeTree(l) \/ Store(l)
                                \/ WholeTreeKilled(l)
      PROVE  FALSE
  BY <1>1, <1>7 DEF SkipCached, CheckWholeTree, Store, WholeTreeKilled, NextInQueue
<1>8. Compare => t = sandbox.tool
  BY DEF Compare
<1>9. ~EndBatch
  BY DEF EndBatch
<1>10. ASSUME NEW f \in setup.files, Save(f) \/ Move(f)
       PROVE  FALSE
  BY <1>10 DEF Save, Move
<1>11. ~Signal
  BY DEF Signal
<1>12. t \in Tools
  BY DEF TypeOK
<1> QED
  BY StepCases, <1>2, <1>3, <1>4, <1>5, <1>6, <1>7, <1>8, <1>9, <1>10, <1>11, <1>12

\* Otherwise what waits goes on waiting.
LEMMA WaitsKept ==
  ASSUME TypeOK, Stages, Next, pc # "off", pc' # "off", NEW t \in Tools, NEW f \in there,
         Matches(t, f), Waits(t, f)
  PROVE  Waits(t, f)' \/ (f \in Names(Matched(t)) /\ t \in pending \ pending')
<1>1. t \in pending => pc = "tools"
  BY DEF Stages
<1>2. f \in Names(batch) => f \in Names(Matched(t))
  BY DEF Names, Matched
<1>3. CASE Abort \/ Start \/ Finish
  BY <1>3 DEF Abort, Start, Finish, EndRun
<1>4. CASE Read
  <2>1. PICK B \in SUBSET todo : todo' = todo \ B /\ batch' = Now(B)
    BY <1>4 DEF Read
  <2>2. f \in todo
    BY <1>1, <1>4 DEF Read, Waits
  <2>3. f \in B => f \in Names(batch')
    BY <2>1, NowSeen
  <2> QED
    BY <1>4, <2>1, <2>2, <2>3 DEF Read, Waits, Names
<1>5. CASE Match
  <2>1. todo' = todo /\ batch' = batch /\ pending' = {u \in Tools : Matched(u) # {}}
    BY <1>5 DEF Match, input
  <2>2. f \in Names(batch) => t \in pending'
    BY <1>2, <2>1 DEF Names
  <2> QED
    BY <2>1, <2>2 DEF Waits, Names
<1>6. ASSUME UNCHANGED <<todo, batch>>, pc # "match"
      PROVE  Waits(t, f)' \/ (f \in Names(Matched(t)) /\ t \in pending \ pending')
  BY <1>2, <1>6 DEF Waits, Names
<1>7. ASSUME NEW u \in Tools, CheckOnTree(u) \/ Killed(u) \/ Copy(u)
      PROVE  UNCHANGED <<todo, batch>> /\ pc # "match"
  BY <1>7 DEF CheckOnTree, Killed, Copy, Turn, input
<1>8. ASSUME NEW l \in Linters, Accumulate(l) \/ SkipCached(l) \/ CheckWholeTree(l)
                                \/ Store(l) \/ WholeTreeKilled(l)
      PROVE  UNCHANGED <<todo, batch>> /\ pc # "match"
  BY <1>8 DEF Accumulate, SkipCached, CheckWholeTree, Store, WholeTreeKilled, NextInQueue, Turn,
              input
<1>9. CASE Compare \/ EndBatch
  BY <1>6, <1>9 DEF Compare, EndBatch, input
<1>10. ASSUME UNCHANGED <<todo, batch, pc, pending>>
       PROVE  Waits(t, f)'
  BY <1>10 DEF Waits, Names
<1>11. ASSUME NEW g \in setup.files, Save(g) \/ Move(g)
       PROVE  UNCHANGED <<todo, batch, pc, pending>>
  BY <1>11 DEF Save, Move, input
<1>12. CASE Signal
  BY <1>10, <1>12 DEF Signal, input
<1> QED
  BY StepCases, <1>3, <1>4, <1>5, <1>6, <1>7, <1>8, <1>9, <1>10, <1>11, <1>12

\* What was gathered stays for the rest of the run.
LEMMA AccGrows ==
  ASSUME TypeOK, Next, pc # "off", pc' # "off", NEW l \in Linters
  PROVE  acc[l] \subseteq acc'[l]
<1>1. CASE Abort \/ Start \/ Finish
  BY <1>1 DEF Abort, Start, Finish, EndRun
<1>2. CASE Read \/ Match \/ Compare \/ EndBatch \/ Signal
  BY <1>2 DEF Read, Match, Compare, EndBatch, Signal
<1>3. ASSUME NEW t \in Tools, CheckOnTree(t) \/ Killed(t) \/ Copy(t)
      PROVE  acc' = acc
  BY <1>3 DEF CheckOnTree, Killed, Copy
<1>4. ASSUME NEW k \in Linters, Accumulate(k)
      PROVE  acc[l] \subseteq acc'[l]
  BY <1>4 DEF Accumulate, Gathered, TypeOK
<1>5. ASSUME NEW k \in Linters, SkipCached(k) \/ CheckWholeTree(k) \/ Store(k)
                                \/ WholeTreeKilled(k)
      PROVE  acc' = acc
  BY <1>5 DEF SkipCached, CheckWholeTree, Store, WholeTreeKilled
<1>6. ASSUME NEW f \in setup.files, Save(f) \/ Move(f)
      PROVE  acc' = acc
  BY <1>6 DEF Save, Move
<1> QED
  BY StepCases, <1>1, <1>2, <1>3, <1>4, <1>5, <1>6

\* A run begins with every file of the tree yet to be delivered.
LEMMA Begins ==
  ASSUME Next, pc = "off", pc' # "off"
  PROVE  Start
<1>1. CASE Abort
  BY <1>1 DEF Abort, EndRun
<1>2. ASSUME NEW t \in Tools, CheckOnTree(t) \/ Killed(t) \/ Copy(t)
      PROVE  FALSE
  BY <1>2 DEF CheckOnTree, Killed, Copy, Turn
<1>3. ASSUME NEW l \in Linters, Accumulate(l) \/ SkipCached(l) \/ CheckWholeTree(l)
                                \/ Store(l) \/ WholeTreeKilled(l)
      PROVE  FALSE
  BY <1>3 DEF Accumulate, SkipCached, CheckWholeTree, Store, WholeTreeKilled, NextInQueue, Turn
<1>4. ASSUME NEW f \in setup.files, Save(f) \/ Move(f)
      PROVE  FALSE
  BY <1>4 DEF Save, Move
<1> QED
  BY StepCases, <1>1, <1>2, <1>3, <1>4
     DEF Read, Match, Compare, EndBatch, Finish, Signal

LEMMA GathersStep == TypeOK /\ Idle /\ Stages /\ SeenInv /\ Gathers /\ Next => Gathers'
<1> SUFFICES ASSUME TypeOK, Idle, Stages, SeenInv, Gathers, Next
             PROVE  Gathers'
  OBVIOUS
<1>a. \A t, g : Matches(t, g)' <=> Matches(t, g)
  BY DEF Next, Matches
<1> SUFFICES ASSUME Fixed', pc' # "off", NEW l \in WholeTree, NEW f \in there', Matches(l, f)
             PROVE  Waits(l, f)' \/ f \in Names(acc[l])'
  BY <1>a DEF Gathers
<1>0. l \in Linters /\ l \in Tools
  BY CheckAssumption DEF Tools
<1>1. CASE pc = "off"
  BY <1>1, Begins DEF Start, Waits, tree
<1>2. CASE pc # "off"
  <2>1. Fixed /\ f \in there
    BY <1>2, TreeKept
  <2>2. CASE f \in Names(acc[l])
    BY <1>0, <1>2, <2>2, AccGrows DEF Names
  <2>3. CASE Waits(l, f)
    <3>1. CASE Waits(l, f)'
      BY <3>1
    <3>2. CASE f \in Names(Matched(l)) /\ l \in pending \ pending'
      <4>1. sandbox # None => sandbox.tool # l
        BY <1>0, CheckAssumption DEF Stages
      <4>2. Accumulate(l)
        BY <1>0, <3>2, <4>1, Discharge DEF Compare
      <4>3. acc'[l] = Gathered(l)
        BY <1>0, <4>2 DEF Accumulate, TypeOK
      <4> QED
        BY <3>2, <4>3 DEF Gathered, Names
    <3> QED
      BY <1>0, <1>2, <2>1, <2>3, <3>1, <3>2, WaitsKept
  <2> QED
    BY <1>2, <2>1, <2>2, <2>3 DEF Gathers
<1> QED
  BY <1>1, <1>2

LEMMA ReadInit == Init => ReadInv
<1> SUFFICES ASSUME Init
             PROVE  ReadInv
  OBVIOUS
<1>1. Idle /\ Stages
  BY DEF Init, Idle, Stages
<1>2. SeenInv /\ Gathers
  BY DEF Init, SeenInv, Gathers
<1> QED
  BY <1>1, <1>2, TypeInit DEF ReadInv

LEMMA ReadStep == ReadInv /\ [Next]_vars => ReadInv'
<1>1. ReadInv /\ UNCHANGED vars => ReadInv'
  <2> SUFFICES ASSUME ReadInv, UNCHANGED vars
               PROVE  ReadInv'
    OBVIOUS
  <2>1. TypeOK'
    BY TypeStep DEF ReadInv
  <2>2. Idle' /\ Stages'
    BY DEF ReadInv, vars, input, Idle, Stages
  <2>3. SeenInv'
    BY DEF ReadInv, vars, tree, input, SeenInv, Seen, Calm, Quiet, Matched, Matches
  <2>4. Gathers'
    BY DEF ReadInv, vars, tree, input, Gathers, Fixed, Matches, Waits, Names
  <2> QED
    BY <2>1, <2>2, <2>3, <2>4 DEF ReadInv
<1>2. ReadInv /\ Next => ReadInv'
  BY TypeStep, IdleStep, StagesStep, SeenStep, GathersStep DEF ReadInv
<1> QED
  BY <1>1, <1>2

\* What a check has in hand is what it saw, and no file of a fixed tree escapes the
\* linters that look at the tree as a whole.
THEOREM ReadCorrect == Spec => []ReadInv
  BY ReadInit, ReadStep, PTL DEF Spec

-----------------------------------------------------------------------------
(* What the cache vouches for.                                             *)

\* Files recorded with K that have been saved since: versions only grow, so that no
\* later tree is K again.
Stale(K) == \E p \in K : p[2] < ver[p[1]]

Trusted(l, K) == ~Objects(l, K) \/ Stale(K)

Finalizing == pc \in {"finalize", "store"}
Head(l)    == l \in queue /\ \A k \in queue : Rank[l] <= Rank[k]

\* A file of linter l looks as it did in an earlier version, so that the key may be the
\* one of files that are gone.
Doubtful(l) == UseCache /\ ~Fresh(Names(acc[l]))

\* A whole-tree linter that matched files is yet to run, has findings, is trusted, or
\* may have been skipped for a key that says nothing of its files.
TrustInv ==
  "created" \notin setup.midRun =>
    /\ \A l \in WholeTree : db[l] # None => Trusted(l, db[l])
    /\ Finalizing => \A l \in WholeTree : acc[l] # {} =>
         l \in queue \/ l \in findings \/ Trusted(l, acc[l]) \/ Doubtful(l)
    /\ pc = "store" => \A l \in WholeTree : Head(l) => Trusted(l, acc[l])

\* Entries are made of versions there have been.
PastInv == \A l \in Linters : db[l] # None => \A p \in db[l] : p[2] <= ver[p[1]]

\* The entry of l is the key of files K.
Holds(l, K) == db[l] # None /\ Stamped(db[l]) = Stamped(K)

\* An undisturbed run has an entry for each whole-tree linter it is done with.
StoredInv ==
  Finalizing /\ undisturbed => \A l \in WholeTree :
    acc[l] # {} => l \in queue \/ l \in findings \/ Holds(l, acc[l])

LEMMA VersionsGrow ==
  ASSUME TypeOK, Next
  PROVE  \A f \in Files : ver[f] \in Int /\ ver'[f] \in Int /\ ver[f] <= ver'[f]
<1>1. ASSUME ver' = ver
      PROVE  \A f \in Files : ver[f] \in Int /\ ver'[f] \in Int /\ ver[f] <= ver'[f]
  BY <1>1 DEF TypeOK
<1>2. CASE Abort \/ Start \/ Read \/ Match \/ Compare \/ EndBatch \/ Finish \/ Signal
  BY <1>1, <1>2 DEF Abort, Start, Read, Match, Compare, EndBatch, Finish, Signal, tree
<1>3. ASSUME NEW t \in Tools, CheckOnTree(t) \/ Killed(t) \/ Copy(t)
      PROVE  ver' = ver
  BY <1>3 DEF CheckOnTree, Killed, Copy, tree
<1>4. ASSUME NEW l \in Linters, Accumulate(l) \/ SkipCached(l) \/ CheckWholeTree(l)
                                \/ Store(l) \/ WholeTreeKilled(l)
      PROVE  ver' = ver
  BY <1>4 DEF Accumulate, SkipCached, CheckWholeTree, Store, WholeTreeKilled, tree
<1>5. ASSUME NEW f \in setup.files, Save(f)
      PROVE  \A g \in Files : ver[g] \in Int /\ ver'[g] \in Int /\ ver[g] <= ver'[g]
  BY <1>5, SetupTyped DEF Save, TypeOK
<1>6. ASSUME NEW f \in setup.files, Move(f)
      PROVE  ver' = ver
  BY <1>6 DEF Move
<1> QED
  BY StepCases, <1>1, <1>2, <1>3, <1>4, <1>5, <1>6

\* What is trusted once is trusted for good.
LEMMA TrustStays ==
  ASSUME TypeOK, Next, NEW l, NEW K, Versions(K), Trusted(l, K)
  PROVE  Trusted(l, K)'
<1>1. \A p \in K : p[1] \in Files /\ p[2] \in Int
  BY DEF Versions
<1> QED
  BY <1>1, VersionsGrow DEF Trusted, Stale

\* The walk of a fixed tree that nobody interrupted has gathered, for a whole-tree
\* linter, the matched files; if none was saved since, as they are now.
LEMMA GatheredAll ==
  ASSUME ReadInv, Fixed, pc = "finalize", ~interrupted, NEW l \in WholeTree, ~Stale(acc[l])
  PROVE  acc[l] = Now(Globbed(l)) /\ Names(acc[l]) = Globbed(l)
<1>1. l \in Linters
  BY CheckAssumption
<1>2. todo = {} /\ pending = {}
  BY DEF ReadInv, Stages
<1>3. \A f \in there : Matches(l, f) => f \in Names(acc[l])
  BY <1>2 DEF ReadInv, Gathers, Waits
<1>4. \A p \in acc[l] : p[1] \in Files /\ p[2] \in Int /\ p = <<p[1], p[2]>>
  BY <1>1 DEF ReadInv, TypeOK, Versions
<1>5. \A f \in Files : ver[f] \in Int
  BY DEF ReadInv, TypeOK
<1>6. \A p \in acc[l] : p[1] \in there /\ Matches(l, p[1]) /\ p[2] = ver[p[1]]
  BY <1>1, <1>4, <1>5 DEF ReadInv, SeenInv, Seen, Stale
<1>7. \A p \in acc[l] : p \in Now(Globbed(l))
  BY <1>4, <1>6 DEF Now, Globbed
<1>8. ASSUME NEW f \in there, Matches(l, f)
      PROVE  <<f, ver[f]>> \in acc[l]
  <2>1. PICK p \in acc[l] : p[1] = f
    BY <1>3, <1>8 DEF Names
  <2> QED
    BY <1>4, <1>6, <2>1
<1>9. \A p \in Now(Globbed(l)) : p \in acc[l]
  BY <1>8 DEF Now, Globbed
<1>10. Names(acc[l]) = Globbed(l)
  BY <1>3, <1>6 DEF Names, Globbed
<1> QED
  BY <1>7, <1>9, <1>10

\* A whole-tree linter finds the same in its files as in the tree.
LEMMA SameFindings ==
  ASSUME NamesInputs, TypeOK, NEW l \in WholeTree
  PROVE  Objects(l, Now(Files)) <=> Objects(l, Now(Globbed(l)))
<1> DEFINE W == setup.wants[l] \ Excluded
<1>1. there \subseteq Files /\ ver \in [Files -> 1 .. MaxVersion] /\ setup \in Setups
  BY DEF TypeOK
<1>2. Now(Files) = At(there, ver)
  BY <1>1 DEF Now, At
<1>3. Now(Globbed(l)) = At(there \cap W, ver)
  BY <1>1 DEF Now, At, Matches, Globbed
<1> QED
  BY <1>1, <1>2, <1>3 DEF NamesInputs

\* Past files K with the key of files A that are as they were seen are A, unless one
\* of them looks as it did before.
LEMMA SameKey ==
  ASSUME TypeOK, NEW K, NEW A, Versions(K), Versions(A), Stamped(K) = Stamped(A),
         \A p \in K : p[2] <= ver[p[1]], \A p \in A : p[2] = ver[p[1]], Fresh(Names(A))
  PROVE  K = A
<1>1. /\ \A p \in K : p = <<p[1], p[2]>> /\ p[1] \in Files /\ p[2] \in 1 .. MaxVersion
      /\ \A p \in A : p = <<p[1], p[2]>> /\ p[1] \in Files /\ p[2] \in 1 .. MaxVersion
      /\ \A f \in Files : ver[f] \in 1 .. MaxVersion
  BY DEF TypeOK, Versions
<1>2. ASSUME NEW p \in K, NEW q \in A, p[1] = q[1], Stamp[p[1]][p[2]] = Stamp[q[1]][q[2]]
      PROVE  p = q
  <2>1. q[1] \in Names(A) /\ q[2] = ver[q[1]] /\ p[2] <= ver[q[1]]
    BY <1>2 DEF Names
  <2>2. ~(p[2] < ver[q[1]])
    BY <1>1, <1>2, <2>1 DEF Fresh
  <2> QED
    BY <1>1, <1>2, <2>1, <2>2
<1>3. ASSUME NEW p \in K
      PROVE  \E q \in A : p[1] = q[1] /\ Stamp[p[1]][p[2]] = Stamp[q[1]][q[2]]
  <2>1. <<p[1], Stamp[p[1]][p[2]]>> \in Stamped(A)
    BY DEF Stamped
  <2> QED
    BY <2>1 DEF Stamped
<1>4. ASSUME NEW q \in A
      PROVE  \E p \in K : p[1] = q[1] /\ Stamp[p[1]][p[2]] = Stamp[q[1]][q[2]]
  <2>1. <<q[1], Stamp[q[1]][q[2]]>> \in Stamped(K)
    BY DEF Stamped
  <2> QED
    BY <2>1 DEF Stamped
<1> QED
  BY <1>2, <1>3, <1>4

\* Only one linter is at the head of the queue.
LEMMA OneHead ==
  ASSUME TypeOK, NEW k, NEW l, Head(k), Head(l)
  PROVE  k = l
<1>1. k \in Linters /\ l \in Linters
  BY CheckAssumption DEF TypeOK, Head
<1>2. Rank[k] \in Nat /\ Rank[l] \in Nat
  BY <1>1, CheckAssumption
<1>3. Rank[k] <= Rank[l] /\ Rank[l] <= Rank[k]
  BY DEF Head
<1> QED
  BY <1>1, <1>2, <1>3, CheckAssumption

\* A step from one state of Finalize to the next.
LEMMA FinalizeStep ==
  ASSUME ReadInv, Next, Finalizing'
  PROVE  \/ EndBatch
         \/ /\ Finalizing /\ acc' = acc
            /\ \/ \E l \in Linters : SkipCached(l) \/ CheckWholeTree(l) \/ Store(l)
                                     \/ WholeTreeKilled(l)
               \/ UNCHANGED <<pc, db, queue, findings>>
<1>1. CASE Abort \/ Start \/ Read \/ Match \/ Finish
  BY <1>1 DEF Abort, Start, Read, Match, Finish, EndRun, Finalizing
<1>2. ASSUME NEW t \in Tools, CheckOnTree(t) \/ Killed(t) \/ Copy(t)
      PROVE  FALSE
  BY <1>2 DEF CheckOnTree, Killed, Copy, Turn, Finalizing
<1>3. ASSUME NEW l \in Linters, Accumulate(l)
      PROVE  FALSE
  BY <1>3 DEF Accumulate, Turn, Finalizing
<1>4. ASSUME NEW l \in Linters, SkipCached(l) \/ CheckWholeTree(l) \/ Store(l)
                                \/ WholeTreeKilled(l)
      PROVE  Finalizing /\ acc' = acc
  BY <1>4 DEF SkipCached, CheckWholeTree, Store, WholeTreeKilled, NextInQueue, Finalizing
<1>5. ~Compare
  BY DEF Compare, Finalizing
<1>6. ASSUME NEW f \in setup.files, Save(f) \/ Move(f)
      PROVE  Finalizing /\ acc' = acc /\ UNCHANGED <<pc, db, queue, findings>>
  BY <1>6 DEF Save, Move, Finalizing
<1>7. CASE Signal
  BY <1>7 DEF Signal, Finalizing
<1> QED
  BY StepCases, <1>1, <1>2, <1>3, <1>4, <1>5, <1>6, <1>7

\* The database changes at the start of a run and when an entry is stored.
LEMMA DatabaseStep ==
  ASSUME TypeOK, Next
  PROVE  \/ \A l \in Linters : db'[l] \in {None, db[l]}
         \/ \E l \in Linters : Store(l) /\ pc = "store" /\ Head(l)
                               /\ db' = [db EXCEPT ![l] = acc[l]]
<1>1. CASE Abort \/ Read \/ Match \/ Compare \/ EndBatch \/ Finish \/ Signal
  BY <1>1 DEF Abort, Read, Match, Compare, EndBatch, Finish, Signal
<1>2. CASE Start
  BY <1>2 DEF Start, TypeOK
<1>3. ASSUME NEW t \in Tools, CheckOnTree(t) \/ Killed(t) \/ Copy(t)
      PROVE  db' = db
  BY <1>3 DEF CheckOnTree, Killed, Copy
<1>4. ASSUME NEW l \in Linters, Accumulate(l) \/ SkipCached(l) \/ CheckWholeTree(l)
                                \/ WholeTreeKilled(l)
      PROVE  db' = db
  BY <1>4 DEF Accumulate, SkipCached, CheckWholeTree, WholeTreeKilled
<1>5. ASSUME NEW l \in Linters, Store(l)
      PROVE  db' = db \/ (pc = "store" /\ Head(l) /\ db' = [db EXCEPT ![l] = acc[l]])
  BY <1>5 DEF Store, Head, Key
<1>6. ASSUME NEW f \in setup.files, Save(f) \/ Move(f)
      PROVE  db' = db
  BY <1>6 DEF Save, Move
<1> QED
  BY StepCases, <1>1, <1>2, <1>3, <1>4, <1>5, <1>6

LEMMA PastStep == ReadInv /\ PastInv /\ Next => PastInv'
<1> SUFFICES ASSUME ReadInv, PastInv, Next, NEW l \in Linters, db'[l] # None, NEW p \in db'[l]
             PROVE  p[2] <= ver'[p[1]]
  BY DEF PastInv
<1>1. TypeOK
  BY DEF ReadInv
<1>2. ASSUME p[1] \in Files, p[2] \in Int, p[2] <= ver[p[1]]
      PROVE  p[2] <= ver'[p[1]]
  BY <1>1, <1>2, VersionsGrow
<1>3. CASE db'[l] = db[l]
  BY <1>1, <1>2, <1>3 DEF TypeOK, Versions, PastInv
<1>4. CASE db'[l] = acc[l]
  BY <1>1, <1>2, <1>4 DEF ReadInv, TypeOK, Versions, SeenInv, Seen
<1>5. db'[l] \in {None, db[l], acc[l]}
  BY <1>1, DatabaseStep DEF TypeOK
<1> QED
  BY <1>3, <1>4, <1>5

LEMMA TrustStep == NamesInputs /\ ReadInv /\ PastInv /\ TrustInv /\ Next => TrustInv'
<1> SUFFICES ASSUME NamesInputs, ReadInv, PastInv, TrustInv, Next, "created" \notin setup.midRun
             PROVE  /\ \A l \in WholeTree : db'[l] # None => Trusted(l, db[l])'
                    /\ Finalizing' => \A l \in WholeTree : acc'[l] # {} =>
                         l \in queue' \/ l \in findings' \/ Trusted(l, acc[l])' \/ Doubtful(l)'
                    /\ pc' = "store" => \A l \in WholeTree : Head(l)' => Trusted(l, acc[l])'
  BY DEF TrustInv, Next
<1>a. TypeOK /\ Fixed /\ setup' = setup
  BY DEF ReadInv, Fixed, Next
<1>b. \A l \in WholeTree : /\ Versions(acc[l])
                           /\ db[l] # None => Versions(db[l]) /\ Trusted(l, db[l])
  BY <1>a, CheckAssumption DEF TypeOK, TrustInv
<1>c. ASSUME NEW l \in WholeTree, pc = "finalize", ~interrupted, ~Objects(l, Now(Files))
      PROVE  Trusted(l, acc[l])
  BY <1>a, <1>c, GatheredAll, SameFindings DEF Trusted
<1>1. \A l \in WholeTree : db'[l] # None => Trusted(l, db[l])'
  <2> SUFFICES ASSUME NEW l \in WholeTree, db'[l] # None
               PROVE  Trusted(l, db[l])'
    OBVIOUS
  <2>0. l \in Linters
    BY CheckAssumption
  <2>1. CASE db'[l] = db[l]
    <3>1. Trusted(l, db[l]) /\ Versions(db[l])
      BY <1>b, <2>1
    <3>2. ~Objects(l, db[l]) \/ \E p \in db[l] : p[2] < ver'[p[1]]
      BY <1>a, <3>1, TrustStays DEF Trusted, Stale
    <3> QED
      BY <2>1, <3>2 DEF Trusted, Stale
  <2>2. CASE db'[l] = acc[l] /\ pc = "store" /\ Head(l)
    <3>1. Trusted(l, acc[l]) /\ Versions(acc[l])
      BY <1>b, <2>2 DEF TrustInv
    <3>2. ~Objects(l, acc[l]) \/ \E p \in acc[l] : p[2] < ver'[p[1]]
      BY <1>a, <3>1, TrustStays DEF Trusted, Stale
    <3> QED
      BY <2>2, <3>2 DEF Trusted, Stale
  <2>3. db'[l] = db[l] \/ (db'[l] = acc[l] /\ pc = "store" /\ Head(l))
    BY <1>a, <2>0, DatabaseStep DEF TypeOK
  <2> QED
    BY <2>1, <2>2, <2>3
<1>d. ASSUME NEW l \in WholeTree, Trusted(l, acc[l]), acc' = acc
      PROVE  Trusted(l, acc[l])'
  <2>1. ~Objects(l, acc[l]) \/ \E p \in acc[l] : p[2] < ver'[p[1]]
    BY <1>a, <1>b, <1>d, TrustStays DEF Trusted, Stale
  <2> QED
    BY <1>d, <2>1 DEF Trusted, Stale
<1>e. ASSUME NEW l \in WholeTree, Doubtful(l), acc' = acc
      PROVE  Trusted(l, acc[l])' \/ Doubtful(l)'
  <2>1. PICK f \in Names(acc[l]), v \in 1 .. MaxVersion :
          v < ver[f] /\ Stamp[f][v] = Stamp[f][ver[f]]
    BY <1>e DEF Doubtful, Fresh
  <2>2. PICK p \in acc[l] : p[1] = f
    BY DEF Names
  <2>3. f \in Files /\ p[2] \in Int /\ p[2] <= ver[f]
    BY <1>a, <2>2, CheckAssumption DEF ReadInv, TypeOK, Versions, SeenInv, Seen
  <2>4. ver[f] \in Int /\ ver'[f] \in Int /\ ver[f] <= ver'[f]
    BY <1>a, <2>3, VersionsGrow
  <2>5. CASE ver'[f] = ver[f]
    BY <1>e, <2>1, <2>5 DEF Doubtful, Fresh, Names
  <2>6. CASE ver[f] < ver'[f]
    <3>1. p[2] < ver'[p[1]]
      BY <2>2, <2>3, <2>4, <2>6
    <3> QED
      BY <1>e, <3>1 DEF Trusted, Stale
  <2> QED
    BY <2>4, <2>5, <2>6
<1>2. ASSUME Finalizing', NEW l \in WholeTree, acc'[l] # {}
      PROVE  l \in queue' \/ l \in findings' \/ Trusted(l, acc[l])' \/ Doubtful(l)'
  <2>1. CASE EndBatch
    BY <1>2, <2>1 DEF EndBatch, Finalizing
  <2>2. CASE Finalizing /\ acc' = acc /\ UNCHANGED <<pc, db, queue, findings>>
    BY <1>2, <1>d, <1>e, <2>2 DEF TrustInv
  <2>3. ASSUME Finalizing, acc' = acc, NEW k \in Linters,
               SkipCached(k) \/ CheckWholeTree(k) \/ Store(k) \/ WholeTreeKilled(k)
        PROVE  l \in queue' \/ l \in findings' \/ Trusted(l, acc[l])' \/ Doubtful(l)'
    <3>1. findings \subseteq findings' /\ (l # k /\ l \in queue => l \in queue')
      BY <2>3 DEF SkipCached, CheckWholeTree, Store, WholeTreeKilled, Report
    <3>2. CASE ~(l = k /\ l \in queue)
      BY <1>2, <1>d, <1>e, <2>3, <3>1, <3>2 DEF TrustInv
    <3>3. CASE l = k /\ l \in queue
      <4>1. CASE SkipCached(k)
        <5>1. UseCache /\ db[l] # None /\ Stamped(db[l]) = Stamped(acc[l])
          BY <3>3, <4>1 DEF SkipCached, WholeTreeCached, Key
        <5>2. CASE Stale(acc[l]) \/ Doubtful(l)
          BY <1>d, <1>e, <2>3, <5>2 DEF Trusted
        <5>3. CASE ~Stale(acc[l]) /\ ~Doubtful(l)
          <6>1. \A p \in acc[l] : p[2] = ver[p[1]]
            BY <1>a, <5>3, CheckAssumption DEF ReadInv, TypeOK, Versions, SeenInv, Seen, Stale
          <6>2. \A p \in db[l] : p[2] <= ver[p[1]]
            BY <5>1, CheckAssumption DEF PastInv
          <6>3. db[l] = acc[l]
            BY <1>a, <1>b, <5>1, <5>3, <6>1, <6>2, SameKey DEF Doubtful
          <6> QED
            BY <1>b, <1>d, <2>3, <5>1, <6>3
        <5> QED
          BY <5>2, <5>3
      <4>2. CASE CheckWholeTree(k)
        BY <3>3, <4>2 DEF CheckWholeTree, Report
      <4>3. CASE Store(k)
        BY <1>d, <2>3, <3>3, <4>3 DEF Store, Head, TrustInv
      <4>4. CASE WholeTreeKilled(k)
        BY <3>3, <4>4 DEF WholeTreeKilled, Report
      <4> QED
        BY <2>3, <4>1, <4>2, <4>3, <4>4
    <3> QED
      BY <3>2, <3>3
  <2> QED
    BY <1>2, <2>1, <2>2, <2>3, FinalizeStep
<1>3. ASSUME pc' = "store", NEW l \in WholeTree, Head(l)'
      PROVE  Trusted(l, acc[l])'
  <2>0. Finalizing'
    BY <1>3 DEF Finalizing
  <2>1. CASE EndBatch
    BY <1>3, <2>1 DEF EndBatch
  <2>2. CASE acc' = acc /\ UNCHANGED <<pc, db, queue, findings>>
    BY <1>3, <1>d, <2>2 DEF TrustInv, Head
  <2>3. ASSUME acc' = acc, NEW k \in Linters,
               SkipCached(k) \/ CheckWholeTree(k) \/ Store(k) \/ WholeTreeKilled(k)
        PROVE  Trusted(l, acc[l])'
    <3>1. CheckWholeTree(k) /\ ~Objects(k, Now(Files)) /\ queue' = queue
      BY <1>3, <2>3 DEF SkipCached, CheckWholeTree, Store, WholeTreeKilled, NextInQueue
    <3>2. Head(k) /\ pc = "finalize" /\ ~interrupted
      BY <3>1 DEF CheckWholeTree, NextInQueue, Head, CanStart
    <3>3. Head(l)
      BY <1>3, <3>1 DEF Head
    <3>4. l = k
      BY <1>a, <3>2, <3>3, OneHead
    <3> QED
      BY <1>c, <1>d, <2>3, <3>1, <3>2, <3>4
  <2> QED
    BY <2>0, <2>1, <2>2, <2>3, FinalizeStep
<1> QED
  BY <1>1, <1>2, <1>3

LEMMA StoredStep == ReadInv /\ StoredInv /\ Next => StoredInv'
<1> SUFFICES ASSUME ReadInv, StoredInv, Next, Finalizing', undisturbed', NEW l \in WholeTree,
                    acc'[l] # {}
             PROVE  l \in queue' \/ l \in findings' \/ Holds(l, acc[l])'
  BY DEF StoredInv
<1>0. l \in Linters /\ undisturbed /\ l \in DOMAIN db
  <2>1. pc # "off" \/ pc' = "off" \/ Start
    BY Begins
  <2>2. pc # "off"
    BY <2>1 DEF Start, Finalizing
  <2> QED
    BY <2>2, TreeKept, CheckAssumption DEF ReadInv, TypeOK
<1>1. CASE EndBatch
  BY <1>1 DEF EndBatch, Finalizing
<1>2. CASE Finalizing /\ acc' = acc /\ UNCHANGED <<pc, db, queue, findings>>
  BY <1>0, <1>2 DEF StoredInv, Holds
<1>3. ASSUME Finalizing, acc' = acc, NEW k \in Linters,
             SkipCached(k) \/ CheckWholeTree(k) \/ Store(k) \/ WholeTreeKilled(k)
      PROVE  l \in queue' \/ l \in findings' \/ Holds(l, acc[l])'
  <2>1. findings \subseteq findings' /\ (l # k /\ l \in queue => l \in queue')
    BY <1>3 DEF SkipCached, CheckWholeTree, Store, WholeTreeKilled, Report
  <2>2. l # k => db'[l] = db[l]
    BY <1>0, <1>3 DEF SkipCached, CheckWholeTree, Store, WholeTreeKilled
  <2>3. CASE l # k
    BY <1>0, <1>3, <2>1, <2>2, <2>3 DEF StoredInv, Holds
  <2>4. CASE l = k
    <3>1. CASE SkipCached(k)
      BY <1>3, <2>4, <3>1 DEF SkipCached, WholeTreeCached, Key, Holds
    <3>2. CASE CheckWholeTree(k)
      BY <2>4, <3>2 DEF CheckWholeTree, NextInQueue, Report
    <3>3. CASE Store(k)
      <4>1. db'[l] = acc'[l]
        BY <1>0, <1>3, <2>4, <3>3 DEF Store, Key
      <4>2. acc[l] # None
        BY <1>0, NoneAssumption DEF ReadInv, TypeOK, Versions
      <4> QED
        BY <1>3, <4>1, <4>2 DEF Holds
    <3>4. CASE WholeTreeKilled(k)
      BY <2>4, <3>4 DEF WholeTreeKilled, Report
    <3> QED
      BY <1>3, <3>1, <3>2, <3>3, <3>4
  <2> QED
    BY <2>3, <2>4
<1> QED
  BY <1>1, <1>2, <1>3, FinalizeStep

-----------------------------------------------------------------------------
(* The verdicts.                                                           *)

\* No tool of a quiet tree but the whole-tree linters overlooks a fault.
Checked ==
  Quiet /\ pc # "off" =>
    \A t \in Tools \ WholeTree : \A f \in there :
      Matches(t, f) => Waits(t, f) \/ t \in findings \/ ~Objects(t, Now({f}))

\* Nor does one that is not killed make a fault up.
Warranted ==
  Quiet /\ "signal" \notin setup.faults => \A t \in findings : Complains(t)

LEMMA FindingsGrow ==
  ASSUME Next, pc # "off", pc' # "off"
  PROVE  findings \subseteq findings'
<1>1. CASE Abort \/ Start \/ Finish
  BY <1>1 DEF Abort, Start, Finish, EndRun
<1>2. CASE Read \/ Match \/ Compare \/ EndBatch \/ Signal
  BY <1>2 DEF Read, Match, Compare, EndBatch, Signal, Report
<1>3. ASSUME NEW t \in Tools, CheckOnTree(t) \/ Killed(t) \/ Copy(t)
      PROVE  findings \subseteq findings'
  BY <1>3 DEF CheckOnTree, Killed, Copy, Report
<1>4. ASSUME NEW l \in Linters, Accumulate(l) \/ SkipCached(l) \/ CheckWholeTree(l)
                                \/ Store(l) \/ WholeTreeKilled(l)
      PROVE  findings \subseteq findings'
  BY <1>4 DEF Accumulate, SkipCached, CheckWholeTree, Store, WholeTreeKilled, Report
<1>5. ASSUME NEW f \in setup.files, Save(f) \/ Move(f)
      PROVE  findings \subseteq findings'
  BY <1>5 DEF Save, Move
<1> QED
  BY StepCases, <1>1, <1>2, <1>3, <1>4, <1>5

\* What a tool that is given files finds in a calm batch it finds in one of the files.
LEMMA OneFile ==
  ASSUME FileByFile, TypeOK, SeenInv, Calm, NEW t \in Tools \ WholeTree
  PROVE  /\ Names(Matched(t)) \subseteq there
         /\ \A p \in Matched(t) : Now({p[1]}) = {p} /\ p[1] \in there /\ Matches(t, p[1])
         /\ Objects(t, Now(Names(Matched(t)))) <=> \E p \in Matched(t) : Objects(t, {p})
<1>1. \A p \in Matched(t) : /\ p = <<p[1], ver[p[1]]>> /\ p[1] \in there
                            /\ ver[p[1]] = p[2] /\ Matches(t, p[1])
  BY DEF TypeOK, Versions, SeenInv, Seen, Matched
<1>2. Names(Matched(t)) \subseteq there
  BY <1>1 DEF Names
<1>3. \A p \in Matched(t) : Now({p[1]}) = {p}
  BY <1>1 DEF Now
<1>4. Now(Names(Matched(t))) = At(Names(Matched(t)), ver)
  BY <1>2 DEF Now, At
<1>5. ver \in [Files -> 1 .. MaxVersion] /\ Names(Matched(t)) \in SUBSET Files
  BY <1>2 DEF TypeOK
<1>6. Objects(t, Now(Names(Matched(t))))
        <=> \E f \in Names(Matched(t)) : Objects(t, {<<f, ver[f]>>})
  BY <1>4, <1>5 DEF FileByFile
<1>7. (\E f \in Names(Matched(t)) : Objects(t, {<<f, ver[f]>>}))
        <=> \E p \in Matched(t) : Objects(t, {p})
  BY <1>1 DEF Names
<1> QED
  BY <1>1, <1>2, <1>3, <1>6, <1>7

\* Nothing a sandbox of a calm run holds has moved.
LEMMA NothingMoved ==
  ASSUME TypeOK, SeenInv, Calm, sandbox # None
  PROVE  /\ sandbox.files = Matched(sandbox.tool)
         /\ {p \in sandbox.files : ver[p[1]] # p[2]} = {}
<1>1. \A p \in batch : ver[p[1]] = p[2]
  BY DEF SeenInv, Seen
<1> QED
  BY <1>1 DEF SeenInv, Matched

LEMMA CheckedStep == FileByFile /\ ReadInv /\ Checked /\ Next => Checked'
<1> SUFFICES ASSUME FileByFile, ReadInv, Checked, Next
             PROVE  Checked'
  OBVIOUS
<1>a. /\ \A t, g : Matches(t, g)' <=> Matches(t, g)
      /\ Quiet' <=> Quiet
  BY DEF Next, Matches, Quiet
<1> SUFFICES ASSUME Quiet, pc' # "off", NEW t \in Tools \ WholeTree, NEW f \in there',
                    Matches(t, f)
             PROVE  Waits(t, f)' \/ t \in findings' \/ ~Objects(t, Now({f})')
  BY <1>a DEF Checked
<1>b. TypeOK /\ Stages /\ SeenInv /\ Calm
  BY DEF ReadInv, Calm
<1>1. CASE pc = "off"
  BY <1>1, Begins DEF Start, Waits, tree
<1>2. CASE pc # "off"
  <2>1. tree' = tree /\ findings \subseteq findings'
    BY <1>b, <1>2, TreeKept, FindingsGrow
  <2>2. f \in there /\ Now({f})' = Now({f})
    BY <2>1 DEF tree, Now
  <2>3. CASE t \in findings \/ ~Objects(t, Now({f}))
    BY <2>1, <2>2, <2>3
  <2>4. CASE Waits(t, f)
    <3>1. CASE Waits(t, f)'
      BY <3>1
    <3>2. CASE f \in Names(Matched(t)) /\ t \in pending \ pending'
      <4>1. PICK p \in Matched(t) : p[1] = f
        BY <3>2 DEF Names
      <4>2. Now({f}) = {p}
        BY <1>b, <4>1, OneFile
      <4>3. CASE CheckOnTree(t)
        <5>1. Objects(t, {p}) => Objects(t, Now(Names(Matched(t))))
          BY <1>b, OneFile
        <5> QED
          BY <2>2, <4>2, <4>3, <5>1 DEF CheckOnTree, Report
      <4>4. CASE Killed(t)
        BY <4>4 DEF Killed, Report
      <4>5. CASE Compare /\ t = sandbox.tool
        <5>1. sandbox.files = Matched(t) /\ {q \in sandbox.files : ver[q[1]] # q[2]} = {}
          BY <1>b, <4>5, NothingMoved DEF Compare
        <5>2. t \in findings' \/ Rewritten(t, Matched(t)) = {}
          BY <4>5, <5>1 DEF Compare, Report
        <5>3. ~Objects(t, {p}) \/ t \in findings'
          BY <4>1, <5>2 DEF Rewritten
        <5> QED
          BY <2>2, <4>2, <5>3
      <4> QED
        BY <1>b, <3>2, <4>3, <4>4, <4>5, Discharge
    <3> QED
      BY <1>b, <1>2, <2>2, <2>4, <3>1, <3>2, WaitsKept
  <2> QED
    BY <1>2, <2>2, <2>3, <2>4 DEF Checked
<1> QED
  BY <1>1, <1>2

LEMMA WarrantedStep == FileByFile /\ ReadInv /\ Warranted /\ Next => Warranted'
<1> SUFFICES ASSUME FileByFile, ReadInv, Warranted, Next
             PROVE  Warranted'
  OBVIOUS
<1>a. setup' = setup
  BY DEF Next
<1> SUFFICES ASSUME Quiet, "signal" \notin setup.faults, NEW t \in findings'
             PROVE  Complains(t)'
  BY <1>a DEF Warranted, Quiet
<1>b. TypeOK /\ Idle /\ Stages /\ SeenInv /\ Calm
  BY DEF ReadInv, Calm
<1>1. pc # "off"
  <2>1. CASE Start
    BY <2>1 DEF Start, Idle, ReadInv
  <2>2. pc' = "off" => findings' = {}
    BY <1>b, IdleStep DEF Idle
  <2> QED
    BY <1>b, <2>1, <2>2, Begins DEF Idle
<1>2. tree' = tree
  BY <1>b, <1>1, TreeKept
<1>3. Complains(t)' <=> Complains(t)
  BY <1>a, <1>2 DEF Complains, Matches, Now, tree
<1>4. CASE t \in findings
  BY <1>3, <1>4 DEF Warranted
<1>5. CASE t \notin findings
  <2>1. ASSUME NEW u \in Tools \ WholeTree, NEW p \in Matched(u), Objects(u, {p})
        PROVE  Complains(u)
    <3>1. p[1] \in there /\ Matches(u, p[1]) /\ Now({p[1]}) = {p}
      BY <1>b, <2>1, OneFile
    <3>2. Objects(u, Now({p[1]}))
      BY <2>1, <3>1
    <3> QED
      BY <3>1, <3>2 DEF Complains
  <2>2. ASSUME NEW u \in Tools, CheckOnTree(u)
        PROVE  Complains(t)
    <3>1. t = u /\ u \in Tools \ WholeTree
      BY <1>5, <2>2, CheckAssumption DEF CheckOnTree, Report, OnTheTree
    <3>2. Names(Matched(u)) \subseteq there
      BY <1>b, <3>1, OneFile
    <3>3. Objects(u, Now(Names(Matched(u))))
      BY <1>5, <2>2, <3>2 DEF CheckOnTree
    <3> QED
      BY <1>b, <2>1, <3>1, <3>3, OneFile
  <2>3. CASE Compare
    <3>1. t = sandbox.tool /\ t \in Tools \ WholeTree
      BY <1>b, <1>5, <2>3, CheckAssumption DEF Compare, Report, Stages, Tools
    <3>2. sandbox.files = Matched(t) /\ {q \in sandbox.files : ver[q[1]] # q[2]} = {}
      BY <1>b, <2>3, <3>1, NothingMoved DEF Compare
    <3>3. Rewritten(t, Matched(t)) # {}
      BY <1>5, <2>3, <3>1, <3>2 DEF Compare
    <3>4. PICK p \in Matched(t) : Objects(t, {p})
      BY <3>3 DEF Rewritten
    <3>5. t \in Tools \ WholeTree
      BY <3>1
    <3> QED
      BY <1>3, <2>1, <3>4, <3>5
  <2>4. ASSUME NEW l \in Linters, CheckWholeTree(l)
        PROVE  Complains(t)
    <3>1. t = l /\ l \in queue /\ Objects(l, Now(Files))
      BY <1>5, <2>4 DEF CheckWholeTree, NextInQueue, Report
    <3>2. l \in WholeTree
      BY <1>b, <3>1 DEF TypeOK
    <3>3. PICK p \in acc[l] : p[1] \in there /\ Matches(l, p[1])
      BY <1>b, <3>1 DEF SeenInv, Seen
    <3> QED
      BY <3>1, <3>2, <3>3 DEF Complains
  <2>5. ASSUME NEW u \in Tools, Killed(u) \/ Copy(u)
        PROVE  FALSE
    BY <1>5, <2>5 DEF Killed, Copy
  <2>6. ASSUME NEW l \in Linters, Accumulate(l) \/ SkipCached(l) \/ Store(l) \/ WholeTreeKilled(l)
        PROVE  FALSE
    BY <1>5, <2>6 DEF Accumulate, SkipCached, Store, WholeTreeKilled
  <2>7. CASE Abort \/ Finish
    BY <2>7 DEF Abort, Finish, EndRun
  <2>8. CASE Start \/ Read \/ Match \/ EndBatch \/ Signal
    BY <1>5, <2>8 DEF Start, Read, Match, EndBatch, Signal
  <2>9. ASSUME NEW f \in setup.files, Save(f) \/ Move(f)
        PROVE  FALSE
    BY <1>5, <2>9 DEF Save, Move
  <2> QED
    BY <1>3, StepCases, <2>2, <2>3, <2>4, <2>5, <2>6, <2>7, <2>8, <2>9
<1> QED
  BY <1>4, <1>5

-----------------------------------------------------------------------------
(* What the exit codes say.                                                *)

\* A code comes from a run that finishes or that is given up.
LEMMA CodeStep ==
  ASSUME TypeOK, Idle, Next, exit' # None
  PROVE  Finish \/ Abort
<1>1. CASE Start
  BY <1>1 DEF Start
<1>2. CASE Read \/ Match \/ Compare \/ EndBatch \/ Signal
  BY <1>2 DEF Read, Match, Compare, EndBatch, Signal, Idle
<1>3. ASSUME NEW t \in Tools, CheckOnTree(t) \/ Killed(t) \/ Copy(t)
      PROVE  FALSE
  BY <1>3 DEF CheckOnTree, Killed, Copy, Turn, Idle
<1>4. ASSUME NEW l \in Linters, Accumulate(l) \/ SkipCached(l) \/ CheckWholeTree(l)
                                \/ Store(l) \/ WholeTreeKilled(l)
      PROVE  FALSE
  BY <1>4 DEF Accumulate, SkipCached, CheckWholeTree, Store, WholeTreeKilled, NextInQueue, Turn,
              Idle
<1>5. ASSUME NEW f \in setup.files, Save(f) \/ Move(f)
      PROVE  FALSE
  BY <1>5 DEF Save, Move
<1> QED
  BY StepCases, <1>1, <1>2, <1>3, <1>4, <1>5

LEMMA ZeroByFinish ==
  ASSUME ReadInv, Next, exit' = 0
  PROVE  Finish /\ findings = {} /\ queue = {} /\ UNCHANGED <<setup, tree, db, undisturbed>>
<1>1. Finish
  BY CodeStep, NoneAssumption DEF ReadInv, Abort, EndRun
<1> QED
  BY <1>1 DEF Finish, EndRun, FindingsCode, Next

\* CheckRun.CleanIsCached: a clean check of a tree nobody touched since it began leaves,
\* for every whole-tree linter, the entry that spares the next check the linter.
THEOREM CachedCorrect == Spec => []CleanIsCached
<1>1. Init => StoredInv /\ CleanIsCached
  BY NoneAssumption DEF Init, StoredInv, CleanIsCached, Finalizing
<1>2. ASSUME ReadInv, StoredInv, CleanIsCached, [Next]_vars
      PROVE  StoredInv' /\ CleanIsCached'
  <2>1. CASE UNCHANGED vars
    BY <1>2, <2>1 DEF vars, tree, input, StoredInv, CleanIsCached, Finalizing, Now, Matches,
                      Globbed, Holds
  <2>2. CASE Next
    <3>1. StoredInv'
      BY <1>2, <2>2, StoredStep
    <3> SUFFICES ASSUME exit' = 0, undisturbed', NEW l \in WholeTree,
                        Globbed(l)' # {}
                 PROVE  db'[l] # None /\ Stamped(db[l])' = Stamped(Now(Globbed(l)))'
      BY <3>1 DEF CleanIsCached
    <3>2. /\ Finish /\ findings = {} /\ queue = {} /\ undisturbed /\ db' = db
          /\ Globbed(l)' = Globbed(l) /\ Now(Globbed(l))' = Now(Globbed(l))
      BY <1>2, <2>2, ZeroByFinish DEF tree, Now, Matches, Globbed
    <3>3. pc = "finalize" /\ ~interrupted /\ Fixed /\ l \in Linters
      BY <1>2, <3>2, CheckAssumption DEF ReadInv, Stages, Finish, Fixed
    <3>4. ~Stale(acc[l])
      <4>1. \A p \in acc[l] : p[1] \in Files /\ p[2] \in Int /\ p[2] = ver[p[1]]
        BY <1>2, <3>2, <3>3 DEF ReadInv, TypeOK, Versions, SeenInv, Seen, Calm
      <4> QED
        BY <4>1 DEF Stale
    <3>5. acc[l] = Now(Globbed(l)) /\ Names(acc[l]) = Globbed(l)
      BY <1>2, <3>3, <3>4, GatheredAll
    <3>6. Holds(l, acc[l])
      BY <1>2, <3>2, <3>3, <3>5 DEF StoredInv, Finalizing, Names
    <3> QED
      BY <3>2, <3>5, <3>6 DEF Holds, Stamped
  <2> QED
    BY <1>2, <2>1, <2>2
<1> QED
  BY <1>1, <1>2, ReadCorrect, PTL DEF Spec

\* PastInv and TrustInv on their own: an entry vouches for its files, or for no tree there
\* will be.
LEMMA TrustCorrect ==
  ASSUME NamesInputs
  PROVE  Spec => [](PastInv /\ TrustInv)
<1>1. Init => PastInv /\ TrustInv
  BY CheckAssumption DEF Init, PastInv, TrustInv, Finalizing
<1>2. ASSUME ReadInv, PastInv, TrustInv, [Next]_vars
      PROVE  PastInv' /\ TrustInv'
  <2>1. CASE UNCHANGED vars
    <3>1. PastInv'
      BY <1>2, <2>1 DEF vars, tree, PastInv
    <3>2. \A l : Doubtful(l)' <=> Doubtful(l)
      BY <2>1 DEF vars, tree, Doubtful, Fresh, Names
    <3> QED
      BY <1>2, <2>1, <3>1, <3>2 DEF vars, tree, input, TrustInv, Finalizing, Trusted, Stale, Head
  <2> QED
    BY <1>2, <2>1, PastStep, TrustStep
<1> QED
  BY <1>1, <1>2, ReadCorrect, PTL DEF Spec

\* CheckRun.EntrySound: the entry that would make a check of the tree as it is skip a
\* whole-tree linter is one under which the linter has no findings, whatever was saved
\* while the entry was made, provided no matched file has the size and second of an
\* earlier version, the globs name what the linter looks at and no file appears in the
\* middle of a check.
THEOREM EntryCorrect ==
  ASSUME NamesInputs, \A s \in Setups : "created" \notin s.midRun
  PROVE  Spec => []EntrySound
<1>1. TypeOK /\ PastInv /\ TrustInv => EntrySound
  <2> SUFFICES ASSUME TypeOK, PastInv, TrustInv, NEW l \in WholeTree, db[l] # None,
                      Stamped(db[l]) = Stamped(Now(Globbed(l))), Fresh(Globbed(l))
               PROVE  ~Objects(l, Now(Files))
    BY DEF EntrySound
  <2>0. l \in Linters
    BY CheckAssumption
  <2>1. Trusted(l, db[l])
    BY DEF TypeOK, TrustInv
  <2>2. \A f \in Files : ~(ver[f] < ver[f])
    BY DEF TypeOK
  <2>3. \A p \in Now(Globbed(l)) : p[1] \in Files /\ p[2] = ver[p[1]]
    BY DEF Now, Globbed, TypeOK
  <2>4. Names(Now(Globbed(l))) = Globbed(l)
    BY NowSeen DEF Globbed
  <2>5. Versions(db[l]) /\ \A p \in db[l] : p[2] <= ver[p[1]]
    BY <2>0 DEF TypeOK, PastInv
  <2>6. db[l] = Now(Globbed(l))
    BY <2>3, <2>4, <2>5, NowTyped, SameKey
  <2>7. ~Stale(db[l])
    BY <2>2, <2>3, <2>6 DEF Stale
  <2> QED
    BY <2>1, <2>6, <2>7, SameFindings DEF Trusted
<1> QED
  BY <1>1, TypeCorrect, TrustCorrect, PTL

\* CheckRun.ZeroMeansClean: exit code 0 of a check that nobody disturbs or interrupts tells
\* that no formatter would change a file and no linter has a finding, but for a cached
\* whole-tree linter one of whose files has the size and second of an earlier version,
\* provided tools look at the files they are given one by one and the globs of a
\* whole-tree linter name what it looks at.
THEOREM ZeroCorrect ==
  ASSUME FileByFile, NamesInputs,
         \A s \in Setups : s.midRun = {} => "signal" \notin s.faults
  PROVE  Spec => []ZeroMeansClean
<1>1. Init => Checked /\ ZeroMeansClean
  BY NoneAssumption DEF Init, Checked, ZeroMeansClean
<1>2. ASSUME ReadInv, TrustInv, Checked, ZeroMeansClean, [Next]_vars
      PROVE  Checked' /\ ZeroMeansClean'
  <2>1. CASE UNCHANGED vars
    BY <1>2, <2>1 DEF vars, tree, input, Checked, ZeroMeansClean, Quiet, Complains, Now, Matches,
                      Waits, Names, Globbed, Fresh
  <2>2. CASE Next
    <3>1. Checked'
      BY <1>2, <2>2, CheckedStep
    <3>2. setup' = setup
      BY <2>2 DEF Next
    <3> SUFFICES ASSUME Quiet, exit' = 0, NEW t \in Tools
                 PROVE  Complains(t)' => UseCache /\ t \in WholeTree /\ ~Fresh(Globbed(t))'
      BY <3>1, <3>2 DEF ZeroMeansClean, Quiet
    <3>3. Finish /\ findings = {} /\ queue = {} /\ tree' = tree
      BY <1>2, <2>2, ZeroByFinish
    <3>4. (Complains(t)' <=> Complains(t)) /\ (Fresh(Globbed(t))' <=> Fresh(Globbed(t)))
      BY <3>2, <3>3 DEF Complains, Matches, Now, tree, Globbed, Fresh
    <3>5. pc = "finalize" /\ ~interrupted /\ Fixed /\ Calm
      BY <1>2, <3>3 DEF ReadInv, TypeOK, Stages, Finish, Fixed, Calm, Quiet
    <3>6. CASE t \notin WholeTree
      <4>1. todo = {} /\ pending = {}
        BY <1>2, <3>5 DEF ReadInv, Stages
      <4>2. \A f \in there : Matches(t, f) => ~Objects(t, Now({f}))
        BY <1>2, <3>3, <3>5, <3>6, <4>1 DEF Checked, Waits
      <4> QED
        BY <3>4, <3>6, <4>2 DEF Complains
    <3>7. CASE t \in WholeTree
      <4> SUFFICES ASSUME NEW f \in there, Matches(t, f)
                   PROVE  Objects(t, Now(Files)) => UseCache /\ ~Fresh(Globbed(t))
        BY <3>4, <3>7 DEF Complains
      <4>1. ~Stale(acc[t])
        <5>1. \A p \in acc[t] : p[1] \in Files /\ p[2] \in Int /\ p[2] = ver[p[1]]
          BY <1>2, <3>5, <3>7, CheckAssumption DEF ReadInv, TypeOK, Versions, SeenInv, Seen
        <5> QED
          BY <5>1 DEF Stale
      <4>2. acc[t] = Now(Globbed(t)) /\ Names(acc[t]) = Globbed(t)
        BY <1>2, <3>5, <3>7, <4>1, GatheredAll
      <4>3. acc[t] # {}
        BY <4>2 DEF Names, Globbed
      <4>4. "created" \notin setup.midRun
        BY DEF Quiet
      <4>5. Trusted(t, acc[t]) \/ Doubtful(t)
        BY <1>2, <3>3, <3>5, <3>7, <4>3, <4>4 DEF TrustInv, Finalizing
      <4> QED
        BY <1>2, <3>7, <4>1, <4>2, <4>5, SameFindings DEF Trusted, Doubtful, ReadInv
    <3> QED
      BY <3>6, <3>7
  <2> QED
    BY <1>2, <2>1, <2>2
<1> QED
  BY <1>1, <1>2, ReadCorrect, TrustCorrect, PTL DEF Spec

\* CheckRun.OneMeansFinding: exit code 1 of a check that nobody disturbs, interrupts or
\* configures wrongly tells that some tool complains of the tree as it is, provided
\* tools look at the files they are given one by one.
THEOREM OneCorrect ==
  ASSUME FileByFile
  PROVE  Spec => []OneMeansFinding
<1>1. Init => Warranted /\ OneMeansFinding
  BY NoneAssumption DEF Init, Warranted, OneMeansFinding
<1>2. ASSUME ReadInv, Warranted, OneMeansFinding, [Next]_vars
      PROVE  Warranted' /\ OneMeansFinding'
  <2>1. CASE UNCHANGED vars
    <3>1. \A t : Complains(t)' <=> Complains(t)
      BY <2>1 DEF vars, tree, Complains, Now, Matches
    <3> QED
      BY <1>2, <2>1, <3>1 DEF vars, Warranted, OneMeansFinding, Quiet
  <2>2. CASE Next
    <3>1. Warranted'
      BY <1>2, <2>2, WarrantedStep
    <3>2. setup' = setup
      BY <2>2 DEF Next
    <3> SUFFICES ASSUME Quiet, "signal" \notin setup.faults, exit' = 1, ~failed'
                 PROVE  \E t \in Tools : Complains(t)'
      BY <3>1, <3>2 DEF OneMeansFinding, Quiet
    <3>3. Finish
      <4>1. ~Abort
        BY DEF Abort, EndRun
      <4> QED
        BY <1>2, <2>2, <4>1, CodeStep, NoneAssumption DEF ReadInv
    <3>4. findings # {} /\ tree' = tree
      BY <3>3 DEF Finish, EndRun, FindingsCode
    <3>5. PICK t \in Tools : Complains(t)
      BY <1>2, <3>4 DEF Warranted, ReadInv, TypeOK
    <3>6. Complains(t)'
      BY <3>2, <3>4, <3>5 DEF Complains, Matches, Now, tree
    <3> QED
      BY <3>6
  <2> QED
    BY <1>2, <2>1, <2>2
<1> QED
  BY <1>1, <1>2, ReadCorrect, PTL DEF Spec

=============================================================================
