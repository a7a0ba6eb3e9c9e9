-------------------------- MODULE RepairModesProofs --------------------------
(***************************************************************************)
(* Theorems about RepairModes for every repository, set of files, tools and *)
(* command lines, any number of edits by others, and every failure.         *)
(***************************************************************************)
EXTENDS RepairModes, TLAPS

-----------------------------------------------------------------------------
(* Type correctness.                                                       *)

LEMMA InitType == ASSUME Init PROVE TypeOK
<1>1. Begin \in Command
  BY DEF Begin, Command
<1>2. PICK r \in Repos : head = r.head /\ index = r.index /\ work = r.work /\ base = r
  BY DEF Init
<1>3. base \in Repo /\ Now \in Repo
  BY <1>2, ModesAssumption DEF Now, Repo
<1>4. failed \in BOOLEAN /\ cut \in BOOLEAN
  BY DEF Init
<1> QED
  BY <1>1, <1>3, <1>4, ModesAssumption DEF Init, TypeOK, Maybe, Phases

\* Starting, refusing and ending an invocation keeps the types.
LEMMA StartType ==
  ASSUME TypeOK,
         Start \/ StagedWithPaths \/ RefuseSetup \/ CommitPreflight \/ StagedPreflight \/ GitFails
  PROVE  TypeOK'
<1>1. CASE Start
  <2>1. cmd' \in Command /\ targets' = cmd'.paths
    BY <1>1, ModesAssumption DEF Start
  <2>2. targets' \subseteq Files \cup {None}
    BY <2>1 DEF Command
  <2>3. /\ Now' = Now /\ base' = Now /\ edits' = edits
        /\ cached' = cached /\ unnoticed' = unnoticed
        /\ at' \in {"idle", "run", "preflight"}
        /\ \/ at' = "idle" /\ exit' = 1
           \/ exit' = None
    BY <1>1 DEF Start, End, Now, repo
  <2>4. failed' \in BOOLEAN /\ cut' \in BOOLEAN
    BY <1>1 DEF Start
  <2> QED
    BY <1>1, <2>1, <2>2, <2>3, <2>4, ModesAssumption DEF Start, TypeOK, Maybe, Phases
<1>2. CASE StagedWithPaths \/ RefuseSetup \/ GitFails
  BY <1>2, ModesAssumption
  DEF StagedWithPaths, RefuseSetup, GitFails, End, TypeOK, Now, Repo, Maybe, Phases,
      repo, pass, piped, history
<1>3. CASE CommitPreflight
  BY <1>3, ModesAssumption
  DEF CommitPreflight, Suited, ChangedPaths, End, TypeOK, Now, Repo, Maybe, Phases,
      repo, pass, piped, history
<1>4. CASE StagedPreflight
  <2>1. {FromRoot[f] : f \in {g \in StagedPaths(Now) : index[g] # None}} \subseteq Files \cup {None}
    BY ModesAssumption DEF StagedPaths
  <2> QED
    BY <1>4, <2>1, ModesAssumption
    DEF StagedPreflight, Suited, StagedPaths, End, TypeOK, Now, Repo, Maybe, Phases,
        repo, pass, piped, history
<1> QED
  BY <1>1, <1>2, <1>3, <1>4

\* What is said of written files is about files.
LEMMA WrittenType ==
  ASSUME cached \subseteq Files, unnoticed \subseteq Files, inHand \subseteq Files, NEW S, Written(S)
  PROVE  cached' \subseteq Files /\ unnoticed' \subseteq Files
  BY DEF Written

\* So does the repair pass.
LEMMA RepairType ==
  ASSUME TypeOK,
         BeginRepairs \/ (\E l \in Linters : RepairOne(l)) \/ RepairFails \/ EndRepairs
  PROVE  TypeOK'
<1>1. CASE BeginRepairs \/ RepairFails \/ EndRepairs
  BY <1>1, ModesAssumption
  DEF BeginRepairs, RepairFails, EndRepairs, End, TypeOK, Now, Repo, Maybe, Phases,
      repo, pass, piped, history
<1>2. CASE \E l \in Linters : RepairOne(l)
  <2>1. PICK l \in Linters : RepairOne(l)
    BY <1>2
  <2>2. work' \in [Files -> Maybe]
    BY <2>1, ModesAssumption DEF RepairOne, Reach, TypeOK, Now, Repo, Maybe
  <2>3. cached' \subseteq Files /\ unnoticed' \subseteq Files
    BY <2>1, WrittenType DEF RepairOne, TypeOK
  <2> QED
    BY <2>1, <2>2, <2>3, ModesAssumption
    DEF RepairOne, TypeOK, Now, Repo, Phases, piped
<1> QED
  BY <1>1, <1>2

\* So does the formatting pass.
LEMMA FormatType ==
  ASSUME TypeOK,
         \/ BeginFormat \/ Interrupt \/ StopReading \/ EndRun
         \/ \E f \in Files : Skip(f) \/ FormatOne(f) \/ RecordOne(f)
  PROVE  TypeOK'
<1>1. CASE BeginFormat
  BY <1>1, ModesAssumption
  DEF BeginFormat, ToFormat, Walked, End, TypeOK, Now, Repo, Maybe, Phases, repo, piped
<1>2. CASE EndRun
  BY <1>2, ModesAssumption
  DEF EndRun, End, TypeOK, Now, Repo, Maybe, Phases, repo, pass, piped, history
<1>3. CASE Interrupt
  <2>1. cut' \in BOOLEAN
    BY <1>3 DEF Interrupt
  <2> QED
    BY <1>3, <2>1 DEF Interrupt, TypeOK, Now, repo, pass, piped
<1>4. CASE StopReading
  <2>1. failed' \in BOOLEAN /\ cut' \in BOOLEAN
    BY <1>4 DEF StopReading, TypeOK, history
  <2> QED
    BY <1>4, <2>1 DEF StopReading, TypeOK, Now, repo, piped, history
<1>5. ASSUME NEW f \in Files, Skip(f)
      PROVE  TypeOK'
  <2>1. failed' \in BOOLEAN /\ cut' \in BOOLEAN
    BY <1>5 DEF Skip, TypeOK, history
  <2> QED
    BY <1>5, <2>1 DEF Skip, TypeOK, Now, repo, piped, history
<1>6. ASSUME NEW f \in Files, RecordOne(f)
      PROVE  TypeOK'
  <2>1. failed' \in BOOLEAN /\ cut' \in BOOLEAN /\ cached' \subseteq Files
    BY <1>6 DEF RecordOne, TypeOK, history
  <2> QED
    BY <1>6, <2>1 DEF RecordOne, TypeOK, Now, piped, history
<1>7. ASSUME NEW f \in Files, FormatOne(f)
      PROVE  TypeOK'
  <2>1. work \in [Files -> Maybe]
    BY DEF TypeOK, Now, Repo
  <2>2. work[f] # None => Formatted[work[f]] \in Maybe /\ Partial[work[f]] \subseteq Maybe
    BY <2>1, ModesAssumption DEF Maybe
  <2>3. work' \in [Files -> Maybe]
    BY <1>7, <2>1, <2>2 DEF FormatOne
  <2>4. /\ changed' \subseteq Files /\ failed' \in BOOLEAN /\ unnoticed' \subseteq Files
        /\ inHand' \subseteq Files \ todo'
    BY <1>7 DEF FormatOne, TypeOK
  <2> QED
    BY <1>7, <2>3, <2>4 DEF FormatOne, TypeOK, Now, Repo, Phases, piped
<1> QED
  BY <1>1, <1>2, <1>3, <1>4, <1>5, <1>6, <1>7

\* So does recording the fixes.
LEMMA RecordType ==
  ASSUME TypeOK, Status \/ CommitPaths \/ AddPaths
  PROVE  TypeOK'
<1>1. CASE Status
  BY <1>1, ModesAssumption
  DEF Status, ToCommit, ToRestage, ChangedPaths, End, TypeOK, Now, Repo, Maybe, Phases,
      repo, pass, piped, history
<1>2. CASE CommitPaths \/ AddPaths
  <2>1. /\ FromWork(head) \in [Files -> Maybe]
        /\ FromWork(index) \in [Files -> Maybe]
    BY DEF FromWork, TypeOK, Now, Repo
  <2> QED
    BY <1>2, <2>1, ModesAssumption
    DEF CommitPaths, AddPaths, End, TypeOK, Now, Repo, Phases, repo, pass, piped, history
<1> QED
  BY <1>1, <1>2

\* So do --stdin and what others do.
LEMMA OtherType ==
  ASSUME TypeOK,
         \/ BeginStdin \/ ReadStdin \/ FormatStdin \/ PrintOut
         \/ \E f \in Files : Save(f) \/ Stage(f) \/ Discard(f)
  PROVE  TypeOK'
<1>1. CASE BeginStdin \/ ReadStdin
  BY <1>1, ModesAssumption
  DEF BeginStdin, ReadStdin, End, TypeOK, Now, Repo, Maybe, Phases, repo, pass, piped, history
<1>2. CASE FormatStdin
  <2>1. /\ cmd.paths \subseteq FmtWants => cmd.paths \subseteq Files
        /\ tmp \in Contents => Formatted[tmp] \in Contents /\ Partial[tmp] \subseteq Contents
    BY ModesAssumption
  <2>2. failed' \in BOOLEAN /\ cut' \in BOOLEAN
    BY <1>2 DEF FormatStdin, TypeOK, history
  <2> QED
    BY <1>2, <2>1, <2>2, ModesAssumption
    DEF FormatStdin, TypeOK, Now, Repo, Maybe, Phases, repo, pass, piped, history
<1>3. CASE PrintOut
  BY <1>3, ModesAssumption
  DEF PrintOut, End, TypeOK, Now, Repo, Maybe, Phases, repo, pass, piped, history
<1>4. CASE \E f \in Files : Save(f) \/ Stage(f) \/ Discard(f)
  <2>1. PICK f \in Files : Save(f) \/ Stage(f) \/ Discard(f)
    BY <1>4
  <2>2. cached' \subseteq Files /\ unnoticed' \subseteq Files
    BY <2>1, WrittenType DEF Save, Stage, Discard, TypeOK
  <2>3. failed' \in BOOLEAN /\ cut' \in BOOLEAN
    BY <2>1 DEF Save, Stage, Discard, TypeOK, pass
  <2>4. index' \in [Files -> Maybe] /\ work' \in [Files -> Maybe]
    BY <2>1 DEF Save, Stage, Discard, TypeOK, Now, Repo, Maybe
  <2>5. /\ edits' \in 0 .. MaxEdits /\ touched' \subseteq Files
        /\ UNCHANGED <<head, at, cmd, pass, piped, exit, base, scope>>
    BY <2>1, ModesAssumption DEF Save, Stage, Discard, TypeOK
  <2> QED
    BY <2>2, <2>3, <2>4, <2>5 DEF TypeOK, Now, Repo, pass, piped
<1> QED
  BY <1>1, <1>2, <1>3, <1>4

LEMMA NextType ==
  ASSUME TypeOK, [Next]_vars
  PROVE  TypeOK'
<1>1. CASE Next
  BY <1>1, StartType, RepairType, FormatType, RecordType, OtherType DEF Next
<1>2. CASE UNCHANGED vars
  BY <1>2 DEF vars, repo, pass, piped, history, TypeOK, Now
<1> QED
  BY <1>1, <1>2

\* Every variable keeps its type, whatever runs, fails or is edited meanwhile.
THEOREM TypeCorrect == Spec => []TypeOK
  BY InitType, NextType, PTL DEF Spec

-----------------------------------------------------------------------------
(* The inductive invariant.                                                *)

\* The files nobody else had a hand in since the invocation began.
Mine == Files \ touched

\* HEAD and index stay as they were until the fixes are recorded.
HeadKept == at # "idle" => \A f \in Mine : head[f] = base.head[f] /\ index[f] = base.index[f]

\* The tools alone write to the tree.
WorkMade == \A f \in Mine : MadeOf(work[f], base.work[f])

\* Nothing is written before the repairs, and nothing at all with --stdin.
WorkKept ==
  at \in {"preflight", "run"} \/ cmd.stdin => \A f \in Mine : work[f] = base.work[f]

\* Which modes are where.
ModesApart ==
  /\ at \in {"preflight", "status", "record"} => cmd.mode # "repair"
  /\ at = "run" /\ cmd.stdin => cmd.mode = "repair"
  /\ at \in {"repair", "walk", "format", "status", "record"} => ~cmd.stdin
  /\ at \in {"stdin", "piped", "print"} => cmd.stdin /\ cmd.mode = "repair"

\* pre is what git said of the repository as it was at the beginning.
PreKnown ==
  at \in {"run", "repair", "walk", "format", "status", "record"} =>
    \A f \in Mine :
      /\ cmd.mode = "commit" => (f \in pre <=> Dirty(base, f))
      /\ cmd.mode = "staged" => /\ f \in pre <=> StagedIn(base, f)
                                /\ f \in pre => ~UnstagedIn(base, f)

\* record is what the tools changed of the files that may be recorded.
RecordKnown ==
  at = "record" =>
    \A f \in Mine :
      /\ (cmd.mode = "commit" /\ f \in record) => ~Dirty(base, f) /\ base.index[f] # None
      /\ (cmd.mode = "commit" /\ f \notin record /\ ~Dirty(base, f) /\ index[f] # None)
           => work[f] = index[f]
      /\ (cmd.mode = "staged" /\ f \in record)
           => StagedIn(base, f) /\ ~UnstagedIn(base, f) /\ base.index[f] # None
      /\ (cmd.mode = "staged" /\ f \notin record /\ StagedIn(base, f) /\ index[f] # None)
           => work[f] = index[f]

\* File f is conformant, or was last written so that conformist could not tell.
Okay(f) == work[f] # None /\ (Formatted[work[f]] = work[f] \/ f \in unnoticed)

\* What the cache says is formatted is, and so is what is about to be recorded, unless
\* it is gone: the files this invocation is done with and those it skips.
Entries ==
  /\ \A f \in cached : Okay(f)
  /\ \A f \in inHand : work[f] = None \/ Okay(f)

\* So is what the formatting pass is done with.
ScopeKnown ==
  /\ at \in {"preflight", "run", "repair", "walk", "stdin", "piped", "print"} => scope = {}
  /\ at = "format" /\ ~failed /\ ~cut => \A f \in scope \ (todo \cup touched) : Okay(f)
  /\ at \in {"status", "record"} /\ ~cut => \A f \in scope \ touched : Okay(f)

\* What is in the temporary file.
PipeKnown ==
  /\ at \in {"piped", "print"} => /\ input \in Contents /\ tmp \in Contents
                                  /\ MadeOf(tmp, input)
  /\ at = "print" /\ ~failed /\ cmd.paths \subseteq FmtWants => Formatted[tmp] = tmp
  /\ at # "idle" => out = None

Fixes == RefusedUntouched /\ CommitIsFixes /\ IndexIsFixes /\ NothingStranded

IInv ==
  /\ TypeOK /\ Entries /\ HeadKept /\ WorkMade /\ WorkKept /\ ModesApart /\ PreKnown /\ RecordKnown
  /\ ScopeKnown /\ PipeKnown /\ Fixes /\ ConformantAfter /\ StdinPrinted

-----------------------------------------------------------------------------
(* What the tools can make of a content.                                   *)

LEMMA MadeOfItself == \A c : MadeOf(c, c)
  BY DEF MadeOf

\* The tools make nothing of a file that is not there.
LEMMA MadeOfNone ==
  ASSUME NEW d, NEW c, MadeOf(d, c), d # None, d \in Maybe, c \in Maybe
  PROVE  c \in Contents /\ d \in Contents
  BY ModesAssumption DEF MadeOf, Maybe

\* One more tool makes nothing the tools cannot make.
LEMMA MadeOfStep ==
  ASSUME NEW d \in Contents, NEW c \in Contents, MadeOf(d, c)
  PROVE  /\ MadeOf(Formatted[d], c)
         /\ \A x \in Partial[d] : MadeOf(x, c)
         /\ \A l \in Linters : MadeOf(Repaired[l][d], c)
<1> DEFINE Closed(S) == /\ c \in S
                        /\ \A e \in S : /\ Formatted[e] \in S /\ Partial[e] \subseteq S
                                        /\ \A l \in Linters : Repaired[l][e] \in S
<1>1. Derived[c] = {x \in Contents : \A S \in SUBSET Contents : Closed(S) => x \in S}
  BY DEF Derived
<1>2. \A S \in SUBSET Contents : Closed(S) => d \in S
  BY <1>1 DEF MadeOf
<1>3. /\ Formatted[d] \in Contents /\ Partial[d] \subseteq Contents
      /\ \A l \in Linters : Repaired[l][d] \in Contents
  BY ModesAssumption
<1>4. \A S \in SUBSET Contents : Closed(S) =>
        /\ Formatted[d] \in S /\ Partial[d] \subseteq S
        /\ \A l \in Linters : Repaired[l][d] \in S
  BY <1>2
<1>5. /\ Formatted[d] \in Derived[c] /\ Partial[d] \subseteq Derived[c]
      /\ \A l \in Linters : Repaired[l][d] \in Derived[c]
  BY <1>1, <1>3, <1>4
<1> QED
  BY <1>5 DEF MadeOf

-----------------------------------------------------------------------------
(* Every step keeps the invariant.                                         *)

LEMMA InitInv == ASSUME Init PROVE IInv
<1>1. TypeOK
  BY InitType
<1>2. PICK r \in Repos : head = r.head /\ index = r.index /\ work = r.work /\ base = r
  BY DEF Init
<1>3. /\ at = "idle" /\ exit = None /\ out = None /\ cmd.stdin = FALSE /\ cmd.mode = "repair"
      /\ scope = {}
  BY DEF Init, Begin
<1>4. \A f \in Files : head[f] = base.head[f] /\ index[f] = base.index[f] /\ work[f] = base.work[f]
  BY <1>2
<1>5. None \notin {0, 2, 3} /\ Entries
  BY ModesAssumption DEF Init, Entries
<1>6. HeadKept /\ WorkMade /\ WorkKept
  BY <1>3, <1>4, MadeOfItself DEF HeadKept, WorkMade, WorkKept, Mine
<1>7. ModesApart /\ PreKnown /\ RecordKnown /\ ScopeKnown /\ PipeKnown
  BY <1>3 DEF ModesApart, PreKnown, RecordKnown, ScopeKnown, PipeKnown
<1>8. Fixes /\ ConformantAfter /\ StdinPrinted
  BY <1>3, <1>4, <1>5
  DEF Fixes, RefusedUntouched, CommitIsFixes, IndexIsFixes, NothingStranded, ConformantAfter,
      StdinPrinted
<1> QED
  BY <1>1, <1>5, <1>6, <1>7, <1>8 DEF IInv

\* A step that leaves everything alone.
LEMMA StutterInv == ASSUME IInv, UNCHANGED vars PROVE IInv'
  BY NextType
  DEF IInv, vars, repo, pass, piped, history, HeadKept, WorkMade, WorkKept, ModesApart, PreKnown,
      RecordKnown, ScopeKnown, PipeKnown, Fixes, RefusedUntouched, CommitIsFixes, IndexIsFixes,
      NothingStranded, ConformantAfter, StdinPrinted, Mine, Okay, Entries

\* Writing to files leaves no entry behind that does not fit, but for the writes that
\* conformist cannot tell.
LEMMA WrittenEntries ==
  ASSUME IInv, NEW S, Written(S), \A f \in Files \ S : work'[f] = work[f], UNCHANGED inHand
  PROVE  Entries'
<1>1. cached \subseteq Files /\ inHand \subseteq Files
  BY DEF IInv, TypeOK
<1>2. PICK same \in SUBSET {f \in S \cap cached : work'[f] # None} :
        /\ cached' = cached \ (S \ same)
        /\ unnoticed' = unnoticed \cup same \cup (S \cap inHand)
  BY DEF Written
<1>3. \A f \in cached \cup inHand : f \notin S /\ Okay(f) => Okay(f)'
  BY <1>1, <1>2 DEF Okay
<1>4. \A f \in cached' : Okay(f)'
  BY <1>2, <1>3 DEF Okay, IInv, Entries
<1>5. \A f \in inHand' : work'[f] = None \/ Okay(f)'
  BY <1>1, <1>2, <1>3 DEF Okay, IInv, Entries
<1> QED
  BY <1>4, <1>5 DEF Entries

\* What the cache says stays so, whatever runs.
LEMMA EntriesInv ==
  ASSUME IInv, TypeOK', [Next]_vars
  PROVE  Entries'
<1>1. Entries /\ work \in [Files -> Maybe] /\ inHand \subseteq Files \ todo /\ cached \subseteq Files
  BY DEF IInv, TypeOK, Now, Repo
<1>2. CASE UNCHANGED <<work, cached, inHand, unnoticed>>
  BY <1>1, <1>2 DEF Entries, Okay
<1>3. CASE Start \/ BeginFormat
  <2>1. UNCHANGED <<work, cached, unnoticed>> /\ (inHand' = {} \/ inHand' = inHand)
    BY <1>3 DEF Start, BeginFormat, repo
  <2> QED
    BY <1>1, <2>1 DEF Entries, Okay
<1>4. ASSUME NEW l \in Linters, RepairOne(l)
      PROVE  Entries'
  <2>1. Written({f \in Files : work'[f] # work[f]}) /\ UNCHANGED inHand
    BY <1>4 DEF RepairOne
  <2> QED
    BY <2>1, WrittenEntries
<1>5. ASSUME NEW f \in Files, Save(f) \/ Discard(f)
      PROVE  Entries'
  <2>1. Written({f}) /\ UNCHANGED inHand /\ \A g \in Files \ {f} : work'[g] = work[g]
    BY <1>1, <1>5 DEF Save, Discard, pass
  <2> QED
    BY <2>1, WrittenEntries
<1>6. ASSUME NEW f \in Files, FormatOne(f)
      PROVE  Entries'
  <2>1. /\ f \notin cached /\ f \notin inHand /\ cached' = cached
        /\ \A g \in Files : g # f => work'[g] = work[g] /\ (g \in unnoticed' <=> g \in unnoticed)
    BY <1>1, <1>6 DEF FormatOne
  <2>2. \A g \in cached \cup inHand : Okay(g)' <=> Okay(g)
    BY <1>1, <2>1 DEF Okay
  <2>3. \/ inHand' = inHand
        \/ inHand' = inHand \cup {f} /\ work[f] # None /\ work'[f] = Formatted[work[f]]
    BY <1>1, <1>6 DEF FormatOne
  <2>4. work[f] # None => Formatted[Formatted[work[f]]] = Formatted[work[f]]
    BY <1>1, ModesAssumption DEF Maybe
  <2>5. \A g \in inHand : work'[g] = None \/ Okay(g)'
    BY <1>1, <2>1, <2>2 DEF Entries
  <2>6. \A g \in inHand' : work'[g] = None \/ Okay(g)'
    BY <2>3, <2>4, <2>5 DEF Okay
  <2> QED
    BY <1>1, <2>1, <2>2, <2>6 DEF Entries
<1>7. ASSUME NEW f \in Files, RecordOne(f)
      PROVE  Entries'
  BY <1>1, <1>7 DEF RecordOne, Entries, Okay, history
<1>8. CASE \/ StagedWithPaths \/ RefuseSetup \/ CommitPreflight \/ StagedPreflight \/ GitFails
           \/ BeginRepairs \/ RepairFails \/ EndRepairs \/ Interrupt \/ StopReading \/ EndRun
           \/ Status \/ CommitPaths \/ AddPaths \/ BeginStdin \/ ReadStdin \/ FormatStdin
           \/ PrintOut \/ \E f \in Files : Skip(f) \/ Stage(f)
  <2>1. UNCHANGED <<work, cached, inHand, unnoticed>>
    BY <1>8
    DEF StagedWithPaths, RefuseSetup, CommitPreflight, StagedPreflight, GitFails, BeginRepairs,
        RepairFails, EndRepairs, Interrupt, StopReading, EndRun, Status, CommitPaths, AddPaths,
        BeginStdin, ReadStdin, FormatStdin, PrintOut, Skip, Stage, repo, pass, history
  <2> QED
    BY <1>2, <2>1
<1>9. CASE UNCHANGED vars
  BY <1>2, <1>9 DEF vars, repo, pass, history
<1> QED
  BY <1>3, <1>4, <1>5, <1>6, <1>7, <1>8, <1>9 DEF Next

\* Somebody else's doings take the file out of Mine.
LEMMA OthersInv ==
  ASSUME IInv, TypeOK', Entries', NEW g \in Files, Save(g) \/ Stage(g) \/ Discard(g)
  PROVE  IInv'
<1>1. /\ touched' = touched \cup {g}
      /\ UNCHANGED <<head, at, cmd, pass, piped, exit, base, scope, cut>>
      /\ unnoticed \subseteq unnoticed'
  BY DEF Save, Stage, Discard, Written
<1>2. \A f \in Files : f # g => index'[f] = index[f] /\ work'[f] = work[f]
  BY DEF IInv, TypeOK, Now, Repo, Save, Stage, Discard
<1>3. Mine' = Mine \ {g} /\ Mine' \subseteq Files
  BY <1>1 DEF Mine
<1>4. HeadKept' /\ WorkMade' /\ WorkKept'
  BY <1>1, <1>2, <1>3 DEF IInv, HeadKept, WorkMade, WorkKept
<1>5. ModesApart' /\ PreKnown' /\ RecordKnown' /\ PipeKnown'
  BY <1>1, <1>2, <1>3 DEF IInv, ModesApart, PreKnown, RecordKnown, PipeKnown, pass, piped
<1>6. ScopeKnown' /\ ConformantAfter'
  BY <1>1, <1>2, <1>3
  DEF IInv, ScopeKnown, ConformantAfter, Okay, Mine, pass, TypeOK
<1>7. Fixes'
  BY <1>1, <1>2, <1>3
  DEF IInv, Fixes, RefusedUntouched, CommitIsFixes, IndexIsFixes, NothingStranded, Mine
<1>8. StdinPrinted'
  BY <1>1, <1>2, <1>3 DEF IInv, StdinPrinted, Mine, piped
<1> QED
  BY <1>4, <1>5, <1>6, <1>7, <1>8 DEF IInv

\* A new invocation begins with the repository as it is.
LEMMA StartInv ==
  ASSUME IInv, TypeOK', Entries', Start
  PROVE  IInv'
<1>1. /\ UNCHANGED <<head, index, work>> /\ base' = Now /\ touched' = {} /\ scope' = {}
      /\ out' = None
      /\ \/ at' = "idle" /\ exit' = 1
         \/ /\ exit' = None
            /\ at' = IF cmd'.mode = "repair" THEN "run" ELSE "preflight"
  BY DEF Start, End, repo
<1>2. \A f \in Files : /\ head'[f] = base'.head[f] /\ index'[f] = base'.index[f]
                       /\ work'[f] = base'.work[f]
  BY <1>1 DEF Now
<1>3. exit' \notin {0, 2, 3}
  BY <1>1, ModesAssumption
<1>4. HeadKept' /\ WorkMade' /\ WorkKept'
  BY <1>2, MadeOfItself DEF HeadKept, WorkMade, WorkKept, Mine
<1>5. ModesApart' /\ RecordKnown' /\ ScopeKnown' /\ PipeKnown'
  BY <1>1 DEF ModesApart, RecordKnown, ScopeKnown, PipeKnown
<1>6. PreKnown'
  BY <1>1 DEF PreKnown
<1>7. Fixes' /\ ConformantAfter' /\ StdinPrinted'
  BY <1>1, <1>2, <1>3
  DEF Fixes, RefusedUntouched, CommitIsFixes, IndexIsFixes, NothingStranded, ConformantAfter,
      StdinPrinted
<1> QED
  BY <1>4, <1>5, <1>6, <1>7 DEF IInv

\* An invocation that ends with exit code 1, or with 2 before it wrote anything.
LEMMA GiveUpInv ==
  ASSUME IInv, TypeOK', Entries', at # "idle", at' = "idle", exit' \in {1, 2},
         UNCHANGED <<repo, cmd, base, touched>>,
         exit' = 2 => at = "preflight",
         out' = None \/ (at = "print" /\ out' = tmp /\ input' = input)
  PROVE  IInv'
<1>1. exit' # None /\ exit' \notin {0, 3}
  BY ModesAssumption
<1>2. HeadKept' /\ WorkMade' /\ WorkKept'
  BY DEF IInv, HeadKept, WorkMade, WorkKept, Mine, repo
<1>3. ModesApart' /\ PreKnown' /\ RecordKnown' /\ ScopeKnown' /\ PipeKnown'
  BY DEF ModesApart, PreKnown, RecordKnown, ScopeKnown, PipeKnown
<1>4. Fixes' /\ ConformantAfter'
  BY <1>1
  DEF IInv, HeadKept, WorkKept, Fixes, RefusedUntouched, CommitIsFixes, IndexIsFixes,
      NothingStranded, ConformantAfter, Mine, repo
<1>5. StdinPrinted'
  <2>1. cmd.stdin => \A f \in Files \ touched : work[f] = base.work[f]
    BY DEF IInv, StdinPrinted
  <2>2. out' # None => input' # None /\ MadeOf(out', input')
    BY ModesAssumption DEF IInv, PipeKnown
  <2> QED
    BY <1>1, <2>1, <2>2 DEF StdinPrinted, repo
<1> QED
  BY <1>2, <1>3, <1>4, <1>5 DEF IInv

\* A step of a running invocation that writes nothing.
LEMMA GoOnInv ==
  ASSUME IInv, TypeOK', Entries', at # "idle", at' # "idle", UNCHANGED <<repo, cmd, base, touched>>,
         out' = None, at' \in {"preflight", "run"} => at \in {"preflight", "run"}
  PROVE  HeadKept' /\ WorkMade' /\ WorkKept' /\ Fixes' /\ ConformantAfter' /\ StdinPrinted'
<1>1. exit' = None /\ exit' \notin {0, 2, 3}
  BY ModesAssumption DEF TypeOK
<1>2. HeadKept' /\ WorkMade' /\ WorkKept'
  BY DEF IInv, HeadKept, WorkMade, WorkKept, Mine, repo
<1>3. Fixes' /\ ConformantAfter'
  BY <1>1 DEF IInv, HeadKept, Fixes, RefusedUntouched, CommitIsFixes, IndexIsFixes,
      NothingStranded, ConformantAfter, Mine, repo
<1>4. StdinPrinted'
  <2>1. cmd.stdin => \A f \in Files \ touched : work[f] = base.work[f]
    BY DEF IInv, StdinPrinted
  <2> QED
    BY <1>1, <2>1 DEF StdinPrinted, repo
<1> QED
  BY <1>2, <1>3, <1>4

\* What git says of a file nobody touched, before anything is written.
LEMMA StatusAtFirst ==
  ASSUME IInv, at = "preflight", NEW f \in Mine
  PROVE  /\ head[f] = base.head[f] /\ index[f] = base.index[f] /\ work[f] = base.work[f]
         /\ f \in Files
         /\ StagedIn(Now, f) <=> StagedIn(base, f)
         /\ UnstagedIn(Now, f) <=> UnstagedIn(base, f)
<1>1. head[f] = base.head[f] /\ index[f] = base.index[f] /\ work[f] = base.work[f]
  BY DEF IInv, HeadKept, WorkKept
<1> QED
  BY <1>1 DEF StagedIn, UnstagedIn, Now, Mine

LEMMA PreflightInv ==
  ASSUME IInv, TypeOK', Entries',
         StagedWithPaths \/ RefuseSetup \/ CommitPreflight \/ StagedPreflight \/ GitFails
  PROVE  IInv'
<1>1. at # "idle" /\ out = None
  BY DEF StagedWithPaths, RefuseSetup, CommitPreflight, StagedPreflight, GitFails, Suited,
         IInv, PipeKnown
<1>2. CASE at' = "idle" /\ exit' \in {1, 2} /\ (exit' = 2 => at = "preflight")
  <2>1. UNCHANGED <<repo, cmd, base, touched, input, out>>
    BY DEF StagedWithPaths, RefuseSetup, CommitPreflight, StagedPreflight, GitFails, piped, history
  <2> QED
    BY <1>1, <1>2, <2>1, GiveUpInv
<1>3. CASE CommitPreflight /\ at' # "idle"
  <2>1. /\ at = "preflight" /\ at' = "run" /\ cmd.mode = "commit" /\ ~cmd.stdin
        /\ pre' = ChangedPaths(Now) /\ UNCHANGED <<repo, cmd, base, touched, scope, out>>
    BY <1>3 DEF CommitPreflight, Suited, Unsuitable, End, piped, history
  <2>2. HeadKept' /\ WorkMade' /\ WorkKept' /\ Fixes' /\ ConformantAfter' /\ StdinPrinted'
    BY <1>1, <2>1, GoOnInv
  <2>3. PreKnown'
    BY <2>1, StatusAtFirst DEF PreKnown, ChangedPaths, Dirty, Mine
  <2>4. ModesApart' /\ RecordKnown' /\ ScopeKnown' /\ PipeKnown'
    BY <1>1, <2>1 DEF IInv, ModesApart, RecordKnown, ScopeKnown, PipeKnown
  <2> QED
    BY <2>2, <2>3, <2>4 DEF IInv
<1>4. CASE StagedPreflight /\ at' # "idle"
  <2>1. /\ at = "preflight" /\ at' = "run" /\ cmd.mode = "staged" /\ ~cmd.stdin
        /\ pre' = StagedPaths(Now) /\ PartiallyStaged(Now) = {}
        /\ UNCHANGED <<repo, cmd, base, touched, scope, out>>
    BY <1>4 DEF StagedPreflight, Suited, Unsuitable, End, piped, history
  <2>2. HeadKept' /\ WorkMade' /\ WorkKept' /\ Fixes' /\ ConformantAfter' /\ StdinPrinted'
    BY <1>1, <2>1, GoOnInv
  <2>3. PreKnown'
    BY <2>1, StatusAtFirst DEF PreKnown, StagedPaths, PartiallyStaged, Mine
  <2>4. ModesApart' /\ RecordKnown' /\ ScopeKnown' /\ PipeKnown'
    BY <1>1, <2>1 DEF IInv, ModesApart, RecordKnown, ScopeKnown, PipeKnown
  <2> QED
    BY <2>2, <2>3, <2>4 DEF IInv
<1>5. CASE StagedPreflight /\ exit' = 0
  <2>1. /\ at = "preflight" /\ at' = "idle" /\ cmd.mode = "staged" /\ ~cmd.stdin
        /\ {f \in StagedPaths(Now) : index[f] # None} = {}
        /\ UNCHANGED <<repo, cmd, base, touched, scope, out>>
    BY <1>5, ModesAssumption
    DEF StagedPreflight, Suited, Unsuitable, End, piped, history, IInv, TypeOK
  <2>2. \A f \in Mine : StagedIn(base, f) => index[f] = None
    BY <2>1, StatusAtFirst DEF StagedPaths
  <2>3. HeadKept' /\ WorkMade' /\ WorkKept'
    BY <2>1 DEF IInv, HeadKept, WorkMade, WorkKept, Mine, repo
  <2>4. ModesApart' /\ PreKnown' /\ RecordKnown' /\ ScopeKnown' /\ PipeKnown'
    BY <2>1 DEF ModesApart, PreKnown, RecordKnown, ScopeKnown, PipeKnown
  <2>5. scope = {}
    BY <2>1 DEF IInv, ScopeKnown
  <2>6. Fixes' /\ ConformantAfter' /\ StdinPrinted'
    BY <1>5, <2>1, <2>2, <2>5
    DEF IInv, HeadKept, Fixes, RefusedUntouched, CommitIsFixes, IndexIsFixes, NothingStranded,
        ConformantAfter, StdinPrinted, Mine, repo
  <2> QED
    BY <2>3, <2>4, <2>6 DEF IInv
<1> QED
  BY <1>2, <1>3, <1>4, <1>5
  DEF StagedWithPaths, RefuseSetup, CommitPreflight, StagedPreflight, GitFails, Suited, End

\* Running the tools of the repair pass or the formatting pass on some files.
LEMMA ToolInv ==
  ASSUME IInv, TypeOK', Entries', at \in {"repair", "format"}, at' = at, out' = out,
         UNCHANGED <<head, index, cmd, base, touched>>,
         \A f \in Mine : work'[f] = work[f] \/ MadeOf(work'[f], base.work[f])
  PROVE  HeadKept' /\ WorkMade' /\ WorkKept' /\ Fixes' /\ ConformantAfter' /\ StdinPrinted'
<1>1. exit' = None /\ exit' \notin {0, 2, 3} /\ ~cmd.stdin /\ out' = None
  BY ModesAssumption DEF IInv, TypeOK, ModesApart, PipeKnown
<1>2. HeadKept' /\ WorkMade' /\ WorkKept'
  BY <1>1 DEF IInv, HeadKept, WorkMade, WorkKept, Mine
<1>3. Fixes' /\ ConformantAfter' /\ StdinPrinted'
  BY <1>1 DEF IInv, HeadKept, Fixes, RefusedUntouched, CommitIsFixes, IndexIsFixes,
      NothingStranded, ConformantAfter, StdinPrinted, Mine
<1> QED
  BY <1>2, <1>3

\* A tool run on what the tools made of a file makes what the tools can make.
LEMMA ToolMakes ==
  ASSUME IInv, NEW f \in Mine, work[f] # None
  PROVE  /\ MadeOf(Formatted[work[f]], base.work[f])
         /\ \A x \in Partial[work[f]] : MadeOf(x, base.work[f])
         /\ \A l \in Linters : MadeOf(Repaired[l][work[f]], base.work[f])
<1>1. work[f] \in Maybe /\ base.work[f] \in Maybe
  BY DEF IInv, TypeOK, Now, Repo, Mine
<1>2. MadeOf(work[f], base.work[f])
  BY DEF IInv, WorkMade
<1>3. work[f] \in Contents /\ base.work[f] \in Contents
  BY <1>1, <1>2, MadeOfNone
<1> QED
  BY <1>2, <1>3, MadeOfStep

LEMMA RepairInv ==
  ASSUME IInv, TypeOK', Entries',
         BeginRepairs \/ (\E l \in Linters : RepairOne(l)) \/ RepairFails \/ EndRepairs
  PROVE  IInv'
<1>1. at \in {"run", "repair"} /\ out = None
  BY DEF BeginRepairs, RepairOne, RepairFails, EndRepairs, IInv, PipeKnown
<1>2. CASE at' = "idle"
  <2>1. exit' = 1 /\ UNCHANGED <<repo, cmd, base, touched, out>>
    BY <1>1, <1>2 DEF BeginRepairs, RepairOne, RepairFails, EndRepairs, End, piped, history
  <2>2. exit' # 2
    BY <2>1
  <2> QED
    BY <1>1, <1>2, <2>1, <2>2, GiveUpInv
<1>3. CASE (BeginRepairs \/ EndRepairs) /\ at' # "idle"
  <2>1. /\ \/ at = "run" /\ at' = "repair" /\ ~cmd.stdin
           \/ at = "repair" /\ at' = "walk"
        /\ UNCHANGED <<repo, cmd, pre, base, touched, scope, out>>
    BY <1>3 DEF BeginRepairs, EndRepairs, End, pass, piped, history
  <2>2. HeadKept' /\ WorkMade' /\ WorkKept' /\ Fixes' /\ ConformantAfter' /\ StdinPrinted'
    BY <1>1, <2>1, GoOnInv
  <2>3. PreKnown' /\ ModesApart' /\ RecordKnown' /\ ScopeKnown' /\ PipeKnown'
    BY <1>1, <2>1
    DEF IInv, PreKnown, Mine, ModesApart, RecordKnown, ScopeKnown, PipeKnown
  <2> QED
    BY <2>2, <2>3 DEF IInv
<1>4. CASE \E l \in Linters : RepairOne(l)
  <2>1. PICK l \in Linters : RepairOne(l)
    BY <1>4
  <2>2. /\ at = "repair" /\ at' = at
        /\ UNCHANGED <<head, index, cmd, pre, base, touched, scope, out>>
    BY <2>1 DEF RepairOne, piped, history
  <2>3. \A f \in Files : work'[f] = work[f] \/ (work[f] # None /\ work'[f] = Repaired[l][work[f]])
    BY <2>1 DEF RepairOne, Reach
  <2>4. \A f \in Mine : work'[f] = work[f] \/ MadeOf(work'[f], base.work[f])
    BY <2>3, ToolMakes DEF Mine
  <2>5. HeadKept' /\ WorkMade' /\ WorkKept' /\ Fixes' /\ ConformantAfter' /\ StdinPrinted'
    BY <2>2, <2>4, ToolInv
  <2>6. PreKnown' /\ ModesApart' /\ RecordKnown' /\ ScopeKnown' /\ PipeKnown'
    BY <2>2 DEF IInv, PreKnown, Mine, ModesApart, RecordKnown, ScopeKnown, PipeKnown
  <2> QED
    BY <2>5, <2>6 DEF IInv
<1> QED
  BY <1>2, <1>3, <1>4 DEF RepairFails, End

\* Beginning the formatting pass, skipping and recording files, and stopping.
LEMMA PassInv ==
  ASSUME IInv, TypeOK', Entries',
         BeginFormat \/ Interrupt \/ StopReading \/ (\E f \in Files : Skip(f) \/ RecordOne(f))
  PROVE  IInv'
<1>1. at \in {"repair", "walk", "format"} /\ out = None
  BY DEF BeginFormat, Skip, RecordOne, Interrupt, StopReading, IInv, PipeKnown
<1>2. CASE BeginFormat /\ at' = "idle"
  <2>1. exit' = 1 /\ UNCHANGED <<repo, cmd, base, touched, out>>
    BY <1>1, <1>2 DEF BeginFormat, End, piped
  <2>2. exit' # 2
    BY <2>1
  <2> QED
    BY <1>1, <1>2, <2>1, <2>2, GiveUpInv
<1>3. CASE BeginFormat /\ at' # "idle"
  <2>1. /\ at = "walk" /\ at' = "format" /\ todo' = scope'
        /\ UNCHANGED <<repo, cmd, pre, base, touched, out>>
    BY <1>3 DEF BeginFormat, End, piped
  <2>2. HeadKept' /\ WorkMade' /\ WorkKept' /\ Fixes' /\ ConformantAfter' /\ StdinPrinted'
    BY <1>1, <2>1, GoOnInv
  <2>3. PreKnown' /\ ModesApart' /\ RecordKnown' /\ ScopeKnown' /\ PipeKnown'
    BY <1>1, <2>1
    DEF IInv, PreKnown, Mine, ModesApart, RecordKnown, ScopeKnown, PipeKnown
  <2> QED
    BY <2>2, <2>3 DEF IInv
<1>4. CASE Interrupt \/ StopReading
  <2>1. /\ at' = at /\ cut' = TRUE /\ (at # "format" => at' # "format")
        /\ UNCHANGED <<repo, cmd, pre, base, touched, scope, out>>
    BY <1>4 DEF Interrupt, StopReading, pass, piped, history, IInv, TypeOK
  <2>2. HeadKept' /\ WorkMade' /\ WorkKept' /\ Fixes' /\ ConformantAfter' /\ StdinPrinted'
    BY <1>1, <2>1, GoOnInv
  <2>3. ScopeKnown'
    BY <1>1, <2>1 DEF IInv, ScopeKnown
  <2>4. PreKnown' /\ ModesApart' /\ RecordKnown' /\ PipeKnown'
    BY <1>1, <2>1 DEF IInv, PreKnown, Mine, ModesApart, RecordKnown, PipeKnown
  <2> QED
    BY <2>2, <2>3, <2>4 DEF IInv
<1>5. ASSUME NEW f \in Files, Skip(f) \/ RecordOne(f)
      PROVE  IInv'
  <2>1. /\ at = "format" /\ at' = at
        /\ UNCHANGED <<head, index, work, cmd, pre, base, touched, scope, cut, unnoticed, out>>
    BY <1>5 DEF Skip, RecordOne, repo, piped, history
  <2>2. HeadKept' /\ WorkMade' /\ WorkKept' /\ Fixes' /\ ConformantAfter' /\ StdinPrinted'
    BY <2>1, ToolInv
  <2>3. /\ todo' = todo \/ (f \in cached /\ todo' = todo \ {f})
        /\ failed' = failed \/ failed' = TRUE
    BY <1>5 DEF Skip, RecordOne
  <2>4. f \in cached => Okay(f)
    BY DEF IInv, Entries
  <2>5. ScopeKnown'
    BY <2>1, <2>3, <2>4 DEF IInv, ScopeKnown, Okay
  <2>6. PreKnown' /\ ModesApart' /\ RecordKnown' /\ PipeKnown'
    BY <2>1 DEF IInv, PreKnown, Mine, ModesApart, RecordKnown, PipeKnown
  <2> QED
    BY <2>2, <2>5, <2>6 DEF IInv
<1> QED
  BY <1>2, <1>3, <1>4, <1>5

\* The formatters, that fail perhaps.
LEMMA FormatInv ==
  ASSUME IInv, TypeOK', Entries', NEW f \in Files, FormatOne(f)
  PROVE  IInv'
<1>1. /\ at = "format" /\ at' = at /\ todo' = todo \ {f}
      /\ UNCHANGED <<head, index, cmd, pre, base, touched, scope, cut, out>>
  BY DEF FormatOne, piped
<1>2. work \in [Files -> Maybe]
  BY DEF IInv, TypeOK, Now, Repo
<1>3. /\ \A g \in Files : g # f => work'[g] = work[g] /\ (g \in unnoticed' <=> g \in unnoticed)
      /\ \/ work[f] # None /\ work'[f] = Formatted[work[f]] /\ failed' = failed
         \/ failed' /\ work[f] # None /\ work'[f] \in Partial[work[f]]
         \/ failed' /\ work'[f] = work[f]
  BY <1>2 DEF FormatOne
<1>4. \A g \in Mine : work'[g] = work[g] \/ MadeOf(work'[g], base.work[g])
  BY <1>3, ToolMakes DEF Mine
<1>5. HeadKept' /\ WorkMade' /\ WorkKept' /\ Fixes' /\ ConformantAfter' /\ StdinPrinted'
  BY <1>1, <1>4, ToolInv
<1>6. work[f] # None => /\ Formatted[work[f]] # None
                        /\ Formatted[Formatted[work[f]]] = Formatted[work[f]]
  BY <1>2, ModesAssumption DEF Maybe
<1>7. ScopeKnown'
  <2>1. SUFFICES ASSUME ~failed', ~cut, NEW g \in scope \ (todo' \cup touched)
                 PROVE  Okay(g)'
    BY <1>1 DEF ScopeKnown
  <2>2. work[f] # None /\ work'[f] = Formatted[work[f]] /\ ~failed
    BY <1>3, <2>1
  <2>3. CASE g = f
    BY <1>6, <2>2, <2>3 DEF Okay
  <2>4. CASE g # f
    <3>1. Okay(g) /\ g \in Files
      BY <1>1, <2>1, <2>2, <2>4 DEF IInv, ScopeKnown, TypeOK
    <3> QED
      BY <1>3, <2>4, <3>1 DEF Okay
  <2> QED
    BY <2>3, <2>4
<1>8. PreKnown' /\ ModesApart' /\ RecordKnown' /\ PipeKnown'
  BY <1>1 DEF IInv, PreKnown, Mine, ModesApart, RecordKnown, PipeKnown
<1> QED
  BY <1>5, <1>7, <1>8 DEF IInv

\* The run is over: it failed, or what it was to format is conformant.
LEMMA EndRunInv ==
  ASSUME IInv, TypeOK', Entries', EndRun
  PROVE  IInv'
<1>1. /\ at = "format" /\ todo = {} /\ out = None /\ ~cmd.stdin
      /\ UNCHANGED <<repo, cmd, pre, base, touched, scope, cut, unnoticed, failed, out>>
  BY DEF EndRun, pass, piped, history, IInv, PipeKnown, ModesApart
<1>2. CASE at' = "idle" /\ exit' = 1
  <2>1. exit' # 2
    BY <1>2
  <2> QED
    BY <1>1, <1>2, <2>1, GiveUpInv
<1>3. CASE ~failed /\ cmd.mode = "repair" /\ at' = "idle" /\ exit' = 0
  <2>1. HeadKept' /\ WorkMade' /\ WorkKept'
    BY <1>1, <1>3 DEF IInv, HeadKept, WorkMade, WorkKept, Mine, repo
  <2>2. ModesApart' /\ PreKnown' /\ RecordKnown' /\ ScopeKnown' /\ PipeKnown'
    BY <1>3 DEF ModesApart, PreKnown, RecordKnown, ScopeKnown, PipeKnown
  <2>3. Fixes' /\ StdinPrinted'
    BY <1>1, <1>3
    DEF IInv, HeadKept, Fixes, RefusedUntouched, CommitIsFixes, IndexIsFixes, NothingStranded,
        StdinPrinted, Mine, repo
  <2>4. ConformantAfter'
    BY <1>1, <1>3 DEF IInv, ScopeKnown, ConformantAfter, Okay, repo
  <2> QED
    BY <2>1, <2>2, <2>3, <2>4 DEF IInv
<1>4. CASE ~failed /\ cmd.mode # "repair" /\ at' = "status"
  <2>1. HeadKept' /\ WorkMade' /\ WorkKept' /\ Fixes' /\ ConformantAfter' /\ StdinPrinted'
    BY <1>1, <1>4, GoOnInv
  <2>2. ScopeKnown'
    BY <1>1, <1>4 DEF IInv, ScopeKnown, Okay, repo
  <2>3. PreKnown' /\ ModesApart' /\ RecordKnown' /\ PipeKnown'
    BY <1>1, <1>4 DEF IInv, PreKnown, Mine, ModesApart, RecordKnown, PipeKnown
  <2> QED
    BY <2>1, <2>2, <2>3 DEF IInv
<1> QED
  BY <1>2, <1>3, <1>4 DEF EndRun, RunFailed, End

\* What git says after the run decides what is recorded.
LEMMA StatusInv ==
  ASSUME IInv, TypeOK', Entries', Status
  PROVE  IInv'
<1>1. /\ at = "status" /\ out = None /\ ~cmd.stdin /\ cmd.mode # "repair" /\ exit = None
      /\ UNCHANGED <<repo, cmd, pre, base, touched, scope, cut, unnoticed, out>>
      /\ record' = IF cmd.mode = "commit" THEN ToCommit ELSE ToRestage
      /\ \/ at' = "idle" /\ exit' = 0 /\ record' = {}
         \/ at' = "record"
  BY DEF Status, End, piped, history, IInv, PipeKnown, ModesApart, TypeOK
<1>2. cmd.mode = "commit" \/ cmd.mode = "staged"
  BY <1>1 DEF IInv, TypeOK, Command
<1>3. \A f \in Mine : f \in Files /\ head[f] = base.head[f] /\ index[f] = base.index[f]
  BY <1>1 DEF IInv, HeadKept, Mine
<1>4. ASSUME NEW f \in Mine, cmd.mode = "commit"
      PROVE  /\ f \in record' => ~Dirty(base, f) /\ base.index[f] # None
             /\ (f \notin record' /\ ~Dirty(base, f) /\ index[f] # None) => work[f] = index[f]
  <2>1. f \in pre <=> Dirty(base, f)
    BY <1>1, <1>4 DEF IInv, PreKnown
  <2>2. f \in record' <=> (StagedIn(Now, f) \/ UnstagedIn(Now, f)) /\ f \notin pre
    BY <1>1, <1>3, <1>4 DEF ToCommit, ChangedPaths
  <2>3. ~Dirty(base, f) => head[f] = index[f]
    BY <1>3, <1>4 DEF Dirty, StagedIn
  <2> QED
    BY <1>3, <1>4, <2>1, <2>2, <2>3 DEF StagedIn, UnstagedIn, Now
<1>5. ASSUME NEW f \in Mine, cmd.mode = "staged"
      PROVE  /\ f \in record' => StagedIn(base, f) /\ ~UnstagedIn(base, f) /\ base.index[f] # None
             /\ (f \notin record' /\ StagedIn(base, f) /\ index[f] # None) => work[f] = index[f]
  <2>1. (f \in pre <=> StagedIn(base, f)) /\ (f \in pre => ~UnstagedIn(base, f))
    BY <1>1, <1>5 DEF IInv, PreKnown
  <2>2. f \in record' <=> f \in pre /\ UnstagedIn(Now, f)
    BY <1>1, <1>5 DEF ToRestage
  <2> QED
    BY <1>3, <1>5, <2>1, <2>2 DEF UnstagedIn, Now
<1>6. CASE at' = "record"
  <2>1. HeadKept' /\ WorkMade' /\ WorkKept' /\ Fixes' /\ ConformantAfter' /\ StdinPrinted'
    BY <1>1, <1>6, GoOnInv
  <2>2. RecordKnown'
    BY <1>1, <1>4, <1>5 DEF RecordKnown, Mine, repo
  <2>3. ScopeKnown' /\ PreKnown' /\ ModesApart' /\ PipeKnown'
    BY <1>1, <1>6
    DEF IInv, ScopeKnown, Okay, PreKnown, Mine, ModesApart, PipeKnown, repo
  <2> QED
    BY <2>1, <2>2, <2>3 DEF IInv
<1>7. CASE at' = "idle" /\ exit' = 0 /\ record' = {}
  <2>1. HeadKept' /\ WorkMade' /\ WorkKept'
    BY <1>1, <1>7 DEF IInv, HeadKept, WorkMade, WorkKept, Mine, repo
  <2>2. ModesApart' /\ PreKnown' /\ RecordKnown' /\ ScopeKnown' /\ PipeKnown'
    BY <1>7 DEF ModesApart, PreKnown, RecordKnown, ScopeKnown, PipeKnown
  <2>3. NothingStranded'
    <3>1. SUFFICES ASSUME NEW f \in Mine
                   PROVE  /\ (cmd.mode = "commit" /\ ~Dirty(base, f) /\ index[f] # None) =>
                                work[f] = index[f] /\ index[f] = head[f]
                          /\ (cmd.mode = "staged" /\ StagedIn(base, f) /\ index[f] # None) =>
                                work[f] = index[f]
      BY <1>1, <1>3, <1>7 DEF NothingStranded, Mine, repo
    <3>2. ~Dirty(base, f) => head[f] = index[f]
      BY <1>3, <3>1 DEF Dirty, StagedIn
    <3> QED
      BY <1>4, <1>5, <1>7, <3>1, <3>2
  <2>4. RefusedUntouched' /\ CommitIsFixes' /\ IndexIsFixes' /\ StdinPrinted'
    BY <1>1, <1>3, <1>7
    DEF RefusedUntouched, CommitIsFixes, IndexIsFixes, StdinPrinted, Mine, repo
  <2>5. ConformantAfter'
    BY <1>1, <1>7 DEF IInv, ScopeKnown, ConformantAfter, Okay, repo
  <2> QED
    BY <2>1, <2>2, <2>3, <2>4, <2>5 DEF IInv, Fixes
<1> QED
  BY <1>1, <1>6, <1>7

\* git commit takes the recorded files from the tree and nothing else.
LEMMA CommitInv ==
  ASSUME IInv, TypeOK', Entries', CommitPaths
  PROVE  IInv'
<1>1. /\ at = "record" /\ at' = "idle" /\ cmd.mode = "commit" /\ out = None /\ ~cmd.stdin
      /\ UNCHANGED <<work, cached, cmd, base, touched, scope, cut, unnoticed, out>>
      /\ \/ exit' = 1 /\ UNCHANGED <<head, index>>
         \/ exit' \in {1, 3} /\ head' = FromWork(head) /\ index' = FromWork(index)
  BY DEF CommitPaths, End, piped, history, IInv, PipeKnown, ModesApart
<1>2. CASE exit' = 1 /\ UNCHANGED <<head, index>>
  <2>1. exit' # 2
    BY <1>2
  <2> QED
    BY <1>1, <1>2, <2>1, GiveUpInv DEF repo
<1>3. CASE exit' \in {1, 3} /\ head' = FromWork(head) /\ index' = FromWork(index)
  <2>1. \A f \in Mine : /\ f \in Files /\ head[f] = base.head[f] /\ index[f] = base.index[f]
                        /\ MadeOf(work[f], base.work[f])
    BY <1>1 DEF IInv, HeadKept, WorkMade, Mine
  <2>2. ASSUME NEW f \in Mine, f \in record
        PROVE  /\ head'[f] = work[f] /\ index'[f] = work[f]
               /\ ~Dirty(base, f) /\ MadeOf(head'[f], base.head[f])
    <3>1. head'[f] = work[f] /\ index'[f] = work[f]
      BY <1>3, <2>1, <2>2 DEF FromWork
    <3>2. ~Dirty(base, f) /\ base.index[f] # None
      BY <1>1, <2>2 DEF IInv, RecordKnown
    <3>3. base.head[f] = base.work[f]
      BY <3>2 DEF Dirty, StagedIn, UnstagedIn
    <3> QED
      BY <2>1, <2>2, <3>1, <3>2, <3>3
  <2>3. ASSUME NEW f \in Mine, f \notin record
        PROVE  /\ head'[f] = base.head[f] /\ index'[f] = base.index[f]
               /\ ~Dirty(base, f) /\ index'[f] # None => work[f] = index'[f] /\ index'[f] = head'[f]
    <3>1. head'[f] = head[f] /\ index'[f] = index[f]
      BY <1>3, <2>1, <2>3 DEF FromWork
    <3>2. ~Dirty(base, f) /\ index[f] # None => work[f] = index[f]
      BY <1>1, <2>3 DEF IInv, RecordKnown
    <3>3. ~Dirty(base, f) => base.head[f] = base.index[f]
      BY DEF Dirty, StagedIn
    <3> QED
      BY <2>1, <2>3, <3>1, <3>2, <3>3
  <2>4. HeadKept' /\ WorkMade' /\ WorkKept'
    BY <1>1, <2>1 DEF IInv, HeadKept, WorkMade, WorkKept, Mine
  <2>5. ModesApart' /\ PreKnown' /\ RecordKnown' /\ ScopeKnown' /\ PipeKnown'
    BY <1>1 DEF ModesApart, PreKnown, RecordKnown, ScopeKnown, PipeKnown
  <2>6. CommitIsFixes' /\ IndexIsFixes'
    BY <1>1, <2>2, <2>3 DEF CommitIsFixes, IndexIsFixes, Mine
  <2>7. RefusedUntouched' /\ NothingStranded'
    BY <1>1, <1>3, <2>2, <2>3 DEF RefusedUntouched, NothingStranded, Mine
  <2>8. ConformantAfter' /\ StdinPrinted'
    BY <1>1 DEF IInv, ScopeKnown, ConformantAfter, Okay, StdinPrinted
  <2> QED
    BY <2>4, <2>5, <2>6, <2>7, <2>8 DEF IInv, Fixes
<1> QED
  BY <1>1, <1>2, <1>3

\* git add does the same to the index.
LEMMA AddInv ==
  ASSUME IInv, TypeOK', Entries', AddPaths
  PROVE  IInv'
<1>1. /\ at = "record" /\ at' = "idle" /\ cmd.mode = "staged" /\ out = None /\ ~cmd.stdin
      /\ UNCHANGED <<head, work, cached, cmd, base, touched, scope, cut, unnoticed, out>>
      /\ \/ exit' = 1 /\ UNCHANGED index
         \/ exit' = 3 /\ index' = FromWork(index)
  BY DEF AddPaths, End, piped, history, IInv, PipeKnown, ModesApart
<1>2. CASE exit' = 1 /\ UNCHANGED index
  <2>1. exit' # 2
    BY <1>2
  <2> QED
    BY <1>1, <1>2, <2>1, GiveUpInv DEF repo
<1>3. CASE exit' = 3 /\ index' = FromWork(index)
  <2>1. \A f \in Mine : /\ f \in Files /\ head[f] = base.head[f] /\ index[f] = base.index[f]
                        /\ MadeOf(work[f], base.work[f])
    BY <1>1 DEF IInv, HeadKept, WorkMade, Mine
  <2>2. ASSUME NEW f \in Mine, f \in record
        PROVE  /\ index'[f] = work[f] /\ MadeOf(index'[f], base.index[f])
               /\ StagedIn(base, f) /\ ~UnstagedIn(base, f)
    <3>1. index'[f] = work[f]
      BY <1>3, <2>1, <2>2 DEF FromWork
    <3>2. StagedIn(base, f) /\ ~UnstagedIn(base, f) /\ base.index[f] # None
      BY <1>1, <2>2 DEF IInv, RecordKnown
    <3>3. base.index[f] = base.work[f]
      BY <3>2 DEF UnstagedIn
    <3> QED
      BY <2>1, <2>2, <3>1, <3>2, <3>3
  <2>3. ASSUME NEW f \in Mine, f \notin record
        PROVE  /\ index'[f] = base.index[f]
               /\ StagedIn(base, f) /\ index'[f] # None => work[f] = index'[f]
    <3>1. index'[f] = index[f]
      BY <1>3, <2>1, <2>3 DEF FromWork
    <3>2. StagedIn(base, f) /\ index[f] # None => work[f] = index[f]
      BY <1>1, <2>3 DEF IInv, RecordKnown
    <3> QED
      BY <2>1, <2>3, <3>1, <3>2
  <2>4. HeadKept' /\ WorkMade' /\ WorkKept'
    BY <1>1, <2>1 DEF IInv, HeadKept, WorkMade, WorkKept, Mine
  <2>5. ModesApart' /\ PreKnown' /\ RecordKnown' /\ ScopeKnown' /\ PipeKnown'
    BY <1>1 DEF ModesApart, PreKnown, RecordKnown, ScopeKnown, PipeKnown
  <2>6. CommitIsFixes' /\ IndexIsFixes'
    BY <1>1, <2>1, <2>2, <2>3 DEF CommitIsFixes, IndexIsFixes, Mine
  <2>7. RefusedUntouched' /\ NothingStranded'
    BY <1>1, <1>3, <2>2, <2>3 DEF RefusedUntouched, NothingStranded, Mine
  <2>8. ConformantAfter' /\ StdinPrinted'
    BY <1>1 DEF IInv, ScopeKnown, ConformantAfter, Okay, StdinPrinted
  <2> QED
    BY <2>4, <2>5, <2>6, <2>7, <2>8 DEF IInv, Fixes
<1> QED
  BY <1>1, <1>2, <1>3

\* --stdin writes to the temporary file only.
LEMMA StdinInv ==
  ASSUME IInv, TypeOK', Entries', BeginStdin \/ ReadStdin \/ FormatStdin \/ PrintOut
  PROVE  IInv'
<1>1. /\ at \in {"run", "stdin", "piped", "print"} /\ out = None /\ exit = None
      /\ cmd.stdin /\ cmd.mode = "repair" /\ scope = {}
      /\ UNCHANGED <<repo, cmd, base, touched, scope>>
  BY DEF BeginStdin, ReadStdin, FormatStdin, PrintOut, history, IInv, PipeKnown, ModesApart,
         ScopeKnown, TypeOK
<1>2. CASE at' = "idle" /\ exit' = 1
  <2>1. out' = None \/ (at = "print" /\ out' = tmp /\ input' = input)
    BY <1>1 DEF BeginStdin, ReadStdin, FormatStdin, PrintOut, piped
  <2>2. exit' # 2
    BY <1>2
  <2> QED
    BY <1>1, <1>2, <2>1, <2>2, GiveUpInv
<1>3. CASE at' # "idle"
  <2>1. /\ out' = None
        /\ \/ at = "run" /\ at' = "stdin"
           \/ /\ at = "stdin" /\ at' = "piped"
              /\ \E c \in Contents : input' = c /\ tmp' = c
           \/ /\ at = "piped" /\ at' = "print" /\ input' = input
              /\ \/ tmp' = Formatted[tmp]
                 \/ tmp' \in Partial[tmp] /\ failed'
                 \/ tmp' = tmp /\ ~(cmd.paths \subseteq FmtWants)
    BY <1>1, <1>3 DEF BeginStdin, ReadStdin, FormatStdin, PrintOut, End, piped
  <2>2. HeadKept' /\ WorkMade' /\ WorkKept' /\ Fixes' /\ ConformantAfter' /\ StdinPrinted'
    <3>1. at' \notin {"preflight", "run"}
      BY <2>1
    <3> QED
      BY <1>1, <1>3, <2>1, <3>1, GoOnInv
  <2>3. ModesApart' /\ PreKnown' /\ RecordKnown' /\ ScopeKnown'
    BY <1>1, <2>1 DEF ModesApart, PreKnown, RecordKnown, ScopeKnown
  <2>4. PipeKnown'
    <3>1. CASE at = "run" \/ at = "stdin"
      BY <2>1, <3>1, MadeOfItself DEF PipeKnown
    <3>2. CASE at = "piped"
      <4>1. input \in Contents /\ tmp \in Contents /\ MadeOf(tmp, input)
        BY <3>2 DEF IInv, PipeKnown
      <4>2. /\ Formatted[tmp] \in Contents /\ Formatted[Formatted[tmp]] = Formatted[tmp]
            /\ MadeOf(Formatted[tmp], input)
            /\ \A x \in Partial[tmp] : x \in Contents /\ MadeOf(x, input)
        BY <4>1, MadeOfStep, ModesAssumption
      <4> QED
        BY <1>1, <2>1, <3>2, <4>1, <4>2 DEF PipeKnown
    <3> QED
      BY <2>1, <3>1, <3>2
  <2> QED
    BY <2>2, <2>3, <2>4 DEF IInv
<1>4. CASE PrintOut /\ at' = "idle" /\ exit' = 0
  <2>1. at = "print" /\ ~failed /\ out' = tmp /\ tmp' = None /\ input' = input
    BY <1>4 DEF PrintOut, End
  <2>2. /\ input \in Contents /\ tmp \in Contents /\ MadeOf(tmp, input)
        /\ cmd.paths \subseteq FmtWants => Formatted[tmp] = tmp
    BY <2>1 DEF IInv, PipeKnown
  <2>3. \A f \in Mine : work[f] = base.work[f] /\ head[f] = base.head[f] /\ index[f] = base.index[f]
    BY <1>1 DEF IInv, WorkKept, HeadKept
  <2>4. HeadKept' /\ WorkMade' /\ WorkKept'
    BY <1>1, <1>4, <2>3 DEF IInv, HeadKept, WorkMade, WorkKept, Mine, repo
  <2>5. ModesApart' /\ PreKnown' /\ RecordKnown' /\ ScopeKnown' /\ PipeKnown'
    BY <1>4 DEF ModesApart, PreKnown, RecordKnown, ScopeKnown, PipeKnown
  <2>6. Fixes' /\ ConformantAfter'
    BY <1>1, <1>4, <2>3
    DEF Fixes, RefusedUntouched, CommitIsFixes, IndexIsFixes, NothingStranded, ConformantAfter,
        Mine, repo
  <2>7. StdinPrinted'
    BY <1>1, <2>1, <2>2, <2>3, ModesAssumption DEF StdinPrinted, Mine, repo
  <2> QED
    BY <2>4, <2>5, <2>6, <2>7 DEF IInv
<1> QED
  BY <1>2, <1>3, <1>4 DEF BeginStdin, ReadStdin, FormatStdin, PrintOut, End

-----------------------------------------------------------------------------
(* Theorems.                                                               *)

LEMMA NextInv ==
  ASSUME IInv, [Next]_vars
  PROVE  IInv'
<1>1. TypeOK' /\ Entries'
  BY NextType, EntriesInv DEF IInv
<1>2. CASE UNCHANGED vars
  BY <1>2, StutterInv
<1>3. CASE \E f \in Files : Save(f) \/ Stage(f) \/ Discard(f)
  BY <1>1, <1>3, OthersInv
<1>4. CASE Start \/ EndRun \/ Status \/ CommitPaths \/ AddPaths
  BY <1>1, <1>4, StartInv, EndRunInv, StatusInv, CommitInv, AddInv
<1>5. CASE StagedWithPaths \/ RefuseSetup \/ CommitPreflight \/ StagedPreflight \/ GitFails
  BY <1>1, <1>5, PreflightInv
<1>6. CASE BeginRepairs \/ (\E l \in Linters : RepairOne(l)) \/ RepairFails \/ EndRepairs
  BY <1>1, <1>6, RepairInv
<1>7. CASE \/ BeginFormat \/ Interrupt \/ StopReading
           \/ \E f \in Files : Skip(f) \/ FormatOne(f) \/ RecordOne(f)
  BY <1>1, <1>7, PassInv, FormatInv
<1>8. CASE BeginStdin \/ ReadStdin \/ FormatStdin \/ PrintOut
  BY <1>1, <1>8, StdinInv
<1> QED
  BY <1>2, <1>3, <1>4, <1>5, <1>6, <1>7, <1>8 DEF Next

LEMMA Inductive == Spec => []IInv
  BY InitInv, NextInv, PTL DEF Spec

\* commit.go:53-54: HEAD moves only by what the tools made of clean files.
THEOREM CommitCorrect == Spec => []CommitIsFixes
<1>1. IInv => CommitIsFixes
  BY DEF IInv, Fixes
<1> QED
  BY <1>1, Inductive, PTL

\* staged.go:37-43: the index moves only by what the tools made of staged files.
THEOREM IndexCorrect == Spec => []IndexIsFixes
<1>1. IInv => IndexIsFixes
  BY DEF IInv, Fixes
<1> QED
  BY <1>1, Inductive, PTL

\* commit.go:32-34: a refused run leaves everything as it was.
THEOREM RefusalCorrect == Spec => []RefusedUntouched
<1>1. IInv => RefusedUntouched
  BY DEF IInv, Fixes
<1> QED
  BY <1>1, Inductive, PTL

\* commit.go:24-26: a run that says it is done leaves nothing unrecorded.
THEOREM RecordingCorrect == Spec => []NothingStranded
<1>1. IInv => NothingStranded
  BY DEF IInv, Fixes
<1> QED
  BY <1>1, Inductive, PTL

\* What a complete run had to format is conformant, linter repairs included.
THEOREM ConformanceCorrect == Spec => []ConformantAfter
<1>1. IInv => ConformantAfter
  BY DEF IInv
<1> QED
  BY <1>1, Inductive, PTL

\* --stdin prints what the formatters made of its input and leaves the tree alone.
THEOREM StdinCorrect == Spec => []StdinPrinted
<1>1. IInv => StdinPrinted
  BY DEF IInv
<1> QED
  BY <1>1, Inductive, PTL

=============================================================================
