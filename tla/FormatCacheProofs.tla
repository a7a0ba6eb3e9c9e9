-------------------------- MODULE FormatCacheProofs --------------------------
(***************************************************************************)
(* Theorems about FormatCache for any number of processes, formatters,     *)
(* configurations and removals of the cache.                               *)
(***************************************************************************)
EXTENDS FormatCache, TLAPS

-----------------------------------------------------------------------------
(* Types.                                                                  *)

Info  == [mtime : 0 .. now, size : Sizes]
Entry == [formatters : {SigOf[c] : c \in Configs}, mtime : 0 .. now, size : Sizes]
File  == [mtime : 0 .. now, size : Sizes, done : SUBSET (Configs \X (1 .. Chain))]

\* The fields of a run in each of its stages.
Waiting == [at : {"waiting"}, cfg : Configs, ci : BOOLEAN, clear : BOOLEAN, began : Nat]
Before  == [at : {"clearing", "opening"}, cfg : Configs, ci : BOOLEAN, began : Nat]
Opened  == [at : {"opened"}, cfg : Configs, ci : BOOLEAN, began : Nat, inode : -1 .. MaxClears]
Listed  == [at : {"listed"}, cfg : Configs, ci : BOOLEAN, inode : -1 .. MaxClears, info : Info,
            cached : {None} \cup Entry, old : BOOLEAN, sound : BOOLEAN]
Working == [at : {"formatting"}, cfg : Configs, ci : BOOLEAN, inode : -1 .. MaxClears,
            info : Info, old : BOOLEAN, k : 0 .. Chain, failed : BOOLEAN, wrote : BOOLEAN,
            sure : BOOLEAN]
Posted  == [at : {"posted"}, cfg : Configs, ci : BOOLEAN, inode : -1 .. MaxClears, info : Info,
            old : BOOLEAN, changed : BOOLEAN, formatted : {None} \cup Info, failed : BOOLEAN,
            wrote : BOOLEAN, sure : BOOLEAN]

Runs == {Off} \cup Waiting \cup Before \cup Opened \cup Listed \cup Working \cup Posted

HasIt(r) == r.at \in {"opened", "listed", "formatting", "posted"}

RunOK(r) ==
  /\ r \in Runs
  /\ HasIt(r) => (r.ci <=> r.inode = -1)
  /\ r.at = "posted" => (r.changed <=> r.formatted # None)

TypeInv ==
  /\ now \in 1 .. MaxTime
  /\ file \in File
  /\ cfg \in Configs
  /\ inode \in 0 .. MaxClears
  /\ DOMAIN db = 0 .. MaxClears /\ \A i \in 0 .. MaxClears : db[i] \in {None} \cup Entry
  /\ DOMAIN run = Procs /\ \A p \in Procs : RunOK(run[p])
  /\ events \in 0 .. MaxEvents /\ settled \in Configs \cup {None}
  /\ unsure \subseteq 0 .. MaxClears

\* The stage tells the fields.
LEMMA StageFields ==
  ASSUME NEW r, r \in Runs
  PROVE  /\ r.at \in Stages
         /\ r.at = "off" => r = Off
         /\ r.at = "waiting" => r \in Waiting
         /\ r.at \in {"clearing", "opening"} => r \in Before
         /\ r.at = "opened" => r \in Opened
         /\ r.at = "listed" => r \in Listed
         /\ r.at = "formatting" => r \in Working
         /\ r.at = "posted" => r \in Posted
  BY DEF Runs, Off, Waiting, Before, Opened, Listed, Working, Posted, Stages

\* Entries and infos are never None.
LEMMA NotNone ==
  /\ TypeInv => \A e \in Entry : e # None
  /\ TypeInv => \A i \in Info : i # None
<1>1. TypeInv => 0 .. now \subseteq Nat
  BY DEF TypeInv
<1>2. TypeInv => Info \subseteq [mtime : Nat, size : Sizes]
  BY <1>1 DEF Info
<1>3. TypeInv => Entry \subseteq [formatters : {SigOf[c] : c \in Configs}, mtime : Nat, size : Sizes]
  BY <1>1 DEF Entry
<1> QED
  BY <1>2, <1>3, NoneAssumption

LEMMA InfoType ==
  ASSUME TypeInv
  PROVE  InfoOf(file) \in Info
  BY DEF TypeInv, File, Info, InfoOf

LEMMA SignatureType ==
  ASSUME NEW c \in Configs, NEW i \in Info
  PROVE  Signature(c, i) \in Entry
  BY DEF Signature, Info, Entry

\* The info a posted run computes its signature from.
LEMMA RecordedType ==
  ASSUME TypeInv, NEW p \in Procs, run[p].at = "posted"
  PROVE  Recorded(run[p]) \in Info /\ run[p].cfg \in Configs /\ NewSignature(run[p]) \in Entry
<1>1. run[p] \in Posted
  BY StageFields DEF TypeInv, RunOK
<1>2. run[p].cfg \in Configs /\ run[p].info \in Info /\ run[p].formatted \in {None} \cup Info
  BY <1>1 DEF Posted
<1>3. Recorded(run[p]) \in Info
  BY <1>2 DEF Recorded
<1> QED
  BY <1>2, <1>3, SignatureType DEF NewSignature

\* Being told of a write changes only what a run is sure of.
LEMMA ToldFields ==
  ASSUME NEW r, RunOK(r), NEW f
  PROVE  LET t == Told(r, f) IN
         /\ RunOK(t) /\ t.at = r.at
         /\ r.at \notin {"formatting", "posted"} => t = r
         /\ r.at \in {"formatting", "posted"} =>
              /\ t.cfg = r.cfg /\ t.ci = r.ci /\ t.inode = r.inode /\ t.info = r.info
              /\ t.old = r.old /\ t.failed = r.failed /\ t.wrote = r.wrote
              /\ t.sure => r.sure /\ ~Overtaken(r, f)
         /\ r.at = "formatting" => t.k = r.k
         /\ r.at = "posted" => t.changed = r.changed /\ t.formatted = r.formatted
<1> DEFINE n == [r EXCEPT !.sure = FALSE]
<1>1. CASE ~Overtaken(r, f)
  BY <1>1 DEF Told
<1>2. CASE Overtaken(r, f) /\ r.at = "formatting"
  <2>1. r \in Working
    BY <1>2, StageFields DEF RunOK
  <2>2. /\ n \in Working /\ n.at = r.at /\ n.cfg = r.cfg /\ n.ci = r.ci /\ n.inode = r.inode
        /\ n.info = r.info /\ n.old = r.old /\ n.failed = r.failed /\ n.wrote = r.wrote
        /\ n.k = r.k /\ ~n.sure
    BY <2>1 DEF Working
  <2>3. Told(r, f) = n
    BY <1>2 DEF Told
  <2> HIDE DEF n
  <2>4. RunOK(n)
    BY <1>2, <2>2 DEF RunOK, Runs, HasIt
  <2> QED
    BY <1>2, <2>2, <2>3, <2>4
<1>3. CASE Overtaken(r, f) /\ r.at = "posted"
  <2>1. r \in Posted
    BY <1>3, StageFields DEF RunOK
  <2>2. /\ n \in Posted /\ n.at = r.at /\ n.cfg = r.cfg /\ n.ci = r.ci /\ n.inode = r.inode
        /\ n.info = r.info /\ n.old = r.old /\ n.failed = r.failed /\ n.wrote = r.wrote
        /\ n.changed = r.changed /\ n.formatted = r.formatted /\ ~n.sure
    BY <2>1 DEF Posted
  <2>3. Told(r, f) = n
    BY <1>3 DEF Told
  <2> HIDE DEF n
  <2>4. RunOK(n)
    BY <1>3, <2>2 DEF RunOK, Runs, HasIt
  <2> QED
    BY <1>3, <2>2, <2>3, <2>4
<1> QED
  BY <1>1, <1>2, <1>3 DEF Overtaken

LEMMA RunsKept ==
  ASSUME TypeInv, UNCHANGED <<now, run>>
  PROVE  DOMAIN run' = Procs /\ \A q \in Procs : RunOK(run[q])'
  BY DEF TypeInv, RunOK, Runs, Waiting, Before, Opened, Listed, Working, Posted, Info, Entry

LEMMA RunsReplaced ==
  ASSUME TypeInv, UNCHANGED now, DOMAIN run' = Procs, \A q \in Procs : RunOK(run'[q])
  PROVE  DOMAIN run' = Procs /\ \A q \in Procs : RunOK(run[q])'
  BY DEF RunOK, Runs, Waiting, Before, Opened, Listed, Working, Posted, Info, Entry

LEMMA RunReplaced ==
  ASSUME TypeInv, UNCHANGED now, NEW p \in Procs, NEW r, RunOK(r),
         run' = [run EXCEPT ![p] = r]
  PROVE  DOMAIN run' = Procs /\ \A q \in Procs : RunOK(run[q])'
<1>1. DOMAIN run' = Procs /\ \A q \in Procs : run'[q] = IF q = p THEN r ELSE run[q]
  BY DEF TypeInv
<1>2. \A q \in Procs : RunOK(run'[q])
  BY <1>1 DEF TypeInv
<1> QED
  BY <1>1, <1>2, RunsReplaced

\* A step that replaces one run and leaves the rest alone keeps the types.
LEMMA TypeReplaced ==
  ASSUME TypeInv, UNCHANGED <<now, file, cfg, db, settled, unsure>>, inode' \in 0 .. MaxClears,
         events' \in 0 .. MaxEvents,
         NEW p \in Procs, NEW r, RunOK(r), run' = [run EXCEPT ![p] = r]
  PROVE  TypeInv'
<1>1. DOMAIN run' = Procs /\ \A q \in Procs : RunOK(run[q])'
  BY RunReplaced
<1> QED
  BY <1>1 DEF TypeInv, File, Entry

LEMMA OffOK == RunOK(Off)
  BY DEF RunOK, Runs, Off, HasIt

LEMMA TypeInit == Init => TypeInv
<1> SUFFICES ASSUME Init PROVE TypeInv
  OBVIOUS
<1>1. file \in File
  BY DEF Init, File
<1>2. \A p \in Procs : RunOK(run[p])
  BY OffOK DEF Init
<1> QED
  BY <1>1, <1>2, CacheAssumption DEF Init, TypeInv

\* A formatting run after one more formatter.
LEMMA FormatStep ==
  ASSUME TypeInv, NEW p \in Procs, Format(p)
  PROVE  LET r == run[p] n == run'[p] IN
         /\ r \in Working /\ RunOK(r) /\ r.k \in 0 .. Chain - 1 /\ r.at = "formatting"
         /\ n \in Working /\ RunOK(n) /\ n.at = "formatting" /\ n.k = r.k + 1 /\ n.cfg = r.cfg
         /\ n.ci = r.ci /\ n.inode = r.inode /\ n.info = r.info /\ n.old = r.old
         /\ n.sure = r.sure
         /\ \E ok \in BOOLEAN, write \in BOOLEAN, s \in Sizes :
              /\ write => r.cfg \notin Full(file)
              /\ ~write => s = file.size
              /\ file' = Formatted(file, r.cfg, r.k, ok, write, s)
              /\ n.failed = (r.failed \/ ~ok) /\ n.wrote = (r.wrote \/ (write /\ r.old))
              /\ \A q \in Procs : q # p => run'[q] = IF write THEN Told(run[q], file') ELSE run[q]
              /\ settled' = IF write THEN None ELSE settled
              /\ unsure' = IF write THEN unsure \cup Fitting(file') ELSE unsure
         /\ DOMAIN run' = Procs /\ UNCHANGED <<now, cfg, inode, db, events>>
<1> DEFINE r == run[p]
<1>1. r \in Working /\ RunOK(r) /\ r.k < Chain /\ r.at = "formatting"
  BY StageFields DEF Format, TypeInv, RunOK, MoreToApply
<1>2. PICK ok \in BOOLEAN, write \in BOOLEAN, s \in Sizes :
        /\ write => r.cfg \notin Full(file)
        /\ ~write => s = file.size
        /\ file' = Formatted(file, r.cfg, r.k, ok, write, s)
        /\ run' = [q \in Procs |->
                    IF q = p THEN [r EXCEPT !.k = @ + 1, !.failed = @ \/ ~ok,
                                            !.wrote = @ \/ (write /\ r.old)]
                    ELSE IF write THEN Told(run[q], file') ELSE run[q]]
        /\ settled' = IF write THEN None ELSE settled
        /\ unsure' = IF write THEN unsure \cup Fitting(file') ELSE unsure
  BY DEF Format
<1> DEFINE n == [r EXCEPT !.k = @ + 1, !.failed = @ \/ ~ok, !.wrote = @ \/ (write /\ r.old)]
<1>3. r.k \in 0 .. Chain - 1 /\ r.k + 1 \in 0 .. Chain
  BY <1>1, CacheAssumption DEF Working
<1>4. run'[p] = n /\ DOMAIN run' = Procs
      /\ \A q \in Procs : q # p => run'[q] = IF write THEN Told(run[q], file') ELSE run[q]
  BY <1>2
<1>5. (r.failed \/ ~ok) \in BOOLEAN /\ (r.wrote \/ (write /\ r.old)) \in BOOLEAN
  OBVIOUS
<1>6. /\ n \in Working /\ n.at = "formatting" /\ n.k = r.k + 1 /\ n.cfg = r.cfg /\ n.ci = r.ci
      /\ n.inode = r.inode /\ n.info = r.info /\ n.old = r.old /\ n.sure = r.sure
      /\ n.failed = (r.failed \/ ~ok) /\ n.wrote = (r.wrote \/ (write /\ r.old))
  <2> HIDE DEF r
  <2> QED
    BY <1>1, <1>3, <1>5 DEF Working
<1> HIDE DEF n
<1>7. RunOK(n)
  BY <1>1, <1>6 DEF RunOK, HasIt, Runs
<1>8. UNCHANGED <<now, cfg, inode, db, events>>
  BY DEF Format
<1> QED
  BY <1>1, <1>2, <1>3, <1>4, <1>6, <1>7, <1>8

LEMMA TypeFormat ==
  ASSUME TypeInv, NEW p \in Procs, Format(p)
  PROVE  TypeInv'
<1> DEFINE r == run[p]
<1>1. /\ r \in Working /\ r.k \in 0 .. Chain - 1 /\ r.cfg \in Configs /\ RunOK(run'[p])
      /\ DOMAIN run' = Procs /\ UNCHANGED <<now, cfg, inode, db, events>>
  BY FormatStep DEF Working
<1>2. PICK ok \in BOOLEAN, write \in BOOLEAN, s \in Sizes :
        /\ file' = Formatted(file, r.cfg, r.k, ok, write, s)
        /\ \A q \in Procs : q # p => run'[q] = IF write THEN Told(run[q], file') ELSE run[q]
        /\ settled' \in {None, settled}
        /\ unsure' \in {unsure, unsure \cup Fitting(file')}
  BY FormatStep
<1>3. file' \in File
  <2>1. /\ file.mtime \in 0 .. now /\ file.size \in Sizes /\ now \in 0 .. now
        /\ file.done \subseteq Configs \X (1 .. Chain)
    BY DEF TypeInv, File
  <2>2. <<r.cfg, r.k + 1>> \in Configs \X (1 .. Chain)
    BY <1>1, CacheAssumption
  <2> HIDE DEF r
  <2> DEFINE m == IF write THEN now ELSE file.mtime
             z == IF write THEN s ELSE file.size
             d == IF ok /\ (r.k = 0 \/ <<r.cfg, r.k>> \in file.done)
                  THEN (IF write THEN {} ELSE file.done) \cup {<<r.cfg, r.k + 1>>}
                  ELSE (IF write THEN {} ELSE file.done)
  <2>3. file' = [mtime |-> m, size |-> z, done |-> d]
    BY <1>2 DEF Formatted
  <2>4. m \in 0 .. now /\ z \in Sizes /\ d \in SUBSET (Configs \X (1 .. Chain))
    BY <2>1, <2>2
  <2> HIDE DEF m, z, d
  <2> QED
    BY <2>3, <2>4 DEF File
<1>4. \A q \in Procs : RunOK(run'[q])
  BY <1>1, <1>2, ToldFields DEF TypeInv
<1>5. DOMAIN run' = Procs /\ \A q \in Procs : RunOK(run[q])'
  BY <1>1, <1>4, RunsReplaced
<1>6. unsure' \subseteq 0 .. MaxClears
  BY <1>2 DEF TypeInv, Fitting
<1> QED
  BY <1>1, <1>2, <1>3, <1>5, <1>6 DEF TypeInv, Entry, File

LEMMA TypeRecord ==
  ASSUME TypeInv, NEW p \in Procs, Record(p)
  PROVE  TypeInv'
<1>1. run[p] \in Posted /\ RunOK(run[p])
  BY StageFields DEF Record, TypeInv, RunOK
<1>2. /\ run' = [run EXCEPT ![p] = Off] /\ UNCHANGED <<now, file, cfg, inode, events>>
      /\ settled' \in {settled, run[p].cfg, None}
      /\ \/ db' = db /\ unsure' = unsure
         \/ /\ db' = [db EXCEPT ![run[p].inode] = NewSignature(run[p])]
            /\ ~run[p].ci
            /\ unsure' \in {unsure \ {run[p].inode}, unsure \cup {run[p].inode}}
  BY DEF Record, MayRecord
<1>3. DOMAIN run' = Procs /\ \A q \in Procs : RunOK(run[q])'
  BY <1>2, OffOK, RunReplaced
<1>4. DOMAIN db' = 0 .. MaxClears /\ \A i \in 0 .. MaxClears : db'[i] \in {None} \cup Entry
  <2>1. NewSignature(run[p]) \in Entry
    BY RecordedType DEF Record
  <2> QED
    BY <1>2, <2>1 DEF TypeInv
<1>5. settled' \in Configs \cup {None}
  BY <1>1, <1>2 DEF TypeInv, Posted
<1>6. unsure' \subseteq 0 .. MaxClears
  <2>1. ~run[p].ci => run[p].inode \in 0 .. MaxClears
    BY <1>1, CacheAssumption DEF Record, RunOK, HasIt, Posted
  <2> QED
    BY <1>2, <2>1 DEF TypeInv
<1> QED
  BY <1>2, <1>3, <1>4, <1>5, <1>6 DEF TypeInv, Entry, File

LEMMA TypeRunStep ==
  ASSUME TypeInv, NEW p \in Procs, RunStep(p) \/ Crash(p)
  PROVE  TypeInv'
<1> DEFINE r == run[p]
<1>0. /\ RunOK(r) /\ inode \in 0 .. MaxClears /\ cfg \in Configs /\ now \in Nat
      /\ events \in 0 .. MaxEvents /\ MaxEvents \in Nat
  BY CacheAssumption DEF TypeInv
<1>1. CASE Start(p)
  <2>1. PICK f \in Flags :
          run' = [run EXCEPT ![p] = [at |-> "waiting", cfg |-> cfg, ci |-> f.ci,
                                     clear |-> f.clear, began |-> IF f.ci THEN now ELSE 0]]
    BY <1>1 DEF Start
  <2> DEFINE n == [at |-> "waiting", cfg |-> cfg, ci |-> f.ci, clear |-> f.clear,
                   began |-> IF f.ci THEN now ELSE 0]
  <2>2. f.ci \in BOOLEAN /\ f.clear \in BOOLEAN
    BY CacheAssumption
  <2>3. n \in Waiting
    BY <1>0, <2>2 DEF Waiting
  <2>4. RunOK(n)
    BY <2>3 DEF RunOK, HasIt, Runs
  <2> HIDE DEF n
  <2>5. events' \in 0 .. MaxEvents
    BY <1>0, <1>1 DEF Start
  <2> QED
    BY <1>0, <1>1, <2>1, <2>4, <2>5, TypeReplaced DEF Start, n
<1>2. CASE Wake(p)
  <2> DEFINE n == [at |-> IF r.clear THEN "clearing" ELSE "opening", cfg |-> r.cfg, ci |-> r.ci,
                   began |-> r.began]
  <2>1. r \in Waiting
    BY <1>0, <1>2, StageFields DEF Wake, RunOK
  <2>2. n \in Before
    BY <2>1 DEF Waiting, Before
  <2>3. RunOK(n)
    BY <2>2 DEF RunOK, HasIt, Runs
  <2> QED
    BY <1>0, <1>2, <2>3, TypeReplaced DEF Wake, history
<1>3. CASE RemoveCache(p)
  <2> DEFINE n == [r EXCEPT !.at = "opening"]
  <2>1. r \in Before
    BY <1>0, <1>3, StageFields DEF RemoveCache, RunOK
  <2>2. n \in Before /\ n.at = "opening"
    BY <2>1 DEF Before
  <2>3. RunOK(n)
    BY <2>2 DEF RunOK, HasIt, Runs
  <2>4. run' = [run EXCEPT ![p] = n]
    BY <1>3 DEF RemoveCache, TypeInv
  <2> HIDE DEF n
  <2>5. DOMAIN run' = Procs /\ \A q \in Procs : RunOK(run[q])'
    BY <1>3, <2>3, <2>4, RunReplaced DEF RemoveCache
  <2>6. inode' \in 0 .. MaxClears
    BY <1>0, <1>3, CacheAssumption DEF RemoveCache
  <2> QED
    BY <1>3, <2>5, <2>6 DEF RemoveCache, TypeInv, Entry, File
<1>4. CASE Open(p)
  <2> DEFINE n == [at |-> "opened", cfg |-> r.cfg, ci |-> r.ci, began |-> r.began,
                   inode |-> IF r.ci THEN -1 ELSE inode]
  <2>1. r \in Before
    BY <1>0, <1>4, StageFields DEF Open, RunOK
  <2>2. n \in Opened
    BY <1>0, <2>1, CacheAssumption DEF Before, Opened
  <2>3. RunOK(n)
    BY <1>0, <2>2, CacheAssumption DEF RunOK, HasIt, Runs
  <2> QED
    BY <1>0, <1>4, <2>3, TypeReplaced DEF Open, history
<1>5. CASE OpenTimeout(p) \/ Skip(p) \/ Crash(p)
  BY <1>0, <1>5, OffOK, TypeReplaced DEF OpenTimeout, Skip, Crash, history
<1>6. CASE List(p)
  <2> DEFINE old == r.ci /\ file.mtime <= r.began
             sound == r.cfg \in Full(file) \/ r.inode \in unsure
  <2>1. PICK entry \in {None} \cup (IF r.ci THEN {} ELSE {db[r.inode]}) :
          run' = [run EXCEPT ![p] = [at |-> "listed", cfg |-> r.cfg, ci |-> r.ci,
                                     inode |-> r.inode, info |-> InfoOf(file),
                                     cached |-> entry, old |-> old, sound |-> sound]]
    BY <1>6 DEF List
  <2>2. r \in Opened /\ (r.ci <=> r.inode = -1)
    BY <1>0, <1>6, StageFields DEF List, RunOK, HasIt
  <2>3. entry \in {None} \cup Entry
    <3>1. CASE ~r.ci
      <4>1. r.inode \in 0 .. MaxClears
        BY <2>2, <3>1, CacheAssumption DEF Opened
      <4> QED
        BY <4>1 DEF TypeInv
    <3> QED
      BY <3>1
  <2>4. old \in BOOLEAN /\ sound \in BOOLEAN
    BY <2>2 DEF Opened
  <2> HIDE DEF old, sound
  <2> DEFINE n == [at |-> "listed", cfg |-> r.cfg, ci |-> r.ci, inode |-> r.inode,
                   info |-> InfoOf(file), cached |-> entry, old |-> old, sound |-> sound]
  <2>5. n \in Listed
    BY <2>2, <2>3, <2>4, InfoType DEF Opened, Listed
  <2>6. RunOK(n)
    BY <2>2, <2>5 DEF RunOK, HasIt, Runs
  <2> HIDE DEF n
  <2> QED
    BY <1>0, <1>6, <2>1, <2>6, TypeReplaced DEF List, n, history
<1>7. CASE Accept(p)
  <2> DEFINE n == [at |-> "formatting", cfg |-> r.cfg, ci |-> r.ci, inode |-> r.inode,
                   info |-> r.info, old |-> r.old, k |-> 0, failed |-> FALSE,
                   wrote |-> FALSE, sure |-> TRUE]
  <2>1. r \in Listed /\ (r.ci <=> r.inode = -1)
    BY <1>0, <1>7, StageFields DEF Accept, RunOK, HasIt
  <2>2. n \in Working
    BY <2>1, CacheAssumption DEF Listed, Working
  <2>3. RunOK(n)
    BY <2>1, <2>2 DEF RunOK, HasIt, Runs
  <2> QED
    BY <1>0, <1>7, <2>3, TypeReplaced DEF Accept, history
<1>8. CASE Stat(p)
  <2> DEFINE changed == Differs(r.info, file)
             n == [at |-> "posted", cfg |-> r.cfg, ci |-> r.ci, inode |-> r.inode,
                   info |-> r.info, old |-> r.old, changed |-> changed,
                   formatted |-> IF changed THEN InfoOf(file) ELSE None,
                   failed |-> r.failed, wrote |-> r.wrote, sure |-> r.sure]
  <2>1. r \in Working /\ (r.ci <=> r.inode = -1)
    BY <1>0, <1>8, StageFields DEF Stat, RunOK, HasIt
  <2>2. changed \in BOOLEAN
    BY DEF Differs
  <2>3. InfoOf(file) \in Info /\ InfoOf(file) # None
    BY InfoType, NotNone
  <2>4. run' = [run EXCEPT ![p] = n]
    BY <1>8 DEF Stat
  <2> HIDE DEF changed
  <2>5. n \in Posted
    BY <2>1, <2>2, <2>3 DEF Working, Posted
  <2>6. RunOK(n)
    BY <2>1, <2>2, <2>3, <2>5 DEF RunOK, HasIt, Runs
  <2> HIDE DEF n
  <2> QED
    BY <1>0, <1>8, <2>4, <2>6, TypeReplaced DEF Stat, history
<1>9. CASE Format(p)
  BY <1>9, TypeFormat
<1>10. CASE Record(p)
  BY <1>10, TypeRecord
<1> QED
  BY <1>1, <1>2, <1>3, <1>4, <1>5, <1>6, <1>7, <1>8, <1>9, <1>10 DEF RunStep

LEMMA TypeNext == TypeInv /\ [Next]_vars => TypeInv'
<1> SUFFICES ASSUME TypeInv, [Next]_vars PROVE TypeInv'
  OBVIOUS
<1>0. events < MaxEvents => events + 1 \in 0 .. MaxEvents
  BY CacheAssumption DEF TypeInv
<1>1. CASE Edit
  <2>1. PICK s \in Sizes : file' = [mtime |-> now, size |-> s, done |-> {}]
    BY <1>1 DEF Edit
  <2>2. file' \in File'
    BY <1>1, <2>1 DEF Edit, File, TypeInv
  <2>3. DOMAIN run' = Procs /\ \A q \in Procs : RunOK(run'[q])
    BY <1>1, ToldFields DEF Edit, TypeInv
  <2>4. DOMAIN run' = Procs /\ \A q \in Procs : RunOK(run[q])'
    BY <1>1, <2>3, RunsReplaced DEF Edit
  <2>5. unsure' \subseteq 0 .. MaxClears
    BY <1>1 DEF Edit, TypeInv, Fitting
  <2> QED
    BY <1>0, <1>1, <2>2, <2>4, <2>5 DEF Edit, TypeInv, Entry
<1>2. CASE Reconfigure
  BY <1>0, <1>2, RunsKept DEF Reconfigure, TypeInv, Entry, File
<1>3. CASE Tick
  <2>1. now' \in 1 .. MaxTime /\ 0 .. now \subseteq 0 .. now'
    BY <1>3, CacheAssumption DEF Tick, TypeInv
  <2>2. Info \subseteq Info' /\ Entry \subseteq Entry'
    BY <2>1 DEF Info, Entry
  <2>3. \A q \in Procs : RunOK(run[q])'
    <3>1. Runs \subseteq Runs'
      BY <2>2 DEF Runs, Waiting, Before, Opened, Listed, Working, Posted
    <3> QED
      BY <1>3, <3>1 DEF Tick, TypeInv, RunOK
  <2>4. file' \in File'
    BY <1>3, <2>1 DEF Tick, TypeInv, File
  <2> QED
    BY <1>3, <2>1, <2>2, <2>3, <2>4 DEF Tick, TypeInv, history
<1>4. ASSUME NEW p \in Procs, RunStep(p) \/ Crash(p) PROVE TypeInv'
  BY <1>4, TypeRunStep
<1>5. CASE UNCHANGED vars
  BY <1>5, RunsKept DEF vars, history, TypeInv, Entry, File
<1> QED
  BY <1>1, <1>2, <1>3, <1>4, <1>5 DEF Next

LEMMA TypeAlways == Spec => []TypeInv
  BY TypeInit, TypeNext, PTL DEF Spec

\* Every variable keeps its type, and a run never goes beyond its last formatter.
THEOREM TypeCorrect == Spec => []TypeOK
<1>1. TypeInv => TypeOK
  <2> SUFFICES ASSUME TypeInv PROVE TypeOK
    OBVIOUS
  <2>1. \A p \in Procs : run[p].at \in Stages /\ (run[p].at = "formatting" => run[p].k \in 0 .. Chain)
    BY StageFields DEF TypeInv, RunOK, Working
  <2> QED
    BY <2>1 DEF TypeInv, TypeOK, File, Entry
<1> QED
  BY <1>1, TypeAlways, PTL

-----------------------------------------------------------------------------
(* Nothing to do twice.                                                    *)

\* Two infos that do not differ are the same.
LEMMA SameInfo ==
  ASSUME TypeInv, NEW i \in Info, ~Differs(file, i)
  PROVE  i = InfoOf(file)
  BY DEF Differs, Info, InfoOf

LEMMA RunTwiceNext == TypeInv /\ RunTwiceSkips /\ [Next]_vars => RunTwiceSkips'
<1> SUFFICES ASSUME TypeInv, RunTwiceSkips, [Next]_vars PROVE RunTwiceSkips'
  OBVIOUS
<1> USE DEF RunTwiceSkips
<1>1. CASE Edit
  BY <1>1 DEF Edit
<1>2. CASE Reconfigure \/ Tick
  BY <1>2 DEF Reconfigure, Tick, history
<1>3. ASSUME NEW p \in Procs, Record(p) PROVE RunTwiceSkips'
  <2> DEFINE r == run[p]
  <2>1. CASE settled' = settled /\ db' = db
    BY <2>1, <1>3 DEF Record
  <2>2. CASE MayRecord(r)
    <3>1. /\ db' = [db EXCEPT ![r.inode] = NewSignature(r)]
          /\ settled' = IF ~Differs(file, Recorded(r)) /\ r.inode = inode THEN r.cfg ELSE None
          /\ UNCHANGED <<file, inode>>
      BY <1>3, <2>2 DEF Record
    <3>2. CASE ~Differs(file, Recorded(r)) /\ r.inode = inode
      <4>1. Recorded(r) = InfoOf(file) /\ NewSignature(r) = Signature(r.cfg, InfoOf(file))
        BY <1>3, <3>2, SameInfo, RecordedType DEF Record, NewSignature
      <4>2. inode \in DOMAIN db
        BY DEF TypeInv
      <4> QED
        BY <3>1, <3>2, <4>1, <4>2 DEF InfoOf
    <3>3. CASE ~(~Differs(file, Recorded(r)) /\ r.inode = inode)
      BY <3>1, <3>3
    <3> QED
      BY <3>2, <3>3
  <2> QED
    BY <1>3, <2>1, <2>2 DEF Record
<1>4. ASSUME NEW p \in Procs, Format(p) PROVE RunTwiceSkips'
  <2>1. PICK ok \in BOOLEAN, write \in BOOLEAN, s \in Sizes :
          /\ file' = Formatted(file, run[p].cfg, run[p].k, ok, write, s)
          /\ settled' = IF write THEN None ELSE settled
          /\ ~write => s = file.size
    BY <1>4 DEF Format
  <2>2. ~write => InfoOf(file') = InfoOf(file)
    BY <2>1 DEF Formatted, InfoOf
  <2> QED
    BY <1>4, <2>1, <2>2 DEF Format, InfoOf
<1>5. ASSUME NEW p \in Procs, RemoveCache(p) PROVE RunTwiceSkips'
  BY <1>5 DEF RemoveCache
<1>6. ASSUME NEW p \in Procs, Start(p) \/ Wake(p) \/ Open(p) \/ OpenTimeout(p) \/ List(p)
                               \/ Skip(p) \/ Accept(p) \/ Stat(p) \/ Crash(p)
      PROVE  RunTwiceSkips'
  BY <1>6 DEF Start, Wake, Open, OpenTimeout, List, Skip, Accept, Stat, Crash, history
<1>7. CASE UNCHANGED vars
  BY <1>7 DEF vars, history
<1> QED
  BY <1>1, <1>2, <1>3, <1>4, <1>5, <1>6, <1>7 DEF Next, RunStep

\* Once a run recorded the file and nothing touched file or database since, the
\* entry is the one the next run computes: it skips the file, whatever other
\* processes did meanwhile.
THEOREM RunTwiceCorrect == Spec => []RunTwiceSkips
<1>1. Init => RunTwiceSkips
  BY DEF Init, RunTwiceSkips
<1> QED
  BY <1>1, TypeAlways, RunTwiceNext, PTL DEF Spec

-----------------------------------------------------------------------------
(* What the steps of a run do to it.                                       *)

\* A step that replaces run p and leaves the others alone.
Others(p) == DOMAIN run' = Procs /\ \A q \in Procs : q # p => run'[q] = run[q]

LEMMA Ends ==
  ASSUME TypeInv, NEW p \in Procs, OpenTimeout(p) \/ Skip(p) \/ Record(p) \/ Crash(p)
  PROVE  Others(p) /\ run'[p] = Off /\ UNCHANGED <<now, file, cfg, inode>>
  BY DEF OpenTimeout, Skip, Record, Crash, TypeInv, Others

LEMMA Starts ==
  ASSUME TypeInv, NEW p \in Procs, Start(p)
  PROVE  /\ Others(p) /\ run'[p].at = "waiting" /\ (run'[p].ci => run'[p].began = now)
         /\ UNCHANGED <<now, file, inode, db, unsure>>
  BY DEF Start, TypeInv, Others

LEMMA Wakes ==
  ASSUME TypeInv, NEW p \in Procs, Wake(p)
  PROVE  /\ Others(p) /\ run'[p].at \in {"clearing", "opening"} /\ run'[p].ci = run[p].ci
         /\ run'[p].began = run[p].began /\ run[p].at = "waiting"
         /\ now >= StartAfter(run[p].began, run[p].ci)
         /\ UNCHANGED <<now, file, inode, db, unsure>>
  BY DEF Wake, TypeInv, Others, history

LEMMA Removes ==
  ASSUME TypeInv, NEW p \in Procs, RemoveCache(p)
  PROVE  /\ Others(p) /\ run'[p].at = "opening" /\ run'[p].ci = run[p].ci
         /\ run'[p].began = run[p].began /\ run[p].at = "clearing"
         /\ inode' = inode + 1 /\ UNCHANGED <<now, file, db, unsure>>
<1>1. run[p] \in Before
  BY StageFields DEF RemoveCache, TypeInv, RunOK
<1> QED
  BY <1>1 DEF RemoveCache, TypeInv, Others, Before

LEMMA Opens ==
  ASSUME TypeInv, NEW p \in Procs, Open(p)
  PROVE  /\ Others(p) /\ run'[p].at = "opened" /\ run'[p].ci = run[p].ci
         /\ run'[p].began = run[p].began /\ run[p].at = "opening"
         /\ run'[p].inode = (IF run[p].ci THEN -1 ELSE inode)
         /\ run[p].ci \/ ~Locked(p)
         /\ UNCHANGED <<now, file, inode, db, unsure>>
  BY DEF Open, TypeInv, Others, history

LEMMA Lists ==
  ASSUME TypeInv, NEW p \in Procs, List(p)
  PROVE  /\ Others(p) /\ run'[p].at = "listed" /\ run'[p].ci = run[p].ci /\ run[p].at = "opened"
         /\ run'[p].cfg = run[p].cfg /\ run'[p].inode = run[p].inode
         /\ run'[p].info = InfoOf(file)
         /\ run'[p].cached = None \/ (~run[p].ci /\ run'[p].cached = db[run[p].inode])
         /\ run'[p].old = (run[p].ci /\ file.mtime <= run[p].began)
         /\ run'[p].sound = (run[p].cfg \in Full(file) \/ run[p].inode \in unsure)
         /\ UNCHANGED <<now, file, inode, db, unsure>>
<1> DEFINE n(entry) == [at |-> "listed", cfg |-> run[p].cfg, ci |-> run[p].ci,
                        inode |-> run[p].inode, info |-> InfoOf(file), cached |-> entry,
                        old |-> run[p].ci /\ file.mtime <= run[p].began,
                        sound |-> \/ run[p].cfg \in Full(file)
                                  \/ run[p].inode \in unsure]
<1>1. PICK entry \in {None} \cup (IF run[p].ci THEN {} ELSE {db[run[p].inode]}) :
        run' = [run EXCEPT ![p] = n(entry)]
  BY DEF List
<1>2. /\ n(entry).at = "listed" /\ n(entry).ci = run[p].ci /\ n(entry).cfg = run[p].cfg
      /\ n(entry).inode = run[p].inode /\ n(entry).info = InfoOf(file)
      /\ n(entry).cached = entry
  OBVIOUS
<1>3. /\ n(entry).old = (run[p].ci /\ file.mtime <= run[p].began)
      /\ n(entry).sound = (run[p].cfg \in Full(file) \/ run[p].inode \in unsure)
  OBVIOUS
<1> HIDE DEF n
<1>4. /\ run[p].at = "opened" /\ UNCHANGED <<now, file, inode, db, unsure>>
  BY DEF List, history
<1>5. Others(p) /\ run'[p] = n(entry)
  BY <1>1 DEF TypeInv, Others
<1>6. entry = None \/ (~run[p].ci /\ entry = db[run[p].inode])
  BY <1>1
<1> QED
  BY <1>2, <1>3, <1>4, <1>5, <1>6

LEMMA Accepts ==
  ASSUME TypeInv, NEW p \in Procs, Accept(p)
  PROVE  /\ Others(p) /\ run'[p].at = "formatting" /\ run[p].at = "listed"
         /\ run'[p].ci = run[p].ci /\ run'[p].inode = run[p].inode
         /\ run'[p].info = run[p].info /\ run'[p].old = run[p].old
         /\ run'[p].k = 0 /\ ~run'[p].wrote
         /\ UNCHANGED <<now, file, inode, db, unsure>>
<1> DEFINE n == [at |-> "formatting", cfg |-> run[p].cfg, ci |-> run[p].ci,
                 inode |-> run[p].inode, info |-> run[p].info, old |-> run[p].old, k |-> 0,
                 failed |-> FALSE, wrote |-> FALSE, sure |-> TRUE]
<1>1. run' = [run EXCEPT ![p] = n]
  BY DEF Accept
<1>2. /\ n.at = "formatting" /\ n.ci = run[p].ci /\ n.inode = run[p].inode
      /\ n.info = run[p].info /\ n.old = run[p].old /\ n.k = 0 /\ ~n.wrote
  OBVIOUS
<1> HIDE DEF n
<1> QED
  BY <1>1, <1>2 DEF Accept, TypeInv, Others, history

LEMMA Stats ==
  ASSUME TypeInv, NEW p \in Procs, Stat(p)
  PROVE  /\ Others(p) /\ run'[p].at = "posted" /\ run[p].at = "formatting"
         /\ run[p] \in Working /\ run[p].k = Chain
         /\ run'[p].ci = run[p].ci /\ run'[p].inode = run[p].inode /\ run'[p].cfg = run[p].cfg
         /\ run'[p].wrote = run[p].wrote /\ run'[p].changed = Differs(run[p].info, file)
         /\ run'[p].failed = run[p].failed /\ run'[p].sure = run[p].sure
         /\ UNCHANGED <<now, file, inode, db, unsure>>
<1> DEFINE r == run[p]
           changed == Differs(r.info, file)
           n == [at |-> "posted", cfg |-> r.cfg, ci |-> r.ci, inode |-> r.inode,
                 info |-> r.info, old |-> r.old, changed |-> changed,
                 formatted |-> IF changed THEN InfoOf(file) ELSE None,
                 failed |-> r.failed, wrote |-> r.wrote, sure |-> r.sure]
<1>1. run' = [run EXCEPT ![p] = n]
  BY DEF Stat
<1>2. /\ n.at = "posted" /\ n.ci = r.ci /\ n.inode = r.inode /\ n.cfg = r.cfg
      /\ n.wrote = r.wrote /\ n.changed = changed /\ n.failed = r.failed /\ n.sure = r.sure
  OBVIOUS
<1>3. r \in Working /\ r.at = "formatting" /\ ~(r.k < Chain)
  BY StageFields DEF Stat, TypeInv, RunOK, MoreToApply
<1>4. r.k = Chain
  BY <1>3, CacheAssumption DEF Working
<1> HIDE DEF n
<1> QED
  BY <1>1, <1>2, <1>3, <1>4 DEF Stat, TypeInv, Others, history

\* A write of somebody else tells a run, and changes nothing else of it.
LEMMA Edits ==
  ASSUME TypeInv, Edit
  PROVE  /\ DOMAIN run' = Procs /\ \A q \in Procs : run'[q] = Told(run[q], file')
         /\ file'.mtime = now /\ file'.done = {}
         /\ unsure' = unsure \cup Fitting(file') /\ UNCHANGED <<now, inode, db>>
  BY DEF Edit, TypeInv

-----------------------------------------------------------------------------
(* The lock.                                                               *)

\* Runs with the cache have different databases open, none from the future.
LockInv ==
  /\ \A p \in Procs : HasIt(run[p]) => run[p].inode <= inode
  /\ \A p, q \in Procs :
       /\ HasIt(run[p]) /\ ~run[p].ci /\ HasIt(run[q]) /\ ~run[q].ci
       /\ run[p].inode = run[q].inode
       => p = q

\* A run that opens no database keeps the one it has, or ends.
LEMMA LockKept ==
  ASSUME LockInv, inode \in Int, inode' \in {inode, inode + 1},
         \A q \in Procs : HasIt(run[q]) => run[q].inode \in Int,
         \A q \in Procs : HasIt(run'[q]) =>
           HasIt(run[q]) /\ run'[q].inode = run[q].inode /\ run'[q].ci = run[q].ci
  PROVE  LockInv'
  BY DEF LockInv, HasIt

\* Who holds a database has a number for it.
LEMMA InodeType ==
  ASSUME TypeInv
  PROVE  inode \in Int /\ \A q \in Procs : HasIt(run[q]) => run[q].inode \in Int
<1>1. \A q \in Procs : HasIt(run[q]) => run[q] \in Opened \cup Listed \cup Working \cup Posted
  BY StageFields DEF TypeInv, RunOK, HasIt
<1>2. -1 .. MaxClears \subseteq Int
  OBVIOUS
<1> QED
  BY <1>1, <1>2 DEF TypeInv, Opened, Listed, Working, Posted

\* Open: nobody has the database open that is found.
LEMMA LockOpen ==
  ASSUME TypeInv, LockInv, NEW p \in Procs, Open(p)
  PROVE  LockInv'
<1>1. /\ Others(p) /\ run'[p].ci = run[p].ci /\ UNCHANGED inode
      /\ run'[p].inode = (IF run[p].ci THEN -1 ELSE inode)
      /\ run[p].ci \/ ~Locked(p)
  BY Opens
<1>2. inode \in Nat
  BY CacheAssumption DEF TypeInv
<1>3. \A q \in Procs : HasIt(run'[q]) => run'[q].inode <= inode
  BY <1>1, <1>2 DEF LockInv, Others
<1>4. ASSUME NEW q \in Procs, q # p, HasIt(run[q]), ~run[p].ci, run[q].inode = inode
      PROVE  FALSE
  BY <1>1, <1>4 DEF Locked, HasOpen, HasIt
<1>5. ASSUME NEW a \in Procs, NEW b \in Procs, HasIt(run'[a]), ~run'[a].ci,
             HasIt(run'[b]), ~run'[b].ci, run'[a].inode = run'[b].inode
      PROVE  a = b
  <2>1. CASE a # p /\ b # p
    BY <1>1, <1>5, <2>1 DEF LockInv, Others
  <2>2. CASE a = p /\ b # p
    BY <1>1, <1>4, <1>5, <2>2 DEF Others
  <2>3. CASE b = p /\ a # p
    BY <1>1, <1>4, <1>5, <2>3 DEF Others
  <2> QED
    BY <2>1, <2>2, <2>3
<1>6. \A q \in Procs : HasIt(run[q])' <=> HasIt(run'[q])
  BY DEF HasIt
<1> QED
  BY <1>1, <1>3, <1>5, <1>6 DEF LockInv

LEMMA LockNext == TypeInv /\ LockInv /\ [Next]_vars => LockInv'
<1> SUFFICES ASSUME TypeInv, LockInv, [Next]_vars PROVE LockInv'
  OBVIOUS
<1>0. inode \in Int /\ \A q \in Procs : HasIt(run[q]) => run[q].inode \in Int
  BY InodeType
<1>1. CASE Reconfigure \/ Tick \/ UNCHANGED vars
  BY <1>1 DEF Reconfigure, Tick, vars, history, LockInv, HasIt
<1>2. ASSUME NEW p \in Procs, Open(p) PROVE LockInv'
  BY <1>2, LockOpen
<1>3. CASE Edit
  <2>1. \A q \in Procs : HasIt(run'[q]) =>
          HasIt(run[q]) /\ run'[q].inode = run[q].inode /\ run'[q].ci = run[q].ci
    BY <1>3, Edits, ToldFields DEF TypeInv, HasIt
  <2> QED
    BY <1>0, <1>3, <2>1, Edits, LockKept
<1>4. ASSUME NEW p \in Procs, Format(p) PROVE LockInv'
  <2>1. /\ run'[p].ci = run[p].ci /\ run'[p].inode = run[p].inode /\ HasIt(run[p])
        /\ UNCHANGED inode
        /\ \A q \in Procs : q # p => run'[q] = run[q] \/ run'[q] = Told(run[q], file')
    BY <1>4, FormatStep DEF HasIt
  <2>2. \A q \in Procs : HasIt(run'[q]) =>
          HasIt(run[q]) /\ run'[q].inode = run[q].inode /\ run'[q].ci = run[q].ci
    BY <2>1, ToldFields DEF TypeInv, HasIt
  <2> QED
    BY <1>0, <2>1, <2>2, LockKept
<1>5. ASSUME NEW p \in Procs, \/ Start(p) \/ Wake(p) \/ RemoveCache(p) \/ List(p) \/ Accept(p)
                              \/ Stat(p) \/ OpenTimeout(p) \/ Skip(p) \/ Record(p) \/ Crash(p)
      PROVE  LockInv'
  <2>1. Others(p) /\ inode' \in {inode, inode + 1}
    BY <1>5, Starts, Wakes, Removes, Lists, Accepts, Stats, Ends
  <2>2. HasIt(run'[p]) => HasIt(run[p]) /\ run'[p].inode = run[p].inode /\ run'[p].ci = run[p].ci
    BY <1>5, Starts, Wakes, Removes, Lists, Accepts, Stats, Ends DEF HasIt, Off
  <2>3. \A q \in Procs : HasIt(run'[q]) =>
          HasIt(run[q]) /\ run'[q].inode = run[q].inode /\ run'[q].ci = run[q].ci
    BY <2>1, <2>2 DEF Others
  <2> QED
    BY <1>0, <2>1, <2>3, LockKept
<1> QED
  BY <1>1, <1>2, <1>3, <1>4, <1>5 DEF Next, RunStep

\* Two processes format at once only if one has no cache, or the cache was removed
\* under one of them; everybody else waits for the lock of the database (cache.go:46).
THEOREM OneAtWorkCorrect == Spec => []OneAtWork
<1>1. Init => LockInv
  BY DEF Init, LockInv, HasIt, Off
<1>2. TypeInv /\ LockInv => OneAtWork
  <2> SUFFICES ASSUME TypeInv, LockInv, NEW p \in Procs, NEW q \in Procs, p # q,
                      run[p].at = "formatting", run[q].at = "formatting",
                      ~run[p].ci, ~run[q].ci
               PROVE  run[p].inode < inode \/ run[q].inode < inode
    BY DEF OneAtWork
  <2>1. HasIt(run[p]) /\ HasIt(run[q])
    BY DEF HasIt
  <2>2. /\ run[p].inode \in Int /\ run[q].inode \in Int /\ inode \in Int
        /\ run[p].inode <= inode /\ run[q].inode <= inode
    BY <2>1, InodeType DEF LockInv
  <2>3. run[p].inode # run[q].inode
    BY <2>1 DEF LockInv
  <2> QED
    BY <2>2, <2>3
<1> QED
  BY <1>1, <1>2, LockNext, TypeAlways, PTL DEF Spec

-----------------------------------------------------------------------------
(* Changes in CI mode.                                                     *)

\* A CI run begins in a second after the one it was started in, so the first write
\* of a formatter moves the mtime away from one that is no later than that.
CiOK(r) ==
  r.at # "off" /\ r.ci =>
    /\ r.at = "waiting" => r.began <= now
    /\ r.at \in {"clearing", "opening", "opened"} => r.began < now
    /\ r.at = "listed" => (r.old => r.info.mtime < now)
    /\ r.at = "formatting" =>
         /\ r.old => r.info.mtime < now
         /\ r.wrote => r.old /\ r.info.mtime < file.mtime
    /\ r.at = "posted" => (r.wrote => r.changed)

CiInv == \A p \in Procs : CiOK(run[p])

\* The times a run knows are numbers.
LEMMA TimeTypes ==
  ASSUME TypeInv, NEW p \in Procs
  PROVE  /\ now \in Nat /\ file.mtime \in Nat /\ file.mtime <= now
         /\ run[p].at \in {"waiting", "clearing", "opening", "opened"} => run[p].began \in Nat
         /\ run[p].at \in {"listed", "formatting"} => run[p].info.mtime \in Nat
<1>1. /\ now \in Nat /\ file.mtime \in Nat /\ file.mtime <= now
  BY DEF TypeInv, File
<1>2. run[p].at \in {"waiting", "clearing", "opening", "opened"} => run[p].began \in Nat
  BY StageFields DEF TypeInv, RunOK, Waiting, Before, Opened
<1>3. run[p].at \in {"listed", "formatting"} => run[p].info \in Info
  BY StageFields DEF TypeInv, RunOK, Listed, Working
<1>4. \A i \in Info : i.mtime \in Nat
  BY <1>1 DEF Info
<1> QED
  BY <1>1, <1>2, <1>3, <1>4

\* Time passes, the file is written to, a run is told of it.
LEMMA CiKept ==
  ASSUME TypeInv, NEW p \in Procs, CiOK(run[p]), now' \in Nat, now <= now', file'.mtime \in Nat,
         file.mtime <= file'.mtime,
         \/ run'[p] = run[p]
         \/ \E f : run'[p] = Told(run[p], f)
  PROVE  CiOK(run[p])'
<1>1. RunOK(run[p])
  BY DEF TypeInv
<1>2. /\ run'[p].at = run[p].at
      /\ run[p].at \notin {"formatting", "posted"} => run'[p] = run[p]
      /\ run[p].at \in {"formatting", "posted"} =>
           /\ run'[p].ci = run[p].ci /\ run'[p].info = run[p].info /\ run'[p].old = run[p].old
           /\ run'[p].wrote = run[p].wrote
      /\ run[p].at = "posted" => run'[p].changed = run[p].changed
  BY <1>1, ToldFields
<1>3. /\ now \in Nat /\ file.mtime \in Nat
      /\ run[p].at \in {"waiting", "clearing", "opening", "opened"} => run[p].began \in Nat
      /\ run[p].at \in {"listed", "formatting"} => run[p].info.mtime \in Nat
  BY TimeTypes
<1>4. CASE run[p].at = "formatting"
  <2>1. run[p].ci => /\ run[p].old => run[p].info.mtime < now
                     /\ run[p].wrote => run[p].old /\ run[p].info.mtime < file.mtime
    BY <1>4 DEF CiOK
  <2>2. run[p].info.mtime < now => run[p].info.mtime < now'
    BY <1>3, <1>4
  <2>3. run[p].info.mtime < file.mtime => run[p].info.mtime < file'.mtime
    BY <1>3, <1>4
  <2> QED
    BY <1>2, <1>4, <2>1, <2>2, <2>3 DEF CiOK
<1>6. CASE run[p].at = "posted"
  BY <1>2, <1>6 DEF CiOK
<1>5. CASE run[p].at \notin {"formatting", "posted"}
  BY <1>2, <1>3, <1>5 DEF CiOK
<1> QED
  BY <1>4, <1>5, <1>6

\* A step of run p that leaves file and clock alone.
LEMMA CiMoves ==
  ASSUME TypeInv, CiInv, UNCHANGED <<now, file>>, NEW p \in Procs, Others(p), CiOK(run'[p])
  PROVE  CiInv'
<1>1. \A q \in Procs : CiOK(run'[q])
  BY DEF CiInv, Others
<1>2. \A q \in Procs : CiOK(run[q])' <=> CiOK(run'[q])
  BY DEF CiOK
<1> QED
  BY <1>1, <1>2 DEF CiInv

LEMMA CiRunStep ==
  ASSUME TypeInv, CiInv, NEW p \in Procs, RunStep(p) \/ Crash(p)
  PROVE  CiInv'
<1>0. /\ CiOK(run[p]) /\ now \in Nat /\ file.mtime \in Nat /\ file.mtime <= now
      /\ run[p].at \in {"waiting", "clearing", "opening", "opened"} => run[p].began \in Nat
      /\ run[p].at \in {"listed", "formatting"} => run[p].info.mtime \in Nat
  BY TimeTypes DEF CiInv
<1>1. CASE Start(p)
  <2>1. CiOK(run'[p])
    BY <1>0, <1>1, Starts DEF CiOK
  <2> QED
    BY <1>1, <2>1, Starts, CiMoves
<1>2. CASE Wake(p)
  <2>1. run[p].ci => run[p].began < now
    BY <1>0, <1>2, Wakes DEF StartAfter
  <2>2. CiOK(run'[p])
    BY <1>2, <2>1, Wakes DEF CiOK
  <2> QED
    BY <1>2, <2>2, Wakes, CiMoves
<1>3. CASE RemoveCache(p)
  <2>1. CiOK(run'[p])
    BY <1>0, <1>3, Removes DEF CiOK
  <2> QED
    BY <1>3, <2>1, Removes, CiMoves
<1>4. CASE Open(p)
  <2>1. CiOK(run'[p])
    BY <1>0, <1>4, Opens DEF CiOK
  <2> QED
    BY <1>4, <2>1, Opens, CiMoves
<1>5. CASE OpenTimeout(p) \/ Skip(p) \/ Record(p) \/ Crash(p)
  <2>1. CiOK(Off)
    BY DEF CiOK, Off
  <2> QED
    BY <1>5, <2>1, Ends, CiMoves
<1>6. CASE List(p)
  <2>1. /\ run'[p].at = "listed" /\ run'[p].ci = run[p].ci /\ run[p].at = "opened"
        /\ run'[p].info.mtime = file.mtime
        /\ run'[p].old = (run[p].ci /\ file.mtime <= run[p].began)
    BY <1>6, Lists DEF InfoOf
  <2>3. run[p].ci => run[p].began < now
    BY <1>0, <2>1 DEF CiOK
  <2>4. run'[p].old => run'[p].info.mtime < now
    <3>1. /\ run[p].began \in Nat /\ file.mtime \in Nat /\ now \in Nat
      BY <1>0, <2>1
    <3>2. run'[p].old => run[p].ci /\ file.mtime <= run[p].began
      BY <2>1
    <3>3. file.mtime <= run[p].began /\ run[p].began < now => file.mtime < now
      BY <3>1
    <3> QED
      BY <2>1, <2>3, <3>2, <3>3
  <2>2. CiOK(run'[p])
    BY <2>1, <2>4 DEF CiOK
  <2> QED
    BY <1>6, <2>2, Lists, CiMoves
<1>7. CASE Accept(p)
  <2>1. CiOK(run'[p])
    BY <1>0, <1>7, Accepts DEF CiOK
  <2> QED
    BY <1>7, <2>1, Accepts, CiMoves
<1>8. CASE Stat(p)
  <2>1. /\ run'[p].at = "posted" /\ run[p].at = "formatting" /\ run'[p].ci = run[p].ci
        /\ run'[p].wrote = run[p].wrote /\ run'[p].changed = Differs(run[p].info, file)
    BY <1>8, Stats
  <2>2. run[p].info.mtime < file.mtime => Differs(run[p].info, file)
    BY <1>0, <2>1 DEF Differs
  <2>3. CiOK(run'[p])
    BY <1>0, <2>1, <2>2 DEF CiOK
  <2> QED
    BY <1>8, <2>3, Stats, CiMoves
<1>9. CASE Format(p)
  <2>1. /\ run[p].at = "formatting" /\ run'[p].at = "formatting" /\ run'[p].ci = run[p].ci
        /\ run'[p].info = run[p].info /\ run'[p].old = run[p].old /\ UNCHANGED now
    BY <1>9, FormatStep
  <2>2. PICK ok \in BOOLEAN, write \in BOOLEAN, s \in Sizes :
          /\ file' = Formatted(file, run[p].cfg, run[p].k, ok, write, s)
          /\ run'[p].wrote = (run[p].wrote \/ (write /\ run[p].old))
          /\ \A q \in Procs : q # p => run'[q] = IF write THEN Told(run[q], file') ELSE run[q]
    BY <1>9, FormatStep
  <2>3. file'.mtime = (IF write THEN now ELSE file.mtime)
    BY <2>2 DEF Formatted
  <2>4. file'.mtime \in Nat /\ file.mtime <= file'.mtime
    BY <1>0, <2>3
  <2>5. ASSUME NEW q \in Procs, q # p PROVE CiOK(run[q])'
    <3>1. CiOK(run[q]) /\ (run'[q] = run[q] \/ run'[q] = Told(run[q], file'))
      BY <2>2, <2>5 DEF CiInv
    <3>2. now' \in Nat /\ now <= now'
      BY <1>0, <2>1
    <3> QED
      BY <2>4, <3>1, <3>2, CiKept
  <2>6. CiOK(run[p])'
    <3>1. run[p].ci => /\ run[p].old => run[p].info.mtime < now
                       /\ run[p].wrote => run[p].old /\ run[p].info.mtime < file.mtime
      BY <1>0, <2>1 DEF CiOK
    <3>2. run[p].ci /\ run'[p].wrote => run[p].old /\ run[p].info.mtime < file'.mtime
      BY <1>0, <2>1, <2>2, <2>3, <2>4, <3>1
    <3> QED
      BY <2>1, <3>1, <3>2 DEF CiOK
  <2> QED
    BY <2>5, <2>6 DEF CiInv
<1> QED
  BY <1>1, <1>2, <1>3, <1>4, <1>5, <1>6, <1>7, <1>8, <1>9 DEF RunStep

LEMMA CiNext == TypeInv /\ CiInv /\ [Next]_vars => CiInv'
<1> SUFFICES ASSUME TypeInv, CiInv, [Next]_vars PROVE CiInv'
  OBVIOUS
<1>0. now \in Nat /\ file.mtime \in Nat /\ file.mtime <= now
  BY DEF TypeInv, File
<1>1. ASSUME now' \in Nat, now <= now', file'.mtime \in Nat, file.mtime <= file'.mtime,
             \A q \in Procs : run'[q] = run[q] \/ run'[q] = Told(run[q], file')
      PROVE  CiInv'
  BY <1>1, CiKept DEF CiInv
<1>2. CASE Edit
  <2>1. /\ file'.mtime = now /\ now' = now
        /\ \A q \in Procs : run'[q] = Told(run[q], file')
    BY <1>2, Edits
  <2>2. now' \in Nat /\ now <= now' /\ file'.mtime \in Nat /\ file.mtime <= file'.mtime
    BY <1>0, <2>1
  <2> QED
    BY <1>1, <2>1, <2>2
<1>3. CASE Tick
  <2>1. now' = now + 1 /\ UNCHANGED <<file, run>>
    BY <1>3 DEF Tick
  <2>2. now' \in Nat /\ now <= now' /\ file'.mtime \in Nat /\ file.mtime <= file'.mtime
    BY <1>0, <2>1
  <2> QED
    BY <1>1, <2>1, <2>2
<1>4. CASE Reconfigure \/ UNCHANGED vars
  BY <1>4 DEF Reconfigure, vars, CiInv, CiOK
<1>5. ASSUME NEW p \in Procs, RunStep(p) \/ Crash(p) PROVE CiInv'
  BY <1>5, CiRunStep
<1> QED
  BY <1>2, <1>3, <1>4, <1>5 DEF Next

\* The wait of --ci is long enough: a write of a formatter to a file nobody wrote
\* after the run began is always seen, whoever else writes to it meanwhile.
THEOREM ChangeCorrect == Spec => []ChangeSeen
<1>1. Init => CiInv
  BY DEF Init, CiInv, CiOK, Off
<1>2. CiInv => ChangeSeen
  BY DEF CiInv, CiOK, ChangeSeen
<1> QED
  BY <1>1, <1>2, CiNext, TypeAlways, PTL DEF Spec

-----------------------------------------------------------------------------
(* What an entry says.                                                     *)

\* A signature that fits the file says what was done to it.
Applied(e) ==
  e # None /\ e.mtime = file.mtime /\ e.size = file.size =>
    \E c \in Full(file) : e.formatters = SigOf[c]

\* While no formatter failed and nobody wrote in between, the file is as far as the run
\* is; after the last formatter, as long as it is the file that was stat'ed.
Knows(r) ==
  /\ r.at = "formatting" /\ MayRecord(r) /\ r.sure /\ r.k # 0 => <<r.cfg, r.k>> \in file.done
  /\ r.at = "posted" /\ MayRecord(r) /\ r.sure /\ Recorded(r) = InfoOf(file) =>
       r.cfg \in Full(file)

\* An entry that fits the file, and whose file nobody wrote to unnoticed, was recorded
\* by a run that applied all its formatters, under a configuration of this signature, to
\* what the file still holds.
EntriesTold ==
  \A i \in DOMAIN db \ unsure, c \in Configs :
    db[i] = Signature(c, InfoOf(file)) => \E d \in Full(file) : SigOf[d] = SigOf[c]

KnownInv ==
  /\ \A i \in (0 .. MaxClears) \ unsure : Applied(db[i])
  /\ \A p \in Procs : Knows(run[p])

\* A step of run p that leaves file and entries alone.
LEMMA KnownMoves ==
  ASSUME TypeInv, KnownInv, UNCHANGED <<file, db, unsure>>, NEW p \in Procs, Others(p),
         Knows(run'[p])
  PROVE  KnownInv'
<1>1. \A q \in Procs : Knows(run'[q])
  BY DEF KnownInv, Others
<1>2. \A q \in Procs : Knows(run[q])' <=> Knows(run'[q])
  BY DEF Knows, MayRecord, Recorded, InfoOf, Full
<1>3. \A i \in (0 .. MaxClears) \ unsure' : Applied(db[i])'
  BY DEF KnownInv, Applied, Full
<1> QED
  BY <1>1, <1>2, <1>3 DEF KnownInv

\* A write: the entries that fit the file now are in doubt.
LEMMA WriteKnown ==
  ASSUME TypeInv, db' = db, unsure' = unsure \cup Fitting(file')
  PROVE  \A i \in (0 .. MaxClears) \ unsure' : Applied(db[i])'
<1>1. \A i \in 0 .. MaxClears : i \in DOMAIN db
  BY DEF TypeInv
<1> QED
  BY <1>1 DEF Fitting, Applied

\* So is what a run has done so far.
LEMMA ToldKnows ==
  ASSUME TypeInv, NEW q \in Procs, run'[q] = Told(run[q], file')
  PROVE  Knows(run[q])'
<1>1. /\ RunOK(run[q]) /\ run'[q].at = run[q].at
      /\ run[q].at \in {"formatting", "posted"} =>
           /\ run'[q].cfg = run[q].cfg /\ run'[q].ci = run[q].ci /\ run'[q].info = run[q].info
           /\ run'[q].failed = run[q].failed
           /\ run'[q].sure => ~Overtaken(run[q], file')
      /\ run[q].at = "formatting" => run'[q].k = run[q].k
      /\ run[q].at = "posted" => run'[q].formatted = run[q].formatted
  BY ToldFields DEF TypeInv
<1>2. CASE run[q].at = "formatting"
  <2>1. run[q] \in Working
    BY <1>1, <1>2, StageFields DEF RunOK
  <2>2. run[q].k # 0 => run[q].k > 0
    BY <2>1, CacheAssumption DEF Working
  <2> QED
    BY <1>1, <1>2, <2>2 DEF Overtaken, MayRecord, Knows
<1>3. CASE run[q].at = "posted"
  BY <1>1, <1>3 DEF Overtaken, MayRecord, Knows, Recorded, InfoOf
<1> QED
  BY <1>1, <1>2, <1>3 DEF Knows

LEMMA KnownFormat ==
  ASSUME TypeInv, KnownInv, NEW p \in Procs, Format(p)
  PROVE  KnownInv'
<1> DEFINE r == run[p]
           n == run'[p]
<1>1. /\ r.at = "formatting" /\ n.at = "formatting" /\ n.k = r.k + 1 /\ n.cfg = r.cfg
      /\ n.ci = r.ci /\ n.sure = r.sure /\ r.k \in 0 .. Chain - 1
      /\ UNCHANGED db
  BY FormatStep
<1>2. PICK ok \in BOOLEAN, write \in BOOLEAN, s \in Sizes :
        /\ ~write => s = file.size
        /\ file' = Formatted(file, r.cfg, r.k, ok, write, s)
        /\ n.failed = (r.failed \/ ~ok)
        /\ \A q \in Procs : q # p => run'[q] = IF write THEN Told(run[q], file') ELSE run[q]
        /\ unsure' = IF write THEN unsure \cup Fitting(file') ELSE unsure
  BY FormatStep
<1>3. /\ ok /\ (r.k = 0 \/ <<r.cfg, r.k>> \in file.done) => <<r.cfg, r.k + 1>> \in file'.done
      /\ ~write => /\ file.done \subseteq file'.done
                   /\ file'.mtime = file.mtime /\ file'.size = file.size
  BY <1>2 DEF Formatted
<1>4. Knows(run[p])'
  <2>1. Knows(r)
    BY DEF KnownInv
  <2>2. MayRecord(n) => MayRecord(r) /\ ok
    BY <1>1, <1>2 DEF MayRecord
  <2>3. MayRecord(n) /\ n.sure => <<r.cfg, r.k + 1>> \in file'.done
    BY <1>1, <1>3, <2>1, <2>2 DEF Knows
  <2> QED
    BY <1>1, <2>3 DEF Knows, MayRecord
<1>5. CASE write
  <2>1. \A i \in (0 .. MaxClears) \ unsure' : Applied(db[i])'
    BY <1>1, <1>2, <1>5, WriteKnown
  <2>2. \A q \in Procs : q # p => Knows(run[q])'
    BY <1>2, <1>5, ToldKnows
  <2> QED
    BY <1>4, <2>1, <2>2 DEF KnownInv
<1>6. CASE ~write
  <2>1. Full(file) \subseteq Full(file')
    BY <1>3, <1>6 DEF Full
  <2>2. \A i \in (0 .. MaxClears) \ unsure' : Applied(db[i])'
    BY <1>1, <1>2, <1>3, <1>6, <2>1 DEF KnownInv, Applied, Full
  <2>3. \A q \in Procs : q # p => Knows(run[q])'
    BY <1>2, <1>3, <1>6, <2>1 DEF KnownInv, Knows, MayRecord, Recorded, InfoOf, Full
  <2> QED
    BY <1>4, <2>2, <2>3 DEF KnownInv
<1> QED
  BY <1>5, <1>6

LEMMA KnownRecord ==
  ASSUME TypeInv, KnownInv, NEW p \in Procs, Record(p)
  PROVE  KnownInv'
<1> DEFINE r == run[p]
<1>1. /\ Others(p) /\ run'[p] = Off /\ UNCHANGED file /\ r.at = "posted"
  BY Ends DEF Record
<1>2. \A q \in Procs : Knows(run[q])'
  <2>1. \A q \in Procs : Knows(run'[q])
    BY <1>1 DEF KnownInv, Knows, Others, Off
  <2> QED
    BY <1>1, <2>1 DEF Knows, MayRecord, Recorded, InfoOf, Full
<1>3. CASE UNCHANGED <<db, unsure>>
  <2>1. \A i \in (0 .. MaxClears) \ unsure' : Applied(db[i])'
    BY <1>1, <1>3 DEF KnownInv, Applied, Full
  <2> QED
    BY <1>2, <2>1 DEF KnownInv
<1>4. CASE MayRecord(r)
  <2>1. /\ db' = [db EXCEPT ![r.inode] = NewSignature(r)]
        /\ unsure' = IF r.sure THEN unsure \ {r.inode} ELSE unsure \cup {r.inode}
    BY <1>4 DEF Record
  <2>2. r.cfg \in Configs /\ Recorded(r) \in Info
    BY <1>1, RecordedType
  <2>3. r.sure => Applied(NewSignature(r))
    <3> SUFFICES ASSUME r.sure, NewSignature(r).mtime = file.mtime,
                        NewSignature(r).size = file.size
                 PROVE  \E c \in Full(file) : NewSignature(r).formatters = SigOf[c]
      BY DEF Applied
    <3>1. Recorded(r).mtime = file.mtime /\ Recorded(r).size = file.size
      BY DEF NewSignature, Signature
    <3>2. Recorded(r) = InfoOf(file)
      BY <2>2, <3>1 DEF Info, InfoOf
    <3>3. r.cfg \in Full(file)
      BY <1>1, <1>4, <3>2 DEF KnownInv, Knows
    <3> QED
      BY <3>3 DEF NewSignature, Signature
  <2>4. \A i \in (0 .. MaxClears) \ unsure' : Applied(db'[i])
    <3>1. DOMAIN db = 0 .. MaxClears
      BY DEF TypeInv
    <3> SUFFICES ASSUME NEW i \in (0 .. MaxClears) \ unsure' PROVE Applied(db'[i])
      OBVIOUS
    <3>2. CASE i = r.inode
      BY <2>1, <2>3, <3>1, <3>2
    <3>3. CASE i # r.inode
      BY <2>1, <3>1, <3>3 DEF KnownInv
    <3> QED
      BY <3>2, <3>3
  <2>5. \A i \in (0 .. MaxClears) \ unsure' : Applied(db[i])'
    BY <1>1, <2>4 DEF Applied, Full
  <2> QED
    BY <1>2, <2>5 DEF KnownInv
<1> QED
  BY <1>3, <1>4 DEF Record

LEMMA KnownNext == TypeInv /\ KnownInv /\ [Next]_vars => KnownInv'
<1> SUFFICES ASSUME TypeInv, KnownInv, [Next]_vars PROVE KnownInv'
  OBVIOUS
<1>1. CASE Edit
  <2>1. \A i \in (0 .. MaxClears) \ unsure' : Applied(db[i])'
    BY <1>1, Edits, WriteKnown
  <2>2. \A q \in Procs : Knows(run[q])'
    BY <1>1, Edits, ToldKnows
  <2> QED
    BY <2>1, <2>2 DEF KnownInv
<1>2. CASE Reconfigure \/ Tick \/ UNCHANGED vars
  <2>1. UNCHANGED <<file, db, run, unsure>>
    BY <1>2 DEF Reconfigure, Tick, vars, history
  <2> QED
    BY <2>1 DEF KnownInv, Applied, Knows, MayRecord, Recorded, InfoOf, Full
<1>3. ASSUME NEW p \in Procs, Format(p) \/ Record(p) PROVE KnownInv'
  BY <1>3, KnownFormat, KnownRecord
<1>4. ASSUME NEW p \in Procs, \/ Start(p) \/ Wake(p) \/ RemoveCache(p) \/ Open(p) \/ List(p)
                              \/ Accept(p) \/ OpenTimeout(p) \/ Skip(p) \/ Crash(p)
      PROVE  KnownInv'
  <2>1. UNCHANGED <<file, db, unsure>> /\ Others(p)
    BY <1>4, Starts, Wakes, Removes, Opens, Lists, Accepts, Ends
    DEF OpenTimeout, Skip, Crash, history
  <2>2. run'[p].at \notin {"formatting", "posted"} \/ (run'[p].at = "formatting" /\ run'[p].k = 0)
    BY <1>4, Starts, Wakes, Removes, Opens, Lists, Accepts, Ends DEF Off
  <2>3. Knows(run'[p])
    BY <2>2 DEF Knows
  <2> QED
    BY <2>1, <2>3, KnownMoves
<1>5. ASSUME NEW p \in Procs, Stat(p) PROVE KnownInv'
  <2>1. /\ run'[p].at = "posted" /\ run[p].at = "formatting"
        /\ run[p] \in Working /\ run[p].k = Chain /\ run'[p].cfg = run[p].cfg
        /\ run'[p].ci = run[p].ci /\ run'[p].failed = run[p].failed
        /\ run'[p].sure = run[p].sure
        /\ Others(p) /\ UNCHANGED <<file, db, unsure>>
    BY <1>5, Stats
  <2>2. Chain # 0 /\ run[p].cfg \in Configs
    BY <2>1, CacheAssumption DEF Working
  <2>3. MayRecord(run[p]) /\ run[p].sure => run[p].cfg \in Full(file)
    BY <2>1, <2>2 DEF KnownInv, Knows, Full
  <2>4. Knows(run'[p])
    BY <2>1, <2>3 DEF Knows, MayRecord
  <2> QED
    BY <2>1, <2>4, KnownMoves
<1> QED
  BY <1>1, <1>2, <1>3, <1>4, <1>5 DEF Next, RunStep

LEMMA KnownAlways == Spec => []KnownInv
<1>1. Init => KnownInv
  BY DEF Init, KnownInv, Applied, Knows, Off
<1> QED
  BY <1>1, KnownNext, TypeAlways, PTL DEF Spec

\* What an entry tells.
LEMMA EntriesTell == ASSUME TypeInv, KnownInv PROVE EntriesTold
<1> SUFFICES ASSUME NEW i \in DOMAIN db \ unsure, NEW c \in Configs,
                    db[i] = Signature(c, InfoOf(file))
             PROVE  \E d \in Full(file) : SigOf[d] = SigOf[c]
  BY DEF EntriesTold
<1>1. i \in (0 .. MaxClears) \ unsure /\ InfoOf(file) \in Info
  BY InfoType DEF TypeInv
<1>2. db[i] # None
  BY <1>1, SignatureType, NotNone
<1>3. /\ db[i].formatters = SigOf[c] /\ db[i].mtime = file.mtime /\ db[i].size = file.size
  BY DEF Signature, InfoOf
<1> QED
  BY <1>1, <1>2, <1>3 DEF KnownInv, Applied

\* An entry that makes a run skip the file says the truth, whoever recorded it, with or
\* without the lock, however often the cache was removed, with any process killed at any
\* point and the file saved at any time: all formatters of some configuration with the
\* signature the run computes were applied to what the file holds.  Out of account are
\* the entries nothing could have told from a later write (unsure).
THEOREM EntriesCorrect == Spec => []EntriesTold
  BY TypeAlways, KnownAlways, EntriesTell, PTL

\* What was skipped, was so for a reason.
ListedInv == \A p \in Procs : run[p].at = "listed" /\ UpToDate(run[p]) => run[p].sound

LEMMA ListedNext ==
  ASSUME \A c, d \in Configs : SigOf[c] = SigOf[d] => c = d
  PROVE  TypeInv /\ KnownInv /\ ListedInv /\ [Next]_vars => ListedInv'
<1> SUFFICES ASSUME TypeInv, KnownInv, ListedInv, [Next]_vars PROVE ListedInv'
  OBVIOUS
<1>1. CASE Edit \/ (\E p \in Procs : Format(p))
  <2>1. \A q \in Procs : run'[q].at = "listed" => run'[q] = run[q]
    <3>1. ASSUME NEW q \in Procs, run'[q] = Told(run[q], file'), run'[q].at = "listed"
          PROVE  run'[q] = run[q]
      BY <3>1, ToldFields DEF TypeInv
    <3>2. CASE Edit
      BY <3>1, <3>2, Edits
    <3>3. ASSUME NEW p \in Procs, Format(p), NEW q \in Procs, run'[q].at = "listed"
          PROVE  run'[q] = run[q]
      <4>1. /\ run'[p].at = "formatting"
            /\ q # p => run'[q] = Told(run[q], file') \/ run'[q] = run[q]
        BY <3>3, FormatStep
      <4> QED
        BY <3>1, <3>3, <4>1
    <3> QED
      BY <1>1, <3>2, <3>3
  <2> QED
    BY <2>1 DEF ListedInv, UpToDate, Signature
<1>2. CASE Reconfigure \/ Tick \/ UNCHANGED vars
  BY <1>2 DEF Reconfigure, Tick, vars, ListedInv, UpToDate, Signature
<1>3. ASSUME NEW p \in Procs, \/ Start(p) \/ Wake(p) \/ RemoveCache(p) \/ Open(p) \/ Accept(p)
                              \/ Stat(p) \/ OpenTimeout(p) \/ Skip(p) \/ Record(p) \/ Crash(p)
      PROVE  ListedInv'
  <2>1. Others(p) /\ run'[p].at # "listed"
    BY <1>3, Starts, Wakes, Removes, Opens, Accepts, Stats, Ends DEF Off
  <2> QED
    BY <2>1 DEF ListedInv, Others, UpToDate, Signature
<1>4. ASSUME NEW p \in Procs, List(p) PROVE ListedInv'
  <2>1. /\ Others(p) /\ run'[p].cfg = run[p].cfg /\ run'[p].info = InfoOf(file)
        /\ run'[p].cached = None \/ (~run[p].ci /\ run'[p].cached = db[run[p].inode])
        /\ run'[p].sound = (run[p].cfg \in Full(file) \/ run[p].inode \in unsure)
        /\ run[p].at = "opened"
    BY <1>4, Lists
  <2>2. run[p] \in Opened /\ RunOK(run[p])
    BY <2>1, StageFields DEF TypeInv, RunOK
  <2>3. run[p].cfg \in Configs /\ InfoOf(file) \in Info
    BY <2>2, InfoType DEF Opened
  <2>4. Signature(run[p].cfg, InfoOf(file)) # None
    BY <2>3, SignatureType, NotNone
  <2>5. ~run[p].ci => run[p].inode \in DOMAIN db
    BY <2>1, <2>2, CacheAssumption DEF Opened, RunOK, HasIt, TypeInv
  <2>6. run'[p].cached = Signature(run[p].cfg, InfoOf(file)) => run'[p].sound
    <3> SUFFICES ASSUME run'[p].cached = Signature(run[p].cfg, InfoOf(file)),
                        run[p].inode \notin unsure
                 PROVE  run[p].cfg \in Full(file)
      BY <2>1
    <3>1. PICK d \in Full(file) : SigOf[d] = SigOf[run[p].cfg]
      BY <2>1, <2>3, <2>4, <2>5, EntriesTell DEF EntriesTold
    <3>2. d \in Configs
      BY DEF Full
    <3> QED
      BY <2>3, <3>1, <3>2
  <2>7. UpToDate(run'[p]) => run'[p].sound
    BY <2>1, <2>6 DEF UpToDate
  <2> QED
    BY <2>1, <2>7 DEF ListedInv, Others, UpToDate, Signature
<1> QED
  BY <1>1, <1>2, <1>3, <1>4 DEF Next, RunStep

\* Where no two configurations have the same signature, a run skips the file only when
\* its own formatters were applied to the content it listed (scheduler.go:116).
THEOREM SkipCorrect ==
  ASSUME \A c, d \in Configs : SigOf[c] = SigOf[d] => c = d
  PROVE  Spec => []SkipSound
<1>1. Init => ListedInv
  BY DEF Init, ListedInv, Off
<1>2. ListedInv => SkipSound
  BY DEF ListedInv, SkipSound
<1> QED
  BY <1>1, <1>2, ListedNext, TypeAlways, KnownAlways, PTL DEF Spec
=============================================================================
