-------------------------- MODULE WalkReadersProofs --------------------------
(***************************************************************************)
(* Theorems about WalkReaders for any number of readers, listings, channel   *)
(* capacities and batch sizes.                                               *)
(*                                                                         *)
(* First the lemmas on sequences, then the types, then what a channel holds  *)
(* and what was taken out of it, then the order and the completeness of what *)
(* the loop works on.                                                        *)
(***************************************************************************)
EXTENDS WalkReaders, SequenceTheorems, TLAPS

-----------------------------------------------------------------------------
(* Sequences.                                                              *)

\* What Append makes of a sequence.
LEMMA Appended ==
  ASSUME NEW S, NEW s \in Seq(S), NEW e \in S
  PROVE  /\ Append(s, e) \in Seq(S) /\ Len(Append(s, e)) = Len(s) + 1 /\ Len(s) \in Nat
         /\ \A i \in 1 .. Len(s) : Append(s, e)[i] = s[i]
         /\ Append(s, e)[Len(s) + 1] = e
  OBVIOUS

LEMMA AppendedToSecond ==
  ASSUME NEW s \in Seq(Entry), NEW t \in Seq(Entry), NEW e \in Entry
  PROVE  Append(s \o t, e) = s \o Append(t, e)
<1>1. s \o t \in Seq(Entry) /\ <<e>> \in Seq(Entry)
  BY ConcatProperties
<1>2. Append(s \o t, e) = (s \o t) \o <<e>> /\ Append(t, e) = t \o <<e>>
  BY <1>1, AppendIsConcat
<1>3. (s \o t) \o <<e>> = s \o (t \o <<e>>)
  BY <1>1, ConcatAssociative
<1> QED
  BY <1>2, <1>3

LEMMA Successor ==
  ASSUME NEW a \in Nat, NEW b \in Nat, a < b
  PROVE  a + 1 <= b /\ a + 1 \in Nat
  OBVIOUS

\* The elements are those of the indices.
LEMMA Elements ==
  ASSUME NEW S, NEW s \in Seq(S)
  PROVE  /\ ToSet(s) = {s[i] : i \in 1 .. Len(s)}
         /\ \A i \in 1 .. Len(s) : s[i] \in S
  BY DEF ToSet

LEMMA ElementsAppended ==
  ASSUME NEW S, NEW s \in Seq(S), NEW e \in S
  PROVE  ToSet(Append(s, e)) = ToSet(s) \cup {e}
<1>1. \A i \in 1 .. Len(s) + 1 : i \in 1 .. Len(s) \/ i = Len(s) + 1
  OBVIOUS
<1>2. ToSet(Append(s, e)) = {Append(s, e)[i] : i \in 1 .. Len(s) + 1}
  <2>1. Append(s, e) \in Seq(S) /\ Len(Append(s, e)) = Len(s) + 1
    BY Appended
  <2>2. ToSet(Append(s, e)) = {Append(s, e)[i] : i \in 1 .. Len(Append(s, e))}
    BY <2>1, Elements
  <2> QED
    BY <2>1, <2>2
<1>3. ToSet(s) = {s[i] : i \in 1 .. Len(s)}
  BY Elements
<1>4. ASSUME NEW x \in ToSet(Append(s, e))
      PROVE  x \in ToSet(s) \cup {e}
  BY <1>1, <1>2, <1>3, <1>4, Appended
<1>5. ASSUME NEW x \in ToSet(s) \cup {e}
      PROVE  x \in ToSet(Append(s, e))
  <2>1. Len(s) + 1 \in 1 .. Len(s) + 1 /\ Append(s, e)[Len(s) + 1] = e
    BY Appended
  <2>2. \A i \in 1 .. Len(s) : i \in 1 .. Len(s) + 1 /\ Append(s, e)[i] = s[i]
    BY Appended
  <2> QED
    BY <1>2, <1>3, <2>1, <2>2
<1> QED
  BY <1>4, <1>5

-----------------------------------------------------------------------------
(* The steps.                                                              *)

\* A line of the listing is put in the channel.
Send(r) ==
  /\ lister[r] = "running" /\ pos[r] < Length[r] /\ HasRoom(r)
  /\ buf' = [buf EXCEPT ![r] = Append(@, pos[r] + 1)]
  /\ pos' = [pos EXCEPT ![r] = @ + 1]
  /\ UNCHANGED <<lister, skipped, loop, cancelled>>

\* The goroutine of r is done with its listing, or gives up.
Stop(r) ==
  /\ lister[r] = "running"
  /\ \/ lister' = [lister EXCEPT ![r] = "ended"] /\ pos[r] = Length[r]
     \/ /\ lister' = [lister EXCEPT ![r] = "failed"]
        /\ Lists[r] = "command" => "command" \in setup.faults
  /\ UNCHANGED <<pos, buf, skipped, loop, cancelled>>

\* A file is taken out of the channel of the current reader.
TakeFile ==
  /\ pc \in {"fill", "scan"} /\ buf[current] # <<>>
  /\ pc = "fill" => Len(batch) < BatchSize
  /\ Take /\ Consume /\ pc' = "fill"
  /\ UNCHANGED <<pos, lister, skipped, idx, current, applied, readErr, applyErr, closing,
                 cancelled, result>>

\* The scanner is asked for a line, or has been given one.
LookForLine ==
  /\ pc \in {"fill", "wait"} /\ pc' \in {"wait", "scan"}
  /\ pc = "fill" => Len(batch) < BatchSize
  /\ UNCHANGED <<listing, skipped, idx, current, batch, taken, applied, readErr, applyErr,
                 closing, cancelled, result>>

\* Every step is one of these.
LEMMA StepCases ==
  ASSUME Next
  PROVE  /\ setup' = setup
         /\ \/ BeginRead \/ Filled \/ TakeFile \/ LookForLine \/ ScanSkip \/ ScanFails \/ AtEnd
            \/ CutShort \/ Apply \/ CloseReader
            \/ \E r \in Readers : Send(r) \/ WalkSkip(r) \/ Stop(r)
            \/ Signal \/ UNCHANGED vars
<1>1. Receive \/ ScanFile => TakeFile
  BY DEF Receive, ScanFile, Scanned, TakeFile
<1>2. ASSUME NEW r \in Readers, WalkFile(r) \/ CommandStep(r)
      PROVE  Send(r)
  BY <1>2 DEF WalkFile, CommandStep, Walking, Send
<1>3. ASSUME NEW r \in Readers, WalkFails(r) \/ ListerEnds(r) \/ CommandFails(r)
      PROVE  Stop(r)
  BY <1>3 DEF WalkFails, ListerEnds, CommandFails, Walking, Stop
<1>8. Scan \/ Wake => LookForLine
  BY DEF Scan, Wake, LookForLine
<1>4. Loop => /\ setup' = setup
              /\ \/ BeginRead \/ Filled \/ TakeFile \/ LookForLine \/ ScanSkip \/ ScanFails \/ AtEnd
                 \/ CutShort \/ Apply \/ CloseReader
  BY <1>1, <1>8 DEF Loop
<1>5. ASSUME NEW r \in Readers, Lister(r)
      PROVE  setup' = setup /\ (Send(r) \/ WalkSkip(r) \/ Stop(r))
  BY <1>2, <1>3, <1>5 DEF Lister
<1>6. Signal \/ Done => setup' = setup
  BY DEF Signal, Done, vars
<1>7. Done => UNCHANGED vars
  BY DEF Done
<1> QED
  BY <1>4, <1>5, <1>6, <1>7 DEF Next

-----------------------------------------------------------------------------
(* Types.                                                                  *)

\* Where the loop is tells which reader it has, what Read returned and what it is
\* closing; what was taken is what was worked on and the batch.
StageInv ==
  /\ pc \in {"fill", "wait", "scan"} => current # 0
  /\ pc \in {"read", "fill", "wait", "scan"} => readErr = "nil"
  /\ pc \in {"wait", "scan"} => Len(batch) < BatchSize
  /\ pc \in {"read", "close", "ended"} => batch = <<>>
  /\ pc \in {"close", "ended"} => applyErr \/ readErr # "nil"
  /\ pc # "ended" => closing \in 1 .. N
  /\ current \in {0, idx}
  /\ taken = applied \o batch
  /\ readErr = "eof" => idx = N /\ current = 0
  /\ readErr = "canceled" => cancelled

TypeInv == TypeOK /\ StageInv

LEMMA SetupTyped ==
  ASSUME setup \in Setups
  PROVE  /\ setup.capacity \in Nat \ {0} /\ setup.cached \in BOOLEAN
         /\ setup.faults \subseteq {"signal", "timeout", "apply", "command"}
  BY WalkAssumption DEF Setup

\* The file at the head of the channel of the current reader.
LEMMA HeadTyped ==
  ASSUME TypeInv, current # 0, buf[current] # <<>>
  PROVE  /\ current \in Readers /\ Head(buf[current]) \in Nat
         /\ <<current, Head(buf[current])>> \in Entry
         /\ Tail(buf[current]) \in Seq(Nat) /\ Len(Tail(buf[current])) = Len(buf[current]) - 1
         /\ Len(buf[current]) \in Nat
         /\ \A i \in 1 .. Len(buf[current]) - 1 : Tail(buf[current])[i] = buf[current][i + 1]
         /\ Head(buf[current]) = buf[current][1]
<1>1. current \in Readers /\ buf[current] \in Seq(Nat)
  BY WalkAssumption DEF TypeInv, TypeOK, Readers
<1> DEFINE s == buf[current]
<1>2. /\ Head(s) \in Nat /\ Tail(s) \in Seq(Nat) /\ Len(Tail(s)) = Len(s) - 1
      /\ \A i \in 1 .. Len(Tail(s)) : Tail(s)[i] = s[i + 1]
      /\ Len(s) \in Nat /\ Head(s) = s[1]
  BY <1>1, HeadTailProperties, LenProperties
<1> QED
  BY <1>1, <1>2 DEF Entry

\* Taking a line out of the channel keeps its type.
LEMMA ConsumeTyped ==
  ASSUME TypeInv, current # 0, buf[current] # <<>>, Consume, setup' = setup
  PROVE  buf' \in [Readers -> Seq(Nat)] /\ \A r \in Readers : Len(buf'[r]) <= setup.capacity
<1>1. \A r \in Readers : buf'[r] = IF r = current THEN Tail(buf[current]) ELSE buf[r]
  BY HeadTyped DEF Consume, TypeInv, TypeOK
<1>2. \A r \in Readers : Len(buf[r]) <= setup.capacity /\ Len(buf[r]) \in Nat
  BY LenProperties DEF TypeInv, TypeOK
<1>3. setup.capacity \in Nat
  BY SetupTyped DEF TypeInv, TypeOK
<1>4. \A r \in Readers : Len(buf'[r]) <= setup.capacity
  <2>1. Len(Tail(buf[current])) = Len(buf[current]) - 1 /\ current \in Readers
    BY HeadTyped
  <2>2. Len(Tail(buf[current])) <= setup.capacity
    BY <1>2, <1>3, <2>1
  <2> QED
    BY <1>1, <1>2, <2>2
<1> QED
  BY <1>1, <1>4, HeadTyped DEF Consume, TypeInv, TypeOK

LEMMA SequencesTyped ==
  ASSUME TypeInv
  PROVE  /\ batch \in Seq(Entry) /\ taken \in Seq(Entry) /\ applied \in Seq(Entry)
         /\ Len(batch) \in Nat /\ Len(taken) \in Nat /\ Len(applied) \in Nat
         /\ BatchSize \in Nat \ {0} /\ N \in Nat \ {0}
<1>1. batch \in Seq(Entry) /\ taken \in Seq(Entry) /\ applied \in Seq(Entry)
  BY DEF TypeInv, TypeOK
<1> QED
  BY <1>1, LenProperties, WalkAssumption

LEMMA TypeInit == Init => TypeInv
<1> SUFFICES ASSUME Init
             PROVE  TypeInv
  OBVIOUS
<1>1. <<>> \in Seq(Nat) /\ <<>> \in Seq(Entry) /\ Len(<<>>) = 0 /\ <<>> \o <<>> = <<>>
  OBVIOUS
<1>2. setup.capacity \in Nat
  BY SetupTyped DEF Init
<1>3. buf \in [Readers -> Seq(Nat)] /\ \A r \in Readers : Len(buf[r]) <= setup.capacity
  BY <1>1, <1>2 DEF Init
<1>4. pos \in [Readers -> Nat] /\ \A r \in Readers : pos[r] <= Length[r]
  BY WalkAssumption DEF Init, Readers
<1>5. {batch, taken, applied} \subseteq Seq(Entry) /\ Len(batch) <= BatchSize
  BY <1>1, WalkAssumption DEF Init
<1>6. idx \in 0 .. N /\ current \in 0 .. N /\ closing \in 1 .. N /\ closing \in 1 .. N + 1
  BY WalkAssumption DEF Init
<1>7. TypeOK
  BY <1>3, <1>4, <1>5, <1>6 DEF Init, TypeOK
<1> QED
  BY <1>1, <1>6, <1>7 DEF Init, TypeInv, StageInv

\* What belongs to the goroutines, and what of the rest a step of theirs may change.
ListingOK ==
  /\ pos \in [Readers -> Nat] /\ \A r \in Readers : pos[r] <= Length[r]
  /\ lister \in [Readers -> {"running", "ended", "failed"}]
  /\ buf \in [Readers -> Seq(Nat)] /\ \A r \in Readers : Len(buf[r]) <= setup.capacity

LEMMA ListingStep ==
  ASSUME TypeInv, UNCHANGED <<setup, loop, cancelled>>, ListingOK', skipped' \subseteq Entry
  PROVE  TypeInv'
<1>1. TypeOK'
  BY DEF TypeInv, TypeOK, ListingOK, loop
<1>2. StageInv'
  BY DEF TypeInv, StageInv, loop
<1> QED
  BY <1>1, <1>2 DEF TypeInv

LEMMA TypeStep == TypeInv /\ [Next]_vars => TypeInv'
<1> SUFFICES ASSUME TypeInv, [Next]_vars
             PROVE  TypeInv'
  OBVIOUS
<1>s. Len(batch) \in Nat /\ BatchSize \in Nat \ {0} /\ N \in Nat \ {0}
  BY SequencesTyped
<1>u. CASE UNCHANGED vars
  BY <1>u DEF TypeInv, TypeOK, StageInv, vars
<1>n. CASE Next
  <2>0. setup' = setup
    BY <1>n, StepCases
  <2>1. CASE BeginRead
    BY <1>s, <2>0, <2>1 DEF BeginRead, TypeInv, TypeOK, StageInv, listing
  <2>2. CASE Filled \/ LookForLine
    BY <2>0, <2>2 DEF Filled, LookForLine, Return, AfterReader, TypeInv, TypeOK, StageInv, listing
  <2>3. CASE TakeFile
    <3> DEFINE e == <<current, Head(buf[current])>>
    <3>1. current # 0 /\ buf[current] # <<>> /\ e \in Entry
      BY <2>3, HeadTyped DEF TakeFile, TypeInv, StageInv
    <3>2. batch' = Append(batch, e) /\ taken' = Append(taken, e)
      BY <2>3 DEF TakeFile, Take
    <3>3. Len(batch) < BatchSize
      BY <2>3 DEF TakeFile, TypeInv, StageInv
    <3> HIDE DEF e
    <3>4. batch' \in Seq(Entry) /\ taken' \in Seq(Entry) /\ Len(batch') <= BatchSize
      BY <1>s, <3>1, <3>2, <3>3, SequencesTyped, Appended
    <3>5. taken' = applied \o batch'
      <4>1. taken = applied \o batch
        BY DEF TypeInv, StageInv
      <4>2. batch \in Seq(Entry) /\ applied \in Seq(Entry)
        BY SequencesTyped
      <4>3. Append(applied \o batch, e) = applied \o Append(batch, e)
        BY <3>1, <4>2, AppendedToSecond
      <4> QED
        BY <3>2, <4>1, <4>3
    <3>6. buf' \in [Readers -> Seq(Nat)] /\ \A r \in Readers : Len(buf'[r]) <= setup.capacity
      BY <2>0, <2>3, <3>1, ConsumeTyped DEF TakeFile
    <3>7. TypeOK'
      BY <2>0, <2>3, <3>4, <3>6 DEF TakeFile, TypeInv, TypeOK
    <3>8. StageInv'
      BY <2>3, <3>1, <3>5 DEF TakeFile, TypeInv, StageInv
    <3> QED
      BY <3>7, <3>8 DEF TypeInv
  <2>4. CASE ScanSkip \/ ScanFails
    <3>1. current # 0 /\ buf[current] # <<>> /\ <<current, Head(buf[current])>> \in Entry
      BY <2>4, HeadTyped DEF ScanSkip, ScanFails, Scanned, TypeInv, StageInv
    <3>2. buf' \in [Readers -> Seq(Nat)] /\ \A r \in Readers : Len(buf'[r]) <= setup.capacity
      BY <2>0, <2>4, <3>1, ConsumeTyped DEF ScanSkip, ScanFails
    <3>3. skipped' \subseteq Entry
      BY <2>4, <3>1 DEF ScanSkip, ScanFails, TypeInv, TypeOK
    <3>4. TypeOK'
      BY <2>0, <2>4, <3>2, <3>3 DEF ScanSkip, ScanFails, Return, AfterReader, TypeInv, TypeOK
    <3>5. StageInv'
      BY <2>4 DEF ScanSkip, ScanFails, Scanned, Return, AfterReader, TypeInv, StageInv
    <3> QED
      BY <3>4, <3>5 DEF TypeInv
  <2>5. CASE AtEnd
    <3>1. TypeOK'
      BY <1>s, <2>0, <2>5 DEF AtEnd, Return, AfterReader, TypeInv, TypeOK, listing
    <3>2. StageInv'
      BY <2>5 DEF AtEnd, Return, AfterReader, TypeInv, StageInv
    <3> QED
      BY <3>1, <3>2 DEF TypeInv
  <2>6. CASE CutShort
    <3>1. TypeOK'
      BY <2>0, <2>6 DEF CutShort, SoFar, Return, AfterReader, TypeInv, TypeOK, listing
    <3>2. StageInv'
      BY <2>6 DEF CutShort, SoFar, Return, AfterReader, TypeInv, StageInv
    <3> QED
      BY <3>1, <3>2 DEF TypeInv
  <2>7. CASE Apply
    <3>1. applied' = applied \o batch /\ batch' = <<>> /\ taken' = taken
      BY <2>7 DEF Apply
    <3>2. applied' \in Seq(Entry) /\ taken' = applied' \o batch' /\ batch' \in Seq(Entry)
      BY <3>1, SequencesTyped, ConcatProperties, ConcatEmptySeq DEF TypeInv, StageInv
    <3>3. Len(batch') <= BatchSize
      BY <1>s, <3>1
    <3>4. applyErr' \in BOOLEAN /\ pc' = IF applyErr' \/ readErr # "nil" THEN "close" ELSE "read"
      BY <2>7 DEF Apply
    <3>5. TypeOK'
      BY <2>0, <2>7, <3>2, <3>3, <3>4 DEF Apply, TypeInv, TypeOK, listing
    <3>6. StageInv'
      BY <2>7, <3>1, <3>2, <3>4 DEF Apply, TypeInv, StageInv
    <3> QED
      BY <3>5, <3>6 DEF TypeInv
  <2>8. CASE CloseReader
    <3>1. closing \in 1 .. N /\ closing' = closing + 1
      BY <2>8 DEF CloseReader, TypeInv, StageInv
    <3>a. \A b \in BOOLEAN : Outcome(b) \in {"ok", "error"}
      BY DEF Outcome
    <3>b. \A r : CloseFails(r) \in BOOLEAN
      BY DEF CloseFails
    <3>2. \/ pc' = "ended" /\ result' \in {"ok", "error"}
          \/ pc' = pc /\ result' = result /\ closing # N
      BY <2>8, <3>a, <3>b DEF CloseReader
    <3>3. TypeOK'
      BY <1>s, <2>0, <2>8, <3>1, <3>2 DEF CloseReader, TypeInv, TypeOK, listing
    <3>4. StageInv'
      BY <1>s, <2>8, <3>1, <3>2 DEF CloseReader, TypeInv, StageInv
    <3> QED
      BY <3>3, <3>4 DEF TypeInv
  <2>9. ASSUME NEW r \in Readers, Send(r)
        PROVE  TypeInv'
    <3>1. /\ pos[r] \in Nat /\ Length[r] \in Nat /\ buf[r] \in Seq(Nat)
          /\ setup.capacity \in Nat /\ Len(buf[r]) \in Nat
      BY SetupTyped, WalkAssumption, LenProperties DEF TypeInv, TypeOK, Readers
    <3>2. \A q \in Readers : /\ buf'[q] = IF q = r THEN Append(buf[r], pos[r] + 1) ELSE buf[q]
                             /\ pos'[q] = IF q = r THEN pos[r] + 1 ELSE pos[q]
      BY <2>9 DEF Send, TypeInv, TypeOK
    <3>3. /\ Append(buf[r], pos[r] + 1) \in Seq(Nat)
          /\ Len(Append(buf[r], pos[r] + 1)) <= setup.capacity /\ pos[r] + 1 <= Length[r]
      <4>1. Len(buf[r]) < setup.capacity /\ pos[r] < Length[r]
        BY <2>9 DEF Send, HasRoom
      <4>2. Len(buf[r]) + 1 <= setup.capacity /\ pos[r] + 1 <= Length[r] /\ pos[r] + 1 \in Nat
        BY <3>1, <4>1, Successor
      <4>3. /\ Append(buf[r], pos[r] + 1) \in Seq(Nat)
            /\ Len(Append(buf[r], pos[r] + 1)) = Len(buf[r]) + 1
        BY <3>1, <4>2, Appended
      <4> QED
        BY <4>2, <4>3
    <3>4. /\ buf' \in [Readers -> Seq(Nat)] /\ pos' \in [Readers -> Nat]
          /\ \A q \in Readers : Len(buf'[q]) <= setup.capacity /\ pos'[q] <= Length[q]
      <4>1. buf' \in [Readers -> Seq(Nat)] /\ pos' \in [Readers -> Nat]
        BY <2>9, <3>1, <3>3 DEF Send, TypeInv, TypeOK
      <4>2. \A q \in Readers : Len(buf[q]) <= setup.capacity /\ pos[q] <= Length[q]
        BY DEF TypeInv, TypeOK
      <4> QED
        BY <3>2, <3>3, <4>1, <4>2
    <3> QED
      <4>1. ListingOK' /\ skipped' \subseteq Entry
        BY <2>0, <2>9, <3>4 DEF Send, ListingOK, TypeInv, TypeOK
      <4> QED
        BY <2>0, <2>9, <4>1, ListingStep DEF Send
  <2>10. ASSUME NEW r \in Readers, WalkSkip(r)
         PROVE  TypeInv'
    <3>a. pos[r] \in Nat /\ Length[r] \in Nat
      BY WalkAssumption DEF TypeInv, TypeOK, Readers
    <3>1. pos[r] \in Nat /\ Length[r] \in Nat /\ <<r, pos[r] + 1>> \in Entry
      BY <3>a DEF Entry
    <3>2. pos' \in [Readers -> Nat] /\ \A q \in Readers : pos'[q] <= Length[q]
      <4>1. pos[r] + 1 \in Nat /\ pos[r] + 1 <= Length[r] /\ pos' = [pos EXCEPT ![r] = pos[r] + 1]
        BY <2>10, <3>1, Successor DEF WalkSkip, Walking
      <4>2. pos \in [Readers -> Nat] /\ \A q \in Readers : pos[q] <= Length[q]
        BY DEF TypeInv, TypeOK
      <4> QED
        BY <4>1, <4>2
    <3> QED
      <4>1. ListingOK' /\ skipped' \subseteq Entry
        BY <2>0, <2>10, <3>1, <3>2 DEF WalkSkip, ListingOK, TypeInv, TypeOK
      <4> QED
        BY <2>0, <2>10, <4>1, ListingStep DEF WalkSkip
  <2>11. ASSUME NEW r \in Readers, Stop(r)
         PROVE  TypeInv'
    <3>1. ListingOK' /\ skipped' \subseteq Entry
      BY <2>0, <2>11 DEF Stop, ListingOK, TypeInv, TypeOK
    <3> QED
      BY <2>0, <2>11, <3>1, ListingStep DEF Stop
  <2>12. CASE Signal
    BY <2>0, <2>12 DEF Signal, TypeInv, TypeOK, StageInv, listing, loop
  <2> QED
    BY <1>n, <1>u, StepCases, <2>1, <2>2, <2>3, <2>4, <2>5, <2>6, <2>7, <2>8, <2>9, <2>10,
       <2>11, <2>12
<1> QED
  BY <1>u, <1>n

\* Type correctness of the walk: no channel holds more than fits, no batch has more files
\* than the slice Read fills, and Close never looks past the last reader
\* (WalkReaders.TypeOK).
THEOREM TypeCorrect == Spec => []TypeOK
<1>1. Spec => []TypeInv
  BY TypeInit, TypeStep, PTL DEF Spec
<1> QED
  BY <1>1, PTL DEF TypeInv

\* WalkReaders.NothingForgotten: when the loop ends, however it does, it has worked on
\* every file it took out of a reader.
THEOREM NothingForgottenCorrect == Spec => []NothingForgotten
<1>1. Spec => []TypeInv
  BY TypeInit, TypeStep, PTL DEF Spec
<1>2. TypeInv => NothingForgotten
  BY ConcatEmptySeq, SequencesTyped DEF TypeInv, StageInv, NothingForgotten
<1> QED
  BY <1>1, <1>2, PTL

-----------------------------------------------------------------------------
(* What the channels hold and what was taken out of them.                  *)

\* A channel holds lines of the listing so far, in its order.
Channels ==
  \A r \in Readers :
    /\ \A i \in 1 .. Len(buf[r]) : buf[r][i] \in 1 .. pos[r]
    /\ \A i, j \in 1 .. Len(buf[r]) : i < j => buf[r][i] < buf[r][j]
    /\ lister[r] = "ended" => pos[r] = Length[r]
    /\ lister[r] = "failed" /\ Lists[r] = "command" => "command" \in setup.faults

\* The composite reader is done with r: nothing is in its channel or will be.
Passed(r)    == r < idx \/ (r = idx /\ current = 0)
Exhausted(r) == buf[r] = <<>> /\ Closed(r)
PassedInv    == \A r \in Readers : Passed(r) => Exhausted(r)

\* Files were taken in order, and come before all that is still in their channel.
TakenInv ==
  /\ \A i \in 1 .. Len(taken) : /\ taken[i][1] \in 1 .. idx
                                /\ taken[i][2] \in 1 .. pos[taken[i][1]]
  /\ \A i \in 1 .. Len(taken) : \A j \in 1 .. Len(buf[taken[i][1]]) :
       taken[i][2] < buf[taken[i][1]][j]
  /\ \A i, j \in 1 .. Len(taken) : i < j => Precedes(taken[i], taken[j])

Known(e)   == e \in ToSet(taken) \cup skipped
Waiting(e) == \E j \in 1 .. Len(buf[e[1]]) : buf[e[1]][j] = e[2]

\* Until a read fails every line of the listings so far was taken, was skipped or is
\* still in its channel.
Accounted ==
  readErr # "error" =>
    \A r \in Readers : \A k \in 1 .. pos[r] : Known(<<r, k>>) \/ Waiting(<<r, k>>)

\* No file was taken before one that precedes it, unless the listing failed.
Gapless ==
  \A i \in 1 .. Len(taken) : \A r \in Readers : \A k \in 1 .. Length[r] :
    Precedes(<<r, k>>, taken[i]) => Known(<<r, k>>) \/ lister[r] = "failed"

OrderInv == TypeInv /\ Channels /\ PassedInv /\ TakenInv /\ Accounted /\ Gapless

\* What Close has looked at: a loop that ends well looked at every reader.
ClosedInv ==
  /\ pc \notin {"close", "ended"} => closing = 1
  /\ pc # "ended" => result = "none"
  /\ ~setup.cached =>
      /\ pc = "close" => \A r \in Readers : r < closing => Closed(r) /\ ~CloseFails(r)
      /\ pc = "ended" /\ result = "ok" =>
           /\ \A r \in Readers : Closed(r) /\ ~CloseFails(r)
           /\ readErr \in {"eof", "canceled"}

\* A step that touches neither the channels nor what was taken out of them.
Aside == UNCHANGED <<setup, pos, lister, buf, taken, skipped>>

\* A file or a line that is passed over is taken out of the channel.
Drop ==
  /\ pc = "scan" /\ buf[current] # <<>> /\ Consume
  /\ UNCHANGED <<setup, pos, lister, taken, idx>>
  /\ \/ /\ skipped' = skipped \cup {<<current, Head(buf[current])>>}
        /\ readErr' = readErr /\ current' = current
     \/ readErr' = "error" /\ skipped' = skipped /\ current' = current

LEMMA Effects ==
  ASSUME TypeInv, [Next]_vars
  PROVE  Aside \/ TakeFile \/ Drop \/ \E r \in Readers : Send(r) \/ WalkSkip(r) \/ Stop(r)
<1>1. CASE UNCHANGED vars
  BY <1>1 DEF vars, Aside
<1>2. CASE Next
  <2>0. setup' = setup
    BY <1>2, StepCases
  <2>1. CASE BeginRead \/ Filled \/ LookForLine \/ AtEnd \/ Apply \/ CloseReader
    BY <2>0, <2>1 DEF BeginRead, Filled, LookForLine, AtEnd, Apply, CloseReader, listing, Aside
  <2>2. CASE CutShort \/ Signal
    BY <2>0, <2>2 DEF CutShort, Signal, listing, loop, Aside
  <2>3. CASE ScanSkip \/ ScanFails
    BY <2>0, <2>3 DEF ScanSkip, ScanFails, Scanned, Return, AfterReader, Drop
  <2> QED
    BY <1>1, <1>2, StepCases, <2>1, <2>2, <2>3
<1> QED
  BY <1>1, <1>2

\* What is in the channels after the first line of the current one was taken out.
LEMMA Consumed ==
  ASSUME TypeInv, current # 0, buf[current] # <<>>, Consume
  PROVE  /\ current \in Readers /\ Len(buf[current]) >= 1
         /\ Head(buf[current]) = buf[current][1]
         /\ \A r \in Readers :
              /\ Len(buf[r]) \in Nat
              /\ Len(buf'[r]) = IF r = current THEN Len(buf[r]) - 1 ELSE Len(buf[r])
              /\ \A i \in 1 .. Len(buf'[r]) :
                   buf'[r][i] = IF r = current THEN buf[r][i + 1] ELSE buf[r][i]
<1>1. \A r \in Readers : buf'[r] = IF r = current THEN Tail(buf[current]) ELSE buf[r]
  BY HeadTyped DEF Consume, TypeInv, TypeOK
<1>2. \A r \in Readers : Len(buf[r]) \in Nat
  BY LenProperties DEF TypeInv, TypeOK
<1>3. Len(buf[current]) >= 1
  BY HeadTyped, EmptySeq DEF TypeInv, TypeOK
<1>4. ASSUME NEW r \in Readers
      PROVE  /\ Len(buf'[r]) = IF r = current THEN Len(buf[r]) - 1 ELSE Len(buf[r])
             /\ \A i \in 1 .. Len(buf'[r]) :
                  buf'[r][i] = IF r = current THEN buf[r][i + 1] ELSE buf[r][i]
  <2>1. CASE r = current
    BY <1>1, <2>1, HeadTyped
  <2>2. CASE r # current
    BY <1>1, <2>2
  <2> QED
    BY <2>1, <2>2
<1> QED
  BY <1>2, <1>3, <1>4, HeadTyped

\* What is in the channels after a line was put into that of r.
LEMMA Sent ==
  ASSUME TypeInv, NEW r \in Readers, Send(r)
  PROVE  /\ pos[r] \in Nat /\ Len(buf'[r]) = Len(buf[r]) + 1 /\ pos'[r] = pos[r] + 1
         /\ buf'[r][Len(buf[r]) + 1] = pos[r] + 1
         /\ \A q \in Readers : /\ Len(buf[q]) \in Nat
                               /\ q # r => buf'[q] = buf[q] /\ pos'[q] = pos[q]
                               /\ \A i \in 1 .. Len(buf[q]) : buf'[q][i] = buf[q][i]
<1>1. pos[r] \in Nat /\ buf[r] \in Seq(Nat) /\ \A q \in Readers : Len(buf[q]) \in Nat
  BY LenProperties DEF TypeInv, TypeOK
<1>2. \A q \in Readers : /\ buf'[q] = IF q = r THEN Append(buf[r], pos[r] + 1) ELSE buf[q]
                         /\ pos'[q] = IF q = r THEN pos[r] + 1 ELSE pos[q]
  BY DEF Send, TypeInv, TypeOK
<1>3. /\ Len(Append(buf[r], pos[r] + 1)) = Len(buf[r]) + 1
      /\ Append(buf[r], pos[r] + 1)[Len(buf[r]) + 1] = pos[r] + 1
      /\ \A i \in 1 .. Len(buf[r]) : Append(buf[r], pos[r] + 1)[i] = buf[r][i]
  BY <1>1
<1> QED
  BY <1>1, <1>2, <1>3

\* The numbers of the walk.
LEMMA Numbers ==
  ASSUME TypeInv
  PROVE  /\ \A r \in Readers : /\ r \in Nat /\ pos[r] \in Nat /\ Length[r] \in Nat
                               /\ pos[r] <= Length[r] /\ Len(buf[r]) \in Nat
                               /\ \A i \in 1 .. Len(buf[r]) : buf[r][i] \in Nat
         /\ idx \in Nat /\ current \in Nat /\ Len(taken) \in Nat /\ N \in Nat
         /\ \A i \in 1 .. Len(taken) : taken[i] \in Entry /\ taken[i][1] \in Readers
                                       /\ taken[i][2] \in Nat
<1>1. \A r \in Readers : /\ r \in Nat /\ pos[r] \in Nat /\ Length[r] \in Nat
                         /\ pos[r] <= Length[r]
  BY WalkAssumption DEF TypeInv, TypeOK, Readers
<1>2. \A r \in Readers : Len(buf[r]) \in Nat /\ \A i \in 1 .. Len(buf[r]) : buf[r][i] \in Nat
  BY LenProperties, ElementOfSeq DEF TypeInv, TypeOK
<1>3. \A i \in 1 .. Len(taken) : taken[i] \in Entry
  BY SequencesTyped, ElementOfSeq
<1>4. idx \in Nat /\ current \in Nat /\ N \in Nat
  BY WalkAssumption DEF TypeInv, TypeOK
<1> QED
  BY <1>1, <1>2, <1>3, <1>4, SequencesTyped DEF Entry

LEMMA ChannelsStep == TypeInv /\ Channels /\ [Next]_vars => Channels'
<1> SUFFICES ASSUME TypeInv, Channels, [Next]_vars
             PROVE  Channels'
  OBVIOUS
<1>0. setup' = setup
  BY StepCases DEF vars
<1>1. CASE Aside
  BY <1>1 DEF Aside, Channels
<1>2. CASE TakeFile \/ Drop
  <2>1. current # 0 /\ buf[current] # <<>> /\ Consume /\ UNCHANGED <<pos, lister>>
    BY <1>2 DEF TakeFile, Drop, TypeInv, StageInv
  <2> SUFFICES ASSUME NEW r \in Readers
               PROVE  /\ \A i \in 1 .. Len(buf'[r]) : buf'[r][i] \in 1 .. pos[r]
                      /\ \A i, j \in 1 .. Len(buf'[r]) : i < j => buf'[r][i] < buf'[r][j]
    BY <1>0, <2>1 DEF Channels
  <2>2. CASE r = current
    <3>1. /\ Len(buf[r]) \in Nat /\ Len(buf'[r]) = Len(buf[r]) - 1
          /\ \A i \in 1 .. Len(buf'[r]) : buf'[r][i] = buf[r][i + 1]
      BY <2>1, <2>2, Consumed
    <3>2. \A i \in 1 .. Len(buf'[r]) : i + 1 \in 1 .. Len(buf[r])
      BY <3>1
    <3>3. \A i, j \in 1 .. Len(buf'[r]) : i < j => i + 1 < j + 1
      BY <3>1
    <3> QED
      BY <3>1, <3>2, <3>3 DEF Channels
  <2>3. CASE r # current
    BY <2>1, <2>3, Consumed DEF Channels
  <2> QED
    BY <2>2, <2>3
<1>3. ASSUME NEW r \in Readers, Send(r)
      PROVE  Channels'
  <2>1. lister' = lister /\ lister[r] = "running"
    BY <1>3 DEF Send
  <2>2. ASSUME NEW q \in Readers
        PROVE  /\ \A i \in 1 .. Len(buf'[q]) : buf'[q][i] \in 1 .. pos'[q]
               /\ \A i, j \in 1 .. Len(buf'[q]) : i < j => buf'[q][i] < buf'[q][j]
    <3>1. CASE q # r
      BY <1>3, <3>1, Sent DEF Channels
    <3>2. CASE q = r
      <4>1. /\ pos[r] \in Nat /\ Len(buf[r]) \in Nat /\ Len(buf'[r]) = Len(buf[r]) + 1
            /\ pos'[r] = pos[r] + 1 /\ buf'[r][Len(buf[r]) + 1] = pos[r] + 1
            /\ \A i \in 1 .. Len(buf[r]) : buf'[r][i] = buf[r][i]
        BY <1>3, Sent
      <4>2. \A i \in 1 .. Len(buf'[r]) : i \in 1 .. Len(buf[r]) \/ i = Len(buf[r]) + 1
        BY <4>1
      <4>3. \A i \in 1 .. Len(buf[r]) : buf'[r][i] \in 1 .. pos[r]
        BY <4>1 DEF Channels
      <4>4. ASSUME NEW i \in 1 .. Len(buf'[r])
            PROVE  buf'[r][i] \in 1 .. pos'[r]
        <5>1. CASE i \in 1 .. Len(buf[r])
          BY <4>1, <4>3, <5>1
        <5>2. CASE i = Len(buf[r]) + 1
          BY <4>1, <5>2
        <5> QED
          BY <4>2, <5>1, <5>2
      <4>5. ASSUME NEW i \in 1 .. Len(buf'[r]), NEW j \in 1 .. Len(buf'[r]), i < j
            PROVE  buf'[r][i] < buf'[r][j]
        <5>1. i \in 1 .. Len(buf[r])
          <6>1. i \in Nat /\ j \in Nat /\ 1 <= i /\ j <= Len(buf[r]) + 1
            BY <4>1, <4>5
          <6> QED
            BY <4>1, <4>5, <6>1
        <5>2. CASE j \in 1 .. Len(buf[r])
          BY <4>1, <4>5, <5>1, <5>2 DEF Channels
        <5>3. CASE j = Len(buf[r]) + 1
          BY <4>1, <4>3, <5>1, <5>3
        <5> QED
          BY <4>2, <5>2, <5>3
      <4> QED
        BY <3>2, <4>4, <4>5
    <3> QED
      BY <3>1, <3>2
  <2>3. \A q \in Readers : q # r => pos'[q] = pos[q]
    BY <1>3, Sent
  <2> QED
    BY <1>0, <2>1, <2>2, <2>3 DEF Channels
<1>4. ASSUME NEW r \in Readers, WalkSkip(r)
      PROVE  Channels'
  <2>1. lister' = lister /\ lister[r] = "running" /\ buf' = buf
    BY <1>4 DEF WalkSkip, Walking
  <2>2. \A q \in Readers : pos'[q] = IF q = r THEN pos[r] + 1 ELSE pos[q]
    BY <1>4 DEF WalkSkip, TypeInv, TypeOK
  <2>3. \A q \in Readers : \A i \in 1 .. Len(buf[q]) : buf[q][i] \in 1 .. pos'[q]
    <3>1. \A q \in Readers : pos[q] \in Nat /\ 1 .. pos[q] \subseteq 1 .. pos'[q]
      BY <2>2, Numbers
    <3> QED
      BY <3>1 DEF Channels
  <2> QED
    BY <1>0, <2>1, <2>2, <2>3 DEF Channels
<1>5. ASSUME NEW r \in Readers, Stop(r)
      PROVE  Channels'
  BY <1>0, <1>5 DEF Stop, Channels, TypeInv, TypeOK
<1> QED
  BY Effects, <1>1, <1>2, <1>3, <1>4, <1>5

LEMMA PassedStep == TypeInv /\ PassedInv /\ [Next]_vars => PassedInv'
<1> SUFFICES ASSUME TypeInv, PassedInv, [Next]_vars, NEW r \in Readers, Passed(r)'
             PROVE  Exhausted(r)'
  BY DEF PassedInv
<1>a. idx \in Nat /\ current \in {0, idx} /\ r \in Nat /\ r # 0
  BY Numbers DEF TypeInv, StageInv, Readers
<1>1. CASE UNCHANGED <<buf, lister, idx, current>>
  BY <1>1 DEF PassedInv, Passed, Exhausted, Closed
<1>2. CASE BeginRead
  <2>1. Passed(r)
    BY <1>2, <1>a DEF BeginRead, Passed
  <2> QED
    BY <1>2, <2>1 DEF BeginRead, PassedInv, Exhausted, Closed, listing
<1>3. CASE AtEnd
  <2>1. Passed(r) \/ r = current
    BY <1>3, <1>a DEF AtEnd, Return, Passed
  <2> QED
    BY <1>3, <2>1 DEF AtEnd, PassedInv, Exhausted, Closed, listing
<1>4. CASE Filled \/ LookForLine \/ CutShort \/ Apply \/ CloseReader \/ Signal \/ UNCHANGED vars
  BY <1>1, <1>4 DEF Filled, LookForLine, CutShort, Apply, CloseReader, Signal, Return, listing, loop, vars
<1>5. CASE TakeFile \/ Drop
  <2>1. current # 0 /\ buf[current] # <<>> /\ Consume /\ UNCHANGED <<lister, idx, current>>
    BY <1>5 DEF TakeFile, Drop, TypeInv, StageInv
  <2>2. r # current /\ Passed(r)
    BY <1>a, <2>1 DEF Passed
  <2>3. buf'[r] = buf[r]
    BY <2>1, <2>2 DEF Consume, TypeInv, TypeOK
  <2> QED
    BY <2>1, <2>2, <2>3 DEF PassedInv, Exhausted, Closed
<1>6. ASSUME NEW q \in Readers, Send(q) \/ WalkSkip(q) \/ Stop(q)
      PROVE  Exhausted(r)'
  <2>1. UNCHANGED <<idx, current>>
    BY <1>6 DEF Send, WalkSkip, Stop, loop
  <2>2. Exhausted(r)
    BY <2>1 DEF PassedInv, Passed
  <2>3. q # r
    BY <1>6, <2>2 DEF Send, WalkSkip, Stop, Walking, Exhausted, Closed
  <2>4. buf'[r] = buf[r] /\ lister'[r] = lister[r]
    BY <1>6, <2>3 DEF Send, WalkSkip, Stop, TypeInv, TypeOK
  <2> QED
    BY <2>2, <2>4 DEF Exhausted, Closed
<1>7. CASE ScanSkip \/ ScanFails
  BY <1>5, <1>7, StepCases DEF ScanSkip, ScanFails, Scanned, Return, AfterReader, Drop, vars
<1> QED
  BY StepCases, <1>2, <1>3, <1>4, <1>5, <1>6, <1>7

\* The file that TakeFile takes comes after all that were taken, and before what is
\* left in its channel.
LEMMA TakenNext ==
  ASSUME TypeInv, TakeFile, NEW e, e = <<current, Head(buf[current])>>
  PROVE  /\ current # 0 /\ current = idx /\ current \in Readers /\ buf[current] # <<>>
         /\ e \in Entry /\ e[1] = current /\ e[2] = buf[current][1]
         /\ Len(buf[current]) >= 1 /\ readErr = "nil"
         /\ Consume /\ UNCHANGED <<pos, lister, idx, skipped>>
         /\ Len(taken') = Len(taken) + 1 /\ taken'[Len(taken) + 1] = e
         /\ \A i \in 1 .. Len(taken) : taken'[i] = taken[i]
         /\ ToSet(taken') = ToSet(taken) \cup {e}
<1>1. current # 0 /\ current = idx /\ buf[current] # <<>> /\ readErr = "nil"
  BY DEF TakeFile, TypeInv, StageInv
<1>2. current \in Readers /\ e \in Entry /\ e[1] = current /\ e[2] = buf[current][1]
  BY <1>1, HeadTyped
<1>3. taken' = Append(taken, e) /\ taken \in Seq(Entry)
  BY SequencesTyped DEF TakeFile, Take
<1>4. /\ Len(taken') = Len(taken) + 1 /\ taken'[Len(taken) + 1] = e
      /\ \A i \in 1 .. Len(taken) : taken'[i] = taken[i]
  BY <1>2, <1>3, Appended
<1>5. ToSet(taken') = ToSet(taken) \cup {e}
  BY <1>2, <1>3, ElementsAppended
<1>6. Consume /\ UNCHANGED <<pos, lister, idx, skipped>>
  BY DEF TakeFile
<1> QED
  BY <1>1, <1>2, <1>4, <1>5, <1>6, Consumed

\* What a step knows it knew or learns, and a listing that is over is over.
LEMMA Remembered ==
  ASSUME TypeInv, [Next]_vars
  PROVE  /\ ToSet(taken) \subseteq ToSet(taken') /\ skipped \subseteq skipped'
         /\ \A r \in Readers : lister[r] # "running" => lister'[r] = lister[r]
         /\ idx <= idx' /\ idx' \in Nat
         /\ readErr = "error" => readErr' = "error"
<1>1. ToSet(taken) \subseteq ToSet(taken') /\ skipped \subseteq skipped'
  <2>1. CASE Aside
    BY <2>1 DEF Aside
  <2>2. CASE TakeFile
    BY <2>2, TakenNext
  <2>3. CASE Drop
    BY <2>3 DEF Drop
  <2>4. ASSUME NEW r \in Readers, Send(r) \/ WalkSkip(r) \/ Stop(r)
        PROVE  taken' = taken /\ skipped \subseteq skipped'
    BY <2>4 DEF Send, WalkSkip, Stop, loop
  <2> QED
    BY Effects, <2>1, <2>2, <2>3, <2>4
<1>2. ASSUME NEW r \in Readers, lister[r] # "running"
      PROVE  lister'[r] = lister[r]
  <2>1. CASE Aside \/ TakeFile \/ Drop
    BY <2>1 DEF Aside, TakeFile, Drop
  <2>2. ASSUME NEW q \in Readers, Send(q) \/ WalkSkip(q) \/ Stop(q)
        PROVE  lister'[r] = lister[r]
    BY <1>2, <2>2 DEF Send, WalkSkip, Stop, TypeInv, TypeOK
  <2> QED
    BY Effects, <2>1, <2>2
<1>3. idx <= idx' /\ idx' \in Nat /\ (readErr = "error" => readErr' = "error")
  <2>0. idx \in Nat
    BY Numbers
  <2>1. CASE BeginRead
    BY <2>0, <2>1 DEF BeginRead, TypeInv, StageInv
  <2>2. CASE Filled \/ LookForLine \/ AtEnd \/ CutShort \/ ScanSkip \/ ScanFails
    BY <2>0, <2>2
       DEF Filled, LookForLine, AtEnd, CutShort, ScanSkip, ScanFails, Scanned, TypeInv, StageInv
  <2>3. CASE TakeFile \/ Apply \/ CloseReader \/ Signal \/ UNCHANGED vars
    <3>1. idx' = idx /\ readErr' = readErr
      BY <2>3 DEF TakeFile, Apply, CloseReader, Signal, loop, vars
    <3> QED
      BY <2>0, <3>1
  <2>4. ASSUME NEW r \in Readers, Send(r) \/ WalkSkip(r) \/ Stop(r)
        PROVE  idx' = idx /\ readErr' = readErr
    BY <2>4 DEF Send, WalkSkip, Stop, loop
  <2> QED
    BY <2>0, StepCases, <2>1, <2>2, <2>3, <2>4
<1> QED
  BY <1>1, <1>2, <1>3

LEMMA TakenStep == TypeInv /\ Channels /\ TakenInv /\ [Next]_vars => TakenInv'
<1> SUFFICES ASSUME TypeInv, Channels, TakenInv, [Next]_vars
             PROVE  TakenInv'
  OBVIOUS
<1>0. idx \in Nat /\ idx' \in Nat /\ idx <= idx'
  BY Numbers, Remembered
<1>a. \A i \in 1 .. Len(taken) : taken[i][1] \in Readers /\ taken[i][2] \in Nat
  BY Numbers
<1>b. \A i \in 1 .. Len(taken) : taken[i][1] \in 1 .. idx'
  BY <1>0 DEF TakenInv
<1>1. CASE Aside
  BY <1>b, <1>1 DEF Aside, TakenInv
<1>2. CASE TakeFile
  <2> DEFINE e == <<current, Head(buf[current])>>
             n == Len(taken) + 1
  <2>1. /\ current # 0 /\ current = idx /\ current \in Readers /\ buf[current] # <<>>
        /\ e[1] = current /\ e[2] = buf[current][1] /\ Len(buf[current]) >= 1
        /\ Consume /\ UNCHANGED <<pos, idx>>
        /\ Len(taken') = n /\ taken'[n] = e /\ \A i \in 1 .. Len(taken) : taken'[i] = taken[i]
    BY <1>2, TakenNext
  <2>2. Len(taken) \in Nat /\ Len(buf[current]) \in Nat /\ n \in Nat
    BY <2>1, Numbers
  <2> HIDE DEF e, n
  <2>3. \A i \in 1 .. n : i \in 1 .. Len(taken) \/ i = n
    BY <2>2 DEF n
  <2>4. e[1] \in 1 .. idx /\ e[2] \in 1 .. pos[e[1]]
    BY <1>0, <2>1, <2>2, Numbers DEF Channels
  <2>5. \A i \in 1 .. n : taken'[i][1] \in 1 .. idx' /\ taken'[i][2] \in 1 .. pos'[taken'[i][1]]
    BY <2>1, <2>3, <2>4 DEF TakenInv
  <2>6. ASSUME NEW i \in 1 .. n, NEW j \in 1 .. Len(buf'[taken'[i][1]])
        PROVE  taken'[i][2] < buf'[taken'[i][1]][j]
    <3>1. CASE i \in 1 .. Len(taken)
      <4>1. taken'[i] = taken[i] /\ taken[i][1] \in Readers
        BY <1>a, <2>1, <3>1
      <4>2. \E k \in 1 .. Len(buf[taken[i][1]]) : buf'[taken[i][1]][j] = buf[taken[i][1]][k]
        <5>1. CASE taken[i][1] = current
          <6>1. Len(buf'[current]) = Len(buf[current]) - 1
            BY <2>1, Consumed
          <6>2. j + 1 \in 1 .. Len(buf[current])
            BY <2>2, <2>6, <4>1, <5>1, <6>1
          <6>3. j \in 1 .. Len(buf'[current])
            BY <2>6, <4>1, <5>1
          <6>4. buf'[current][j] = buf[current][j + 1]
            BY <2>1, <6>3, Consumed
          <6> QED
            BY <5>1, <6>2, <6>4
        <5>2. CASE taken[i][1] # current
          <6>1. /\ Len(buf'[taken[i][1]]) = Len(buf[taken[i][1]])
                /\ \A m \in 1 .. Len(buf'[taken[i][1]]) :
                     buf'[taken[i][1]][m] = buf[taken[i][1]][m]
            BY <2>1, <4>1, <5>2, Consumed
          <6> QED
            BY <2>6, <4>1, <6>1
        <5> QED
          BY <5>1, <5>2
      <4> QED
        BY <3>1, <4>1, <4>2 DEF TakenInv
    <3>2. CASE i = n
      <4>1. taken'[i][1] = current /\ taken'[i][2] = buf[current][1]
        BY <2>1, <3>2
      <4>2. j \in 1 .. Len(buf'[current]) /\ Len(buf'[current]) = Len(buf[current]) - 1
        BY <2>1, <2>6, <4>1, Consumed
      <4>3. buf'[current][j] = buf[current][j + 1]
        BY <2>1, <4>2, Consumed
      <4>4. 1 \in 1 .. Len(buf[current]) /\ j + 1 \in 1 .. Len(buf[current]) /\ 1 < j + 1
        BY <2>2, <4>2
      <4> QED
        BY <2>1, <4>1, <4>3, <4>4 DEF Channels
    <3> QED
      BY <2>3, <3>1, <3>2
  <2>7. ASSUME NEW i \in 1 .. n, NEW j \in 1 .. n, i < j
        PROVE  Precedes(taken'[i], taken'[j])
    <3>1. i \in 1 .. Len(taken)
      BY <2>2, <2>7 DEF n
    <3>2. CASE j \in 1 .. Len(taken)
      BY <2>1, <2>7, <3>1, <3>2 DEF TakenInv
    <3>3. CASE j = n
      <4>1. taken[i][1] \in 1 .. current
        BY <2>1, <3>1 DEF TakenInv
      <4>2. taken[i][1] = current => taken[i][2] < buf[current][1]
        BY <2>1, <2>2, <3>1 DEF TakenInv
      <4>3. taken'[i] = taken[i] /\ taken'[j][1] = current /\ taken'[j][2] = buf[current][1]
        BY <2>1, <3>1, <3>3
      <4> QED
        BY <1>0, <2>1, <4>1, <4>2, <4>3 DEF Precedes
    <3> QED
      BY <2>3, <3>2, <3>3
  <2> QED
    BY <2>1, <2>5, <2>6, <2>7 DEF TakenInv
<1>3. CASE Drop
  <2>1. current # 0 /\ buf[current] # <<>> /\ Consume /\ UNCHANGED <<pos, taken>>
    BY <1>3 DEF Drop, TypeInv, StageInv
  <2>2. ASSUME NEW i \in 1 .. Len(taken), NEW j \in 1 .. Len(buf'[taken[i][1]])
        PROVE  taken[i][2] < buf'[taken[i][1]][j]
    <3>1. CASE taken[i][1] = current
      <4>1. /\ Len(buf'[current]) = Len(buf[current]) - 1 /\ Len(buf[current]) \in Nat
            /\ \A k \in 1 .. Len(buf'[current]) : buf'[current][k] = buf[current][k + 1]
        BY <2>1, Consumed
      <4>2. j \in 1 .. Len(buf'[current]) /\ j + 1 \in 1 .. Len(buf[current])
        BY <2>2, <3>1, <4>1
      <4>3. taken[i][2] < buf[current][j + 1]
        BY <3>1, <4>2 DEF TakenInv
      <4> QED
        BY <3>1, <4>1, <4>2, <4>3
    <3>2. CASE taken[i][1] # current
      <4>1. buf'[taken[i][1]] = buf[taken[i][1]]
        BY <1>a, <2>1, <3>2 DEF Consume, TypeInv, TypeOK
      <4> QED
        BY <2>2, <4>1 DEF TakenInv
    <3> QED
      BY <3>1, <3>2
  <2> QED
    BY <1>b, <2>1, <2>2 DEF TakenInv
<1>4. ASSUME NEW r \in Readers, Send(r)
      PROVE  TakenInv'
  <2>1. taken' = taken
    BY <1>4 DEF Send, loop
  <2>2. ASSUME NEW i \in 1 .. Len(taken)
        PROVE  taken[i][2] \in 1 .. pos'[taken[i][1]]
    BY <1>4, <1>a, Sent DEF TakenInv
  <2>3. ASSUME NEW i \in 1 .. Len(taken), NEW j \in 1 .. Len(buf'[taken[i][1]])
        PROVE  taken[i][2] < buf'[taken[i][1]][j]
    <3>1. CASE taken[i][1] = r
      <4>1. /\ pos[r] \in Nat /\ Len(buf[r]) \in Nat /\ Len(buf'[r]) = Len(buf[r]) + 1
            /\ buf'[r][Len(buf[r]) + 1] = pos[r] + 1
            /\ \A k \in 1 .. Len(buf[r]) : buf'[r][k] = buf[r][k]
        BY <1>4, Sent
      <4>2. CASE j \in 1 .. Len(buf[r])
        BY <3>1, <4>1, <4>2 DEF TakenInv
      <4>3. CASE j = Len(buf[r]) + 1
        <5>1. taken[i][2] \in 1 .. pos[r]
          BY <3>1 DEF TakenInv
        <5> QED
          BY <3>1, <4>1, <4>3, <5>1
      <4>4. j \in 1 .. Len(buf[r]) \/ j = Len(buf[r]) + 1
        BY <2>3, <3>1, <4>1
      <4> QED
        BY <4>2, <4>3, <4>4
    <3>2. CASE taken[i][1] # r
      <4>1. buf'[taken[i][1]] = buf[taken[i][1]]
        BY <1>4, <1>a, <3>2, Sent
      <4> QED
        BY <2>3, <4>1 DEF TakenInv
    <3> QED
      BY <3>1, <3>2
  <2> QED
    BY <1>b, <2>1, <2>2, <2>3 DEF TakenInv
<1>5. ASSUME NEW r \in Readers, WalkSkip(r)
      PROVE  TakenInv'
  <2>1. taken' = taken /\ buf' = buf
    BY <1>5 DEF WalkSkip, loop
  <2>2. \A q \in Readers : pos'[q] = IF q = r THEN pos[r] + 1 ELSE pos[q]
    BY <1>5 DEF WalkSkip, TypeInv, TypeOK
  <2>3. \A q \in Readers : pos[q] <= pos'[q] /\ pos[q] \in Nat /\ pos'[q] \in Nat
    BY <2>2, Numbers
  <2>4. \A i \in 1 .. Len(taken) : taken[i][2] \in 1 .. pos'[taken[i][1]]
    BY <1>a, <2>3 DEF TakenInv
  <2> QED
    BY <1>b, <2>1, <2>4 DEF TakenInv
<1>6. ASSUME NEW r \in Readers, Stop(r)
      PROVE  TakenInv'
  BY <1>b, <1>6 DEF Stop, loop, TakenInv
<1> QED
  BY Effects, <1>1, <1>2, <1>3, <1>4, <1>5, <1>6

LEMMA AccountedStep == TypeInv /\ Channels /\ Accounted /\ [Next]_vars => Accounted'
<1> SUFFICES ASSUME TypeInv, Channels, Accounted, [Next]_vars, readErr' # "error",
                    NEW r \in Readers, NEW k \in 1 .. pos'[r]
             PROVE  Known(<<r, k>>)' \/ Waiting(<<r, k>>)'
  BY DEF Accounted
<1>0. \A q \in Readers : \A m \in 1 .. pos[q] : Known(<<q, m>>) \/ Waiting(<<q, m>>)
  BY Remembered DEF Accounted
<1>a. Known(<<r, k>>) => Known(<<r, k>>)'
  BY Remembered DEF Known
<1>b. pos[r] \in Nat /\ Len(buf[r]) \in Nat
  BY Numbers
<1>1. CASE Aside
  BY <1>0, <1>1 DEF Aside, Known, Waiting
<1>2. ASSUME current # 0, buf[current] # <<>>, Consume, UNCHANGED pos,
             <<current, Head(buf[current])>> \in ToSet(taken') \cup skipped'
      PROVE  Known(<<r, k>>)' \/ Waiting(<<r, k>>)'
  <2>1. CASE Known(<<r, k>>)
    BY <1>a, <2>1
  <2>2. CASE Waiting(<<r, k>>)
    <3>1. PICK j \in 1 .. Len(buf[r]) : buf[r][j] = k
      BY <2>2 DEF Waiting
    <3>2. CASE r # current
      <4>1. buf'[r] = buf[r]
        BY <1>2, <3>2 DEF Consume, TypeInv, TypeOK
      <4> QED
        BY <3>1, <4>1 DEF Waiting
    <3>3. CASE r = current
      <4>1. /\ Len(buf'[r]) = Len(buf[r]) - 1 /\ Head(buf[r]) = buf[r][1]
            /\ \A i \in 1 .. Len(buf'[r]) : buf'[r][i] = buf[r][i + 1]
        BY <1>2, <3>3, Consumed
      <4>2. CASE j = 1
        BY <1>2, <3>1, <3>3, <4>1, <4>2 DEF Known
      <4>3. CASE j # 1
        <5>1. j - 1 \in 1 .. Len(buf'[r]) /\ (j - 1) + 1 = j
          BY <1>b, <3>1, <4>1, <4>3
        <5>2. buf'[r][j - 1] = k
          BY <3>1, <4>1, <5>1
        <5> QED
          BY <5>1, <5>2 DEF Waiting
      <4> QED
        BY <4>2, <4>3
    <3> QED
      BY <3>2, <3>3
  <2> QED
    BY <1>0, <1>2, <2>1, <2>2
<1>3. CASE TakeFile
  <2>1. <<current, Head(buf[current])>> \in ToSet(taken')
    BY <1>3, TakenNext
  <2> QED
    BY <1>2, <1>3, <2>1, TakenNext
<1>4. CASE Drop
  BY <1>2, <1>4 DEF Drop, TypeInv, StageInv
<1>5. ASSUME NEW q \in Readers, Send(q)
      PROVE  Known(<<r, k>>)' \/ Waiting(<<r, k>>)'
  <2>1. CASE k \in 1 .. pos[r]
    <3>1. Len(buf'[r]) \in Nat /\ Len(buf[r]) <= Len(buf'[r])
      BY <1>5, <1>b, Sent
    <3>2. \A i \in 1 .. Len(buf[r]) : i \in 1 .. Len(buf'[r]) /\ buf'[r][i] = buf[r][i]
      BY <1>5, <1>b, <3>1, Sent
    <3>3. CASE Known(<<r, k>>)
      BY <1>0, <1>a, <3>3
    <3>4. CASE Waiting(<<r, k>>)
      BY <3>2, <3>4 DEF Waiting
    <3> QED
      BY <1>0, <2>1, <3>3, <3>4
  <2>2. CASE k \notin 1 .. pos[r]
    <3>1. q = r
      BY <1>5, <2>2, Sent
    <3>2. k = pos[r] + 1
      BY <1>5, <1>b, <2>2, <3>1, Sent
    <3>3. Len(buf[r]) + 1 \in 1 .. Len(buf'[r]) /\ buf'[r][Len(buf[r]) + 1] = k
      BY <1>5, <1>b, <3>1, <3>2, Sent
    <3> QED
      BY <3>3 DEF Waiting
  <2> QED
    BY <2>1, <2>2
<1>6. ASSUME NEW q \in Readers, WalkSkip(q)
      PROVE  Known(<<r, k>>)' \/ Waiting(<<r, k>>)'
  <2>1. /\ pos'[r] = IF r = q THEN pos[r] + 1 ELSE pos[r]
        /\ skipped' = skipped \cup {<<q, pos[q] + 1>>} /\ buf' = buf
    BY <1>6 DEF WalkSkip, TypeInv, TypeOK
  <2>2. k \in 1 .. pos[r] \/ (r = q /\ k = pos[q] + 1)
    BY <1>b, <2>1
  <2> QED
    BY <1>0, <1>a, <2>1, <2>2 DEF Known, Waiting
<1>7. ASSUME NEW q \in Readers, Stop(q)
      PROVE  Known(<<r, k>>)' \/ Waiting(<<r, k>>)'
  <2>1. pos' = pos /\ buf' = buf
    BY <1>7 DEF Stop
  <2> QED
    BY <1>0, <1>a, <2>1 DEF Waiting
<1> QED
  BY Effects, <1>1, <1>3, <1>4, <1>5, <1>6, <1>7

LEMMA GaplessStep == OrderInv /\ [Next]_vars => Gapless'
<1> SUFFICES ASSUME OrderInv, [Next]_vars, NEW i \in 1 .. Len(taken'), NEW r \in Readers,
                    NEW k \in 1 .. Length[r], Precedes(<<r, k>>, taken'[i])
             PROVE  Known(<<r, k>>)' \/ lister'[r] = "failed"
  BY DEF Gapless
<1>0. TypeInv
  BY DEF OrderInv
<1>a. ASSUME Known(<<r, k>>) \/ lister[r] = "failed"
      PROVE  Known(<<r, k>>)' \/ lister'[r] = "failed"
  BY <1>0, <1>a, Remembered DEF Known
<1>1. CASE taken' = taken
  BY <1>1, <1>a DEF OrderInv, Gapless
<1>2. CASE TakeFile
  <2> DEFINE e == <<current, Head(buf[current])>>
             n == Len(taken) + 1
  <2>1. /\ current = idx /\ current \in Readers /\ e[1] = current /\ e[2] = buf[current][1]
        /\ Len(buf[current]) >= 1 /\ readErr = "nil"
        /\ Len(taken') = n /\ taken'[n] = e /\ \A j \in 1 .. Len(taken) : taken'[j] = taken[j]
    BY <1>0, <1>2, TakenNext
  <2>2. Len(taken) \in Nat /\ Len(buf[current]) \in Nat
    BY <1>0, <2>1, Numbers
  <2> HIDE DEF e
  <2>3. CASE i \in 1 .. Len(taken)
    BY <1>a, <2>1, <2>3 DEF OrderInv, Gapless
  <2>4. CASE i = n
    <3>1. r < current \/ (r = current /\ k < buf[current][1])
      BY <2>1, <2>4 DEF Precedes
    <3>2. k \in 1 .. pos[r] => Known(<<r, k>>) \/ Waiting(<<r, k>>)
      BY <2>1 DEF OrderInv, Accounted
    <3>3. CASE r < current
      <4>1. buf[r] = <<>> /\ lister[r] \in {"ended", "failed"}
        BY <1>0, <2>1, <3>3 DEF OrderInv, PassedInv, Passed, Exhausted, Closed, TypeInv, TypeOK
      <4>2. ~Waiting(<<r, k>>)
        BY <4>1 DEF Waiting
      <4>3. lister[r] = "ended" => pos[r] = Length[r]
        BY DEF OrderInv, Channels
      <4> QED
        BY <1>a, <3>2, <4>1, <4>2, <4>3
    <3>4. CASE r = current /\ k < buf[current][1]
      <4>1. 1 \in 1 .. Len(buf[r]) /\ buf[r][1] \in 1 .. pos[r] /\ pos[r] \in Nat
        BY <1>0, <2>1, <2>2, <3>4, Numbers DEF OrderInv, Channels
      <4>2. k \in 1 .. pos[r]
        BY <3>4, <4>1
      <4>3. ASSUME NEW j \in 1 .. Len(buf[r])
            PROVE  buf[r][1] <= buf[r][j]
        <5>1. j = 1 \/ 1 < j
          OBVIOUS
        <5>2. buf[r][j] \in Nat /\ buf[r][1] \in Nat
          BY <1>0, <4>1, Numbers
        <5>3. 1 < j => buf[r][1] < buf[r][j]
          BY <4>1 DEF OrderInv, Channels
        <5>4. CASE j = 1
          BY <5>2, <5>4
        <5>5. CASE 1 < j
          BY <5>2, <5>3, <5>5
        <5> QED
          BY <5>1, <5>4, <5>5
      <4>4. ~Waiting(<<r, k>>)
        <5>1. \A j \in 1 .. Len(buf[r]) : buf[r][j] # k
          <6>1. \A j \in 1 .. Len(buf[r]) : buf[r][j] \in Nat
            BY <1>0, Numbers
          <6> QED
            BY <3>4, <4>1, <4>3, <6>1
        <5> QED
          BY <5>1 DEF Waiting
      <4> QED
        BY <1>a, <3>2, <4>2, <4>4
    <3> QED
      BY <3>1, <3>3, <3>4
  <2> QED
    BY <2>1, <2>2, <2>3, <2>4
<1>3. CASE Aside \/ Drop
  BY <1>1, <1>3 DEF Aside, Drop
<1>4. ASSUME NEW q \in Readers, Send(q) \/ WalkSkip(q) \/ Stop(q)
      PROVE  taken' = taken
  BY <1>4 DEF Send, WalkSkip, Stop, loop
<1> QED
  BY <1>0, Effects, <1>1, <1>2, <1>3, <1>4

LEMMA OrderInit == Init => OrderInv
<1> SUFFICES ASSUME Init
             PROVE  OrderInv
  OBVIOUS
<1>1. /\ \A r \in Readers : Len(buf[r]) = 0 /\ pos[r] = 0 /\ lister[r] = "running"
      /\ Len(taken) = 0 /\ idx = 0
  BY DEF Init
<1>2. \A r \in Readers : ~Passed(r)
  BY <1>1, WalkAssumption DEF Passed, Readers
<1> QED
  BY <1>1, <1>2, TypeInit
     DEF OrderInv, Channels, PassedInv, TakenInv, Accounted, Gapless

LEMMA OrderStep == OrderInv /\ [Next]_vars => OrderInv'
  BY TypeStep, ChannelsStep, PassedStep, TakenStep, AccountedStep, GaplessStep DEF OrderInv

\* What was worked on is the beginning of what was taken.
LEMMA AppliedTaken ==
  ASSUME TypeInv
  PROVE  /\ Len(applied) <= Len(taken)
         /\ \A i \in 1 .. Len(applied) : applied[i] = taken[i]
<1>1. taken = applied \o batch
  BY DEF TypeInv, StageInv
<1> QED
  BY <1>1, SequencesTyped, ConcatProperties

\* WalkReaders.DeliveredInOrder: the loop works on files in the order of the listings,
\* each once, and passes none over that is there, unless that listing failed.
THEOREM OrderCorrect == Spec => []DeliveredInOrder
<1>1. OrderInv => DeliveredInOrder
  <2> SUFFICES ASSUME OrderInv
               PROVE  DeliveredInOrder
    OBVIOUS
  <2>0. TypeInv
    BY DEF OrderInv
  <2>a. /\ Len(applied) \in Nat /\ Len(taken) \in Nat /\ Len(applied) <= Len(taken)
        /\ \A i \in 1 .. Len(applied) : i \in 1 .. Len(taken) /\ applied[i] = taken[i]
    BY <2>0, AppliedTaken, SequencesTyped
  <2>1. \A i, j \in 1 .. Len(applied) : i < j => Precedes(applied[i], applied[j])
    BY <2>a DEF OrderInv, TakenInv
  <2>2. ASSUME NEW i \in 1 .. Len(applied), NEW r \in Readers, NEW k \in 1 .. Length[r],
               Precedes(<<r, k>>, applied[i]), lister[r] # "failed", <<r, k>> \notin skipped
        PROVE  <<r, k>> \in ToSet(applied)
    <3>1. Precedes(<<r, k>>, taken[i]) /\ i \in 1 .. Len(taken)
      BY <2>2, <2>a
    <3>2. <<r, k>> \in ToSet(taken)
      BY <2>2, <3>1 DEF OrderInv, Gapless, Known
    <3>3. PICK j \in 1 .. Len(taken) : taken[j] = <<r, k>>
      <4>1. ToSet(taken) = {taken[m] : m \in 1 .. Len(taken)}
        BY <2>0, SequencesTyped, Elements
      <4> QED
        BY <3>2, <4>1
    <3>4. j < i
      <4>1. j = i \/ i < j => ~Precedes(taken[j], taken[i])
        <5>1. i < j => Precedes(taken[i], taken[j])
          BY <3>1 DEF OrderInv, TakenInv
        <5>2. /\ taken[i][1] \in Nat /\ taken[i][2] \in Nat
              /\ taken[j][1] \in Nat /\ taken[j][2] \in Nat
          BY <2>0, <3>1, Numbers DEF Readers
        <5> QED
          BY <5>1, <5>2 DEF Precedes
      <4> QED
        BY <2>a, <3>1, <3>3, <4>1
    <3>5. j \in 1 .. Len(applied)
      BY <2>a, <3>4
    <3>6. ToSet(applied) = {applied[m] : m \in 1 .. Len(applied)}
      BY <2>0, SequencesTyped, Elements
    <3> QED
      BY <2>a, <3>3, <3>5, <3>6
  <2> QED
    BY <2>1, <2>2 DEF DeliveredInOrder
<1> QED
  BY <1>1, OrderInit, OrderStep, PTL DEF Spec

LEMMA ClosedStep == TypeInv /\ ClosedInv /\ [Next]_vars => ClosedInv'
<1> SUFFICES ASSUME TypeInv, ClosedInv, [Next]_vars
             PROVE  ClosedInv'
  OBVIOUS
<1>s. setup' = setup
  BY StepCases DEF vars
<1>a. \A r \in Readers : Closed(r) /\ ~CloseFails(r) => Closed(r)' /\ ~CloseFails(r)'
  BY Remembered DEF Closed, CloseFails
<1>b. closing \in Int /\ \A r \in Readers : r \in 1 .. N
  BY WalkAssumption DEF TypeInv, TypeOK, Readers
<1>1. CASE UNCHANGED <<pc, closing, result, readErr>>
  BY <1>1, <1>a, <1>s DEF ClosedInv
<1>2. CASE /\ {pc, pc'} \subseteq {"read", "fill", "wait", "scan", "apply"}
           /\ closing' = closing /\ result' = result
  BY <1>2 DEF ClosedInv
<1>3. CASE Apply
  <2>1. pc' \in {"close", "read"} /\ closing' = 1 /\ result' = "none"
    BY <1>3 DEF Apply, ClosedInv
  <2> QED
    BY <1>b, <2>1 DEF ClosedInv
<1>c. CASE CloseReader /\ setup.cached
  <2>1. pc = "close" /\ pc' \in {"close", "ended"} /\ (pc' # "ended" => result' = "none")
    BY <1>c DEF CloseReader, ClosedInv
  <2> QED
    BY <1>c, <1>s, <2>1 DEF ClosedInv
<1>4. CASE CloseReader /\ ~setup.cached
  <2>1. /\ pc = "close" /\ closing \in Readers /\ closing' = closing + 1 /\ readErr' = readErr
        /\ lister[closing] # "running"
    BY <1>4 DEF CloseReader, TypeInv, StageInv, Readers
  <2>2. \A r \in Readers : r < closing' => r < closing \/ r = closing
    BY <1>b, <2>1
  <2>3. CASE pc' = "close"
    <3>1. ~CloseFails(closing)
      BY <1>4, <2>1, <2>3 DEF CloseReader
    <3>2. result' = "none"
      BY <1>4, <2>1, <2>3 DEF CloseReader, ClosedInv
    <3> QED
      BY <1>a, <1>s, <2>1, <2>2, <2>3, <3>1, <3>2 DEF ClosedInv, Closed
  <2>4. CASE pc' = "ended" /\ result' = "ok"
    <3>1. ~CloseFails(closing) /\ closing = N /\ ~applyErr /\ readErr \notin {"timeout", "error"}
      BY <1>4, <2>1, <2>4 DEF CloseReader, Outcome
    <3>2. readErr \in {"eof", "canceled"}
      BY <2>1, <3>1 DEF TypeInv, TypeOK, StageInv
    <3>3. \A r \in Readers : r < closing \/ r = closing
      BY <1>b, <3>1
    <3> QED
      BY <1>a, <1>s, <2>1, <2>4, <3>1, <3>2, <3>3 DEF ClosedInv, Closed
  <2>6. CASE pc' = "ended" /\ result' # "ok"
    BY <2>6 DEF ClosedInv
  <2>5. pc' \in {"close", "ended"}
    BY <1>4, <2>1 DEF CloseReader
  <2> QED
    BY <2>3, <2>4, <2>5, <2>6
<1>5. CASE BeginRead \/ Filled \/ TakeFile \/ LookForLine \/ ScanSkip \/ ScanFails \/ AtEnd \/ CutShort
  BY <1>2, <1>5
     DEF BeginRead, Filled, TakeFile, LookForLine, ScanSkip, ScanFails, Scanned, AtEnd, CutShort, Return
<1>6. ASSUME NEW r \in Readers, Send(r) \/ WalkSkip(r) \/ Stop(r)
      PROVE  UNCHANGED <<pc, closing, result, readErr>>
  BY <1>6 DEF Send, WalkSkip, Stop, loop
<1>7. CASE Signal \/ UNCHANGED vars
  BY <1>1, <1>7 DEF Signal, loop, vars
<1> QED
  BY StepCases, <1>1, <1>3, <1>c, <1>4, <1>5, <1>6, <1>7

\* WalkReaders.CompleteOrReported: without a signal a walk that ends well worked on, or
\* passed over, every entry of every listing; only the error of a listing command and
\* those behind the caching reader get lost.
THEOREM CompleteCorrect == Spec => []CompleteOrReported
<1>1. Init => ClosedInv
  BY DEF Init, ClosedInv
<1>2. ASSUME OrderInv, ClosedInv
      PROVE  CompleteOrReported
  <2> SUFFICES ASSUME result = "ok", ~cancelled, ~setup.cached, "command" \notin setup.faults,
                      pc = "ended", NEW r \in Readers, NEW k \in 1 .. Length[r]
               PROVE  <<r, k>> \in ToSet(applied) \cup skipped
    BY <1>2 DEF ClosedInv, CompleteOrReported, AllListed
  <2>0. TypeInv
    BY <1>2 DEF OrderInv
  <2>1. Closed(r) /\ ~CloseFails(r) /\ readErr = "eof"
    BY <1>2, <2>0 DEF ClosedInv, TypeInv, StageInv
  <2>2. Lists[r] \in {"walk", "command"} /\ lister[r] \in {"running", "ended", "failed"}
    BY <2>0, WalkAssumption DEF Readers, TypeInv, TypeOK
  <2>3. lister[r] = "ended" /\ pos[r] = Length[r]
    BY <1>2, <2>1, <2>2 DEF Closed, CloseFails, OrderInv, Channels
  <2>4. Known(<<r, k>>) \/ Waiting(<<r, k>>)
    BY <1>2, <2>1, <2>3 DEF OrderInv, Accounted
  <2>5. buf[r] = <<>>
    <3>1. idx = N /\ current = 0 /\ r \in 1 .. N /\ N \in Nat
      BY <2>0, <2>1, WalkAssumption DEF TypeInv, StageInv, Readers
    <3>2. Passed(r)
      BY <3>1 DEF Passed
    <3> QED
      BY <1>2, <3>2 DEF OrderInv, PassedInv, Exhausted
  <2>6. Known(<<r, k>>)
    BY <2>4, <2>5 DEF Waiting
  <2>7. applied = taken
    BY <2>0, ConcatEmptySeq, SequencesTyped DEF TypeInv, StageInv
  <2> QED
    BY <2>6, <2>7 DEF Known
<1>3. OrderInv /\ ClosedInv /\ [Next]_vars => ClosedInv'
  BY ClosedStep DEF OrderInv
<1> QED
  BY <1>1, <1>2, <1>3, OrderInit, OrderStep, PTL DEF Spec

==============================================================================
