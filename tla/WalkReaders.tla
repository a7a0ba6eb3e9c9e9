----------------------------- MODULE WalkReaders -----------------------------
(***************************************************************************)
(* Walking the tree: one reader per path, each fed by a goroutine that lists *)
(* files (filepath.Walk into a channel, or git ls-files / jj file list into  *)
(* an unbuffered pipe), optionally wrapped by the caching reader; a          *)
(* composite reader that reads them one after the other; and the loop that   *)
(* reads batches, works on them and closes the walker (walk/walk.go,         *)
(* filesystem.go, git.go, jujutsu.go, cached.go, and the loops of cmd/format *)
(* and cmd/check).                                                           *)
(*                                                                         *)
(* Entry i of reader r is what the i-th line of the listing, or step of the  *)
(* walk, names.  What is found there is only known when it is looked at.     *)
(***************************************************************************)
EXTENDS Integers, Sequences, SequencesExt

CONSTANTS
  N,          \* how many readers: one per path
  Length,     \* Length[r]: how many entries reader r lists
  Lists,      \* Lists[r]: "walk" (FilesystemReader) or "command" (git, jj)
  BatchSize,  \* length of the slice Read fills
  Setups      \* the circumstances in which the loop may run

Findings == {"file", "skip", "gone", "bad"}

\* capacity: files that fit in filesCh, lines that fit in the scanner's buffer;
\* cached: the readers are wrapped by CachedReader; mode: whose loop it is; found:
\* what may be found at an entry; faults: what may go wrong.
Setup == [capacity : Nat \ {0}, cached : BOOLEAN, mode : {"format", "repair", "check"},
          found : SUBSET Findings, faults : SUBSET {"signal", "timeout", "apply", "command"}]

ASSUME WalkAssumption ==
  /\ N \in Nat \ {0} /\ BatchSize \in Nat \ {0}
  /\ Length \in [1 .. N -> Nat] /\ Lists \in [1 .. N -> {"walk", "command"}]
  /\ \A s \in Setups : s \in Setup /\ "file" \in s.found /\ (s.mode # "format" => ~s.cached)

Readers == 1 .. N

VARIABLES
  setup,     \* the circumstances of this run
  pos,       \* pos[r]: entries the goroutine of r has handed over or passed over
  lister,    \* lister[r]: "running", "ended" or "failed"
  buf,       \* buf[r]: filesCh, or the lines the scanner has read ahead
  skipped,   \* history: entries that are no file to format
  pc,        \* where the loop is
  idx,       \* readers the composite reader has started
  current,   \* the reader it is reading, 0 if none
  batch,     \* files of this Read
  taken,     \* history: files Read was given, in order
  applied,   \* history: files the loop worked on, in order
  readErr,   \* what Read returned last
  applyErr,  \* the work on a batch failed
  closing,   \* the reader Close is waiting for
  cancelled, \* the context was cancelled by a signal
  result     \* what the loop's function returns

listing == <<pos, lister, buf>>
loop    == <<pc, idx, current, batch, taken, applied, readErr, applyErr, closing, result>>
vars    == <<setup, pos, lister, buf, skipped, pc, idx, current, batch, taken, applied, readErr,
             applyErr, closing, cancelled, result>>

Init ==
  /\ setup \in Setups
  /\ pos = [r \in Readers |-> 0] /\ lister = [r \in Readers |-> "running"]
  /\ buf = [r \in Readers |-> <<>>]
  /\ skipped = {}
  /\ pc = "read" /\ idx = 0 /\ current = 0 /\ batch = <<>> /\ taken = <<>> /\ applied = <<>>
  /\ readErr = "nil" /\ applyErr = FALSE /\ closing = 1 /\ result = "none"
  /\ cancelled = FALSE

-----------------------------------------------------------------------------
(* The goroutines.                                                         *)

\* Mutant: room for one too many.
OneTooMany(r) == Len(buf[r]) <= setup.capacity

HasRoom(r) == Len(buf[r]) < setup.capacity

Walking(r) == Lists[r] = "walk" /\ lister[r] = "running" /\ pos[r] < Length[r]

\* One step of filepath.Walk finds a file: it is sent on filesCh once there is room.
WalkFile(r) ==
  /\ Walking(r) /\ HasRoom(r)
  /\ buf' = [buf EXCEPT ![r] = Append(@, pos[r] + 1)]
  /\ pos' = [pos EXCEPT ![r] = @ + 1]
  /\ UNCHANGED <<lister, skipped, loop, cancelled>>

\* Directories and symlinks are passed over.
WalkSkip(r) ==
  /\ Walking(r) /\ "skip" \in setup.found
  /\ skipped' = skipped \cup {<<r, pos[r] + 1>>}
  /\ pos' = [pos EXCEPT ![r] = @ + 1]
  /\ UNCHANGED <<lister, buf, loop, cancelled>>

\* What cannot be stat'ed, a file removed meanwhile included, ends the walk.
WalkFails(r) ==
  /\ Walking(r) /\ {"gone", "bad"} \cap setup.found # {}
  /\ lister' = [lister EXCEPT ![r] = "failed"]
  /\ UNCHANGED <<pos, buf, skipped, loop, cancelled>>

Asked(r) == pc = "wait" /\ current = r

\* The command writes a line.  io.Pipe holds nothing: the line goes straight to a
\* scanner that waits for input, which takes as many as it is given and has room for.
CommandStep(r) ==
  /\ Lists[r] = "command" /\ lister[r] = "running" /\ pos[r] < Length[r]
  /\ Asked(r) /\ HasRoom(r)
  /\ buf' = [buf EXCEPT ![r] = Append(@, pos[r] + 1)]
  /\ pos' = [pos EXCEPT ![r] = @ + 1]
  /\ UNCHANGED <<lister, skipped, loop, cancelled>>

\* process closes filesCh; cmd.Run returns, all output having been read, and the
\* pipe is closed.
ListerEnds(r) ==
  /\ lister[r] = "running" /\ pos[r] = Length[r]
  /\ lister' = [lister EXCEPT ![r] = "ended"]
  /\ UNCHANGED <<pos, buf, skipped, loop, cancelled>>

\* The command exits with an error before it listed everything.
CommandFails(r) ==
  /\ Lists[r] = "command" /\ lister[r] = "running" /\ "command" \in setup.faults
  /\ lister' = [lister EXCEPT ![r] = "failed"]
  /\ UNCHANGED <<pos, buf, skipped, loop, cancelled>>

\* filesCh or the pipe is closed.
Closed(r) == lister[r] # "running"

-----------------------------------------------------------------------------
(* Read.                                                                   *)

\* Mutant: a reader that reached its end ends the whole walk.
EndOfAll(err) == err

\* CompositeReader.Read: the end of one reader is no end, the next call goes on
\* with the next reader.
AfterReader(err) == IF err = "eof" THEN "nil" ELSE err

Return(err) ==
  /\ readErr' = AfterReader(err)
  /\ current' = IF err = "eof" THEN 0 ELSE current
  /\ pc' = "apply"

BeginRead ==
  /\ pc = "read"
  /\ IF current = 0 /\ idx = N
     THEN /\ readErr' = "eof" /\ pc' = "apply"
          /\ UNCHANGED <<current, idx>>
     ELSE /\ pc' = "fill"
          /\ IF current = 0 THEN current' = idx + 1 /\ idx' = idx + 1
                            ELSE UNCHANGED <<current, idx>>
          /\ UNCHANGED readErr
  /\ UNCHANGED <<listing, skipped, batch, taken, applied, applyErr, closing, cancelled, result>>

\* The slice is full.
Filled ==
  /\ pc = "fill" /\ Len(batch) = BatchSize
  /\ Return("nil")
  /\ UNCHANGED <<listing, skipped, idx, batch, taken, applied, applyErr, closing, cancelled,
                 result>>

Take ==
  /\ batch' = Append(batch, <<current, Head(buf[current])>>)
  /\ taken' = Append(taken, <<current, Head(buf[current])>>)

\* Mutant: the same line again.
Reread == UNCHANGED buf

Consume == buf' = [buf EXCEPT ![current] = Tail(@)]

\* FilesystemReader.Read: a file from the channel.
Receive ==
  /\ pc = "fill" /\ Lists[current] = "walk" /\ Len(batch) < BatchSize
  /\ buf[current] # <<>>
  /\ Take /\ Consume
  /\ UNCHANGED <<pos, lister, skipped, pc, idx, current, applied, readErr, applyErr, closing,
                 cancelled, result>>

\* Git and jj: scanner.Scan takes a line it has read ahead, or reads the pipe.
Scan ==
  /\ pc = "fill" /\ Lists[current] = "command" /\ Len(batch) < BatchSize /\ ~cancelled
  /\ pc' = IF buf[current] = <<>> THEN "wait" ELSE "scan"
  /\ UNCHANGED <<listing, skipped, idx, current, batch, taken, applied, readErr, applyErr,
                 closing, cancelled, result>>

\* It blocks until the pipe gives something, whatever the context.
Wake ==
  /\ pc = "wait" /\ buf[current] # <<>>
  /\ pc' = "scan"
  /\ UNCHANGED <<listing, skipped, idx, current, batch, taken, applied, readErr, applyErr,
                 closing, cancelled, result>>

Scanned == pc = "scan" /\ buf[current] # <<>>

\* The line is looked at: a file.
ScanFile ==
  /\ Scanned
  /\ Take /\ Consume /\ pc' = "fill"
  /\ UNCHANGED <<pos, lister, skipped, idx, current, applied, readErr, applyErr, closing,
                 cancelled, result>>

\* Submodules, symlinks and files that are gone are passed over.
ScanSkip ==
  /\ Scanned /\ {"skip", "gone"} \cap setup.found # {}
  /\ Consume /\ pc' = "fill"
  /\ skipped' = skipped \cup {<<current, Head(buf[current])>>}
  /\ UNCHANGED <<pos, lister, idx, current, batch, taken, applied, readErr, applyErr, closing,
                 cancelled, result>>

\* A line that cannot be unquoted or a file that cannot be stat'ed ends the read.
ScanFails ==
  /\ Scanned /\ "bad" \in setup.found
  /\ Consume /\ Return("error")
  /\ UNCHANGED <<pos, lister, skipped, idx, batch, taken, applied, applyErr, closing, cancelled,
                 result>>

\* Mutant: the end is not noticed when nothing was read.
NeverAtEnd ==
  /\ pc \in {"fill", "wait"} /\ batch # <<>> /\ buf[current] = <<>> /\ Closed(current)
  /\ Return("eof")
  /\ UNCHANGED <<listing, skipped, idx, batch, taken, applied, applyErr, closing, cancelled,
                 result>>

\* The channel is closed and empty, or the scanner has no more lines.
AtEnd ==
  /\ \/ pc = "fill" /\ Lists[current] = "walk" /\ Len(batch) < BatchSize
     \/ pc = "wait"
  /\ buf[current] = <<>> /\ Closed(current)
  /\ Return("eof")
  /\ UNCHANGED <<listing, skipped, idx, batch, taken, applied, applyErr, closing, cancelled,
                 result>>

\* Mutant: a read that was cut short returns no files.
Nothing == <<>>

\* What a read that was cut short hands over: the files it has.
SoFar == batch

\* The context of this Read is done: cancelled, or ten seconds have passed.
CutShort ==
  /\ pc = "fill" /\ Len(batch) < BatchSize
  /\ \/ cancelled /\ Return("canceled")
     \/ "timeout" \in setup.faults /\ Return("timeout")
  /\ batch' = SoFar
  /\ UNCHANGED <<listing, skipped, idx, taken, applied, applyErr, closing, cancelled, result>>

-----------------------------------------------------------------------------
(* The loop.                                                               *)

\* Work on the files that were read, then look at the read error.
Apply ==
  /\ pc = "apply"
  /\ \E fails \in BOOLEAN :
       /\ fails => ("apply" \in setup.faults \/ cancelled) /\ batch # <<>>
       /\ applyErr' = fails
       /\ pc' = IF fails \/ readErr # "nil" THEN "close" ELSE "read"
  /\ applied' = applied \o batch
  /\ batch' = <<>>
  /\ UNCHANGED <<listing, skipped, idx, current, taken, readErr, closing, cancelled, result>>

\* What Close of reader r reports.  CloseWithError returns nil whatever it is given,
\* so a failed command is never reported.
CloseFails(r) == Lists[r] = "walk" /\ lister[r] = "failed"

\* What the function makes of the errors.
Outcome(closeErr) ==
  IF \/ applyErr \/ closeErr \/ readErr \in {"timeout", "error"}
     \/ setup.mode = "repair" /\ readErr = "canceled"
  THEN "error" ELSE "ok"

\* CompositeReader.Close closes one reader after the other until one fails.
\* CachedReader.Close closes its update channel, not the reader it delegates to.
CloseReader ==
  /\ pc = "close"
  /\ IF setup.cached
     THEN /\ closing' = closing + 1
          /\ IF closing = N THEN pc' = "ended" /\ result' = Outcome(FALSE)
                            ELSE UNCHANGED <<pc, result>>
     ELSE /\ lister[closing] # "running"
          /\ closing' = closing + 1
          /\ IF closing = N \/ CloseFails(closing)
             THEN pc' = "ended" /\ result' = Outcome(CloseFails(closing))
             ELSE UNCHANGED <<pc, result>>
  /\ UNCHANGED <<listing, skipped, idx, current, batch, taken, applied, readErr, applyErr,
                 cancelled>>

\* SIGINT or SIGTERM.
Signal ==
  /\ "signal" \in setup.faults /\ ~cancelled /\ pc # "ended"
  /\ cancelled' = TRUE
  /\ UNCHANGED <<setup, listing, skipped, loop>>

Done == pc = "ended" /\ UNCHANGED vars

Lister(r) ==
  /\ \/ WalkFile(r) \/ WalkSkip(r) \/ WalkFails(r)
     \/ CommandStep(r) \/ ListerEnds(r) \/ CommandFails(r)
  /\ UNCHANGED setup

Loop ==
  /\ \/ BeginRead \/ Filled \/ Receive \/ Scan \/ Wake \/ ScanFile \/ ScanSkip \/ ScanFails
     \/ AtEnd \/ CutShort
     \/ Apply \/ CloseReader
  /\ UNCHANGED setup

Next == Loop \/ (\E r \in Readers : Lister(r)) \/ Signal \/ Done

Spec == Init /\ [][Next]_vars

\* The goroutines and the loop are scheduled; a signal need not come.
FairSpec == Spec /\ WF_vars(Loop) /\ \A r \in Readers : WF_vars(Lister(r))

-----------------------------------------------------------------------------
(* Properties.                                                             *)

Entry == Readers \X Nat

\* Every variable has its type, and the channels never hold more than fits.
TypeOK ==
  /\ setup \in Setups
  /\ pos \in [Readers -> Nat] /\ \A r \in Readers : pos[r] <= Length[r]
  /\ lister \in [Readers -> {"running", "ended", "failed"}]
  /\ buf \in [Readers -> Seq(Nat)] /\ \A r \in Readers : Len(buf[r]) <= setup.capacity
  /\ skipped \subseteq Entry
  /\ pc \in {"read", "fill", "wait", "scan", "apply", "close", "ended"}
  /\ idx \in 0 .. N /\ current \in 0 .. N
  /\ {batch, taken, applied} \subseteq Seq(Entry) /\ Len(batch) <= BatchSize
  /\ readErr \in {"nil", "eof", "canceled", "timeout", "error"}
  /\ {applyErr, cancelled} \subseteq BOOLEAN
  /\ closing \in 1 .. N + 1 /\ result \in {"none", "ok", "error"}

Precedes(e, f) == e[1] < f[1] \/ (e[1] = f[1] /\ e[2] < f[2])

\* Files come in the order of the listing, each once, and none is passed over that
\* is there to be read: whatever the batches, channels and readers do between.
DeliveredInOrder ==
  /\ \A i, j \in 1 .. Len(applied) : i < j => Precedes(applied[i], applied[j])
  /\ \A i \in 1 .. Len(applied) : \A r \in Readers : \A k \in 1 .. Length[r] :
       Precedes(<<r, k>>, applied[i]) =>
         \/ <<r, k>> \in ToSet(applied) \cup skipped
         \/ lister[r] = "failed"

\* format.go:161 "format any files that were read before processing the read
\* error": no file is taken out of a reader and then forgotten.
NothingForgotten == pc \in {"close", "ended"} => applied = taken

AllListed ==
  \A r \in Readers : \A k \in 1 .. Length[r] : <<r, k>> \in ToSet(applied) \cup skipped

\* Close reports what went wrong with the listing (filesystem.go:123, git.go:132):
\* without a signal, a walk that ends well was complete.  Two errors are lost, and
\* left aside here: that of a listing command, and all of a cached reader's delegate.
CompleteOrReported ==
  result = "ok" /\ ~cancelled /\ ~setup.cached /\ "command" \notin setup.faults => AllListed

\* filesystem.go:119 "Close waits for all filesystem processing to complete": and
\* the processing does complete, so that the run ends.
CloseReturns == <>(pc = "ended")

\* The goroutine of r has more to hand over and nobody who takes it.
Stranded(r) ==
  /\ lister[r] = "running" /\ pos[r] < Length[r]
  /\ IF Lists[r] = "walk" THEN ~HasRoom(r) ELSE ~Asked(r)

\* The run ends, but for one case: without cache, a loop that stopped before the end
\* of the walk waits in Close for a goroutine whose listing nobody reads any more
\* (filesystem.go:72, git.go:161).  A walk read to its end and a cached one always
\* end, whatever failed, was skipped or came late.
ReturnsUnlessStranded ==
  <>(\/ pc = "ended"
     \/ /\ pc = "close" /\ ~setup.cached /\ (applyErr \/ readErr # "eof")
        /\ Stranded(closing))
=============================================================================
