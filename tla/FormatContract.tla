--------------------------- MODULE FormatContract ---------------------------
(***************************************************************************)
(* What a formatting run promises, without batches, workers or channels:   *)
(* each file is skipped or handled once; only a file whose formatters all   *)
(* succeeded is recorded; and the run reports success only when nothing it *)
(* handled failed or went unrecorded, and nothing was left out unless a     *)
(* signal interrupted it.  RepairPipeline implements it.                   *)
(***************************************************************************)
CONSTANTS Files, Ignored, UseCache

VARIABLES status, recorded, interrupted, exit

vars == <<status, recorded, interrupted, exit>>

Having(s) == {f \in Files : status[f] = s}

Init ==
  /\ status = [f \in Files |-> "waiting"]
  /\ recorded \in SUBSET Files
  /\ interrupted = FALSE
  /\ exit = "none"

\* A file no formatter wants, or that is recorded as formatted, is left alone.
Skip(f) ==
  /\ status[f] = "waiting" /\ f \in Ignored \cup recorded
  /\ status' = [status EXCEPT ![f] = "skipped"]
  /\ UNCHANGED <<recorded, interrupted, exit>>

Accept(f) ==
  /\ status[f] = "waiting" /\ f \notin Ignored \cup recorded
  /\ status' = [status EXCEPT ![f] = "working"]
  /\ UNCHANGED <<recorded, interrupted, exit>>

\* Some accepted files are through all their formatters.
Finish(good, bad) ==
  /\ good \cap bad = {} /\ good \cup bad \subseteq Having("working")
  /\ status' = [f \in Files |-> IF f \in good THEN "formatted"
                                ELSE IF f \in bad THEN "failed" ELSE status[f]]
  /\ UNCHANGED <<recorded, interrupted, exit>>

\* One transaction of the cache.
Record(fs) ==
  /\ fs \subseteq Having("formatted")
  /\ recorded' = recorded \cup fs
  /\ UNCHANGED <<status, interrupted, exit>>

Interrupt ==
  /\ interrupted' = TRUE
  /\ UNCHANGED <<status, recorded, exit>>

Succeed ==
  /\ Having("working") \cup Having("failed") = {}
  /\ interrupted \/ Having("waiting") = {}
  /\ UseCache => Having("formatted") \subseteq recorded
  /\ exit' = "ok"
  /\ UNCHANGED <<status, recorded, interrupted>>

Fail == exit' = "error" /\ UNCHANGED <<status, recorded, interrupted>>

Next ==
  /\ exit = "none"
  /\ \/ \E f \in Files : Skip(f) \/ Accept(f)
     \/ \E good, bad \in SUBSET Files : Finish(good, bad)
     \/ \E fs \in SUBSET Files : Record(fs)
     \/ Interrupt \/ Succeed \/ Fail

Spec == Init /\ [][Next]_vars
=============================================================================
