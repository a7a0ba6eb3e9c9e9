----------------------------- MODULE MCCheckRun -----------------------------
(* Values for model checking CheckRun: a native and a sandboxed formatter, a  *)
(* linter, and a drift gate that wants a source and its output equally new.   *)
EXTENDS CheckRun, TLC

CONSTANTS src, out, doc, odd, gofmt, prettier, lint, drift

MCWants == gofmt    :> {src}      @@ prettier :> {doc, out} @@
           lint     :> {src, out} @@ drift    :> {src, out}

\* Checks of a quiet tree, where something may fail; checks of a tree others work on,
\* where the linter wants the document instead of the output; and checks whose
\* config is wrong, or has a linter that takes one file at a time.
VerdictSetups ==
  {[files |-> Files, wants |-> MCWants, noPositional |-> {gofmt}, fatalUnmatched |-> TRUE,
    midRun |-> {}, faults |-> {"setup", "walk", "exec"}],
   [files |-> Files \ {odd}, wants |-> [MCWants EXCEPT ![lint] = {src, doc}],
    noPositional |-> {}, fatalUnmatched |-> FALSE, midRun |-> {"saved"},
    faults |-> {"setup", "walk", "exec", "signal"}],
   [files |-> {src, out}, wants |-> MCWants, noPositional |-> {lint}, fatalUnmatched |-> FALSE,
    midRun |-> {}, faults |-> {"config", "exec"}]}

Interrupted ==
  {[files |-> Files, wants |-> MCWants, noPositional |-> {}, fatalUnmatched |-> FALSE,
    midRun |-> {}, faults |-> {"signal"}]}

MCRank     == lint :> 1 @@ drift :> 2

\* The output is saved a third time with its size and within the second.
MCStamp == [f \in Files |-> [v \in 1 .. MaxVersion |-> IF f = out /\ v = 3 THEN 2 ELSE v]]

VersionOf(f, s) == IF \E p \in s : p[1] = f THEN (CHOOSE p \in s : p[1] = f)[2] ELSE 0

\* The source needs formatting at first, the document once it is saved, the output
\* has a lint finding at first, and the gate compares versions.
MCObjects(t, s) ==
  CASE t = gofmt    -> VersionOf(src, s) = 1
    [] t = prettier -> VersionOf(doc, s) = 2
    [] t = lint     -> VersionOf(out, s) = 1
    [] t = drift    -> VersionOf(src, s) # VersionOf(out, s)

\* The tools are such that the theorems of CheckRunProofs apply.
ASSUME ToolsAssumption == FileByFile /\ NamesInputs
=============================================================================
