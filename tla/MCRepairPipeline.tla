-------------------------- MODULE MCRepairPipeline --------------------------
(* Values for model checking RepairPipeline: two formatters that share some *)
(* files, so that two batch keys are in use and one has a sequence of two;  *)
(* lint comes first by name and last by priority.                           *)
EXTENDS RepairPipeline

CONSTANTS f1, f2, f3, f4, f5, lint, style

BothAndStyle == [f \in Files |-> IF f = f3 THEN {style} ELSE {lint, style}]
\* One key with two full batches, and a file that matches nothing.
WithUnmatched == [f \in Files |-> IF f = f5 THEN {} ELSE {style}]
AllStyle == [f \in Files |-> {style}]

MCPriority == [g \in Formatters |-> IF g = lint THEN 2 ELSE 1]
MCRank == [g \in Formatters |-> IF g = lint THEN 1 ELSE 2]
=============================================================================
