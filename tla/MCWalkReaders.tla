---------------------------- MODULE MCWalkReaders ----------------------------
(* Values for model checking WalkReaders.                                     *)
EXTENDS WalkReaders

\* One file more than the first batch and the channel hold.
Walk1   == <<4>>
Walk2   == <<3, 2>>
OneWalk == <<"walk">>
Mixed   == <<"command", "walk">>

CutShortOrCached ==
  {[capacity |-> 3, cached |-> FALSE, mode |-> "repair", found |-> Findings,
    faults |-> {"signal", "timeout", "apply"}],
   [capacity |-> 1, cached |-> TRUE, mode |-> "format", found |-> {"file", "skip"},
    faults |-> {"signal", "timeout", "apply", "command"}]}

CheckStops ==
  {[capacity |-> 1, cached |-> FALSE, mode |-> "check", found |-> {"file"},
    faults |-> {"apply"}]}
=============================================================================
