----------------------------- MODULE MetricsFile ------------------------------
(***************************************************************************)
(* What the metrics writer promises: metrics.json is a register.  It holds *)
(* one of the versions the counters went through, it only moves forward,   *)
(* and a new process continues from the version it holds.                  *)
(***************************************************************************)
EXTENDS Naturals

VARIABLES
  memory,  \* the version of the counters in memory
  file     \* the version that is published

vars == <<memory, file>>

Init == memory = 0 /\ file = 0

Count == memory' = memory + 1 /\ UNCHANGED file

Publish == file' \in file .. memory /\ UNCHANGED memory

Reload == memory' = file /\ UNCHANGED file

Next == Count \/ Publish \/ Reload

Spec == Init /\ [][Next]_vars
=============================================================================
