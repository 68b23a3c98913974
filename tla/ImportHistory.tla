---------------------------- MODULE ImportHistory -----------------------------
(***************************************************************************)
(* What an import promises, to the client that asks for its status and to  *)
(* the ingest service: a task is queued once, taken, perhaps put back and  *)
(* taken again, and ends for good; a chunk is counted before it is handed  *)
(* on, it is handed on while the task is being processed, after every      *)
(* chunk before it and never again.  Nothing is said of when, by whom, and *)
(* whether a counted chunk is handed on at all: a crash may come between.  *)
(***************************************************************************)
EXTENDS Naturals, Sequences

CONSTANT Uploads

VARIABLES
  status,    \* of an upload's task
  progress,  \* the chunks counted so far, which are chunks 0 .. progress - 1
  handed     \* the chunks handed to the ingest service

vars == <<status, progress, handed>>

Init ==
  /\ status = [u \in Uploads |-> "none"]
  /\ progress = [u \in Uploads |-> 0]
  /\ handed = [u \in Uploads |-> <<>>]

\* The tasks that have one status get another.
Moves(tasks, from, to) ==
  /\ \A u \in tasks : status[u] = from
  /\ status' = [u \in Uploads |-> IF u \in tasks THEN to ELSE status[u]]
  /\ UNCHANGED <<progress, handed>>

Queue(u) == Moves({u}, "none", "pending")

Take(tasks) == Moves(tasks, "pending", "processing")

PutBack(tasks) == Moves(tasks, "processing", "pending")

End(u) == \E final \in {"done", "failed"} : Moves({u}, "processing", final)

CountChunk(u) ==
  /\ status[u] = "processing"
  /\ progress' = [progress EXCEPT ![u] = @ + 1]
  /\ UNCHANGED <<status, handed>>

\* Of the chunks counted the last one can be handed on, if it has not been.
HandOn(u) ==
  /\ status[u] = "processing"
  /\ progress[u] > 0
  /\ \A n \in 1 .. Len(handed[u]) : handed[u][n] + 1 < progress[u]
  /\ handed' = [handed EXCEPT ![u] = Append(@, progress[u] - 1)]
  /\ UNCHANGED <<status, progress>>

Next ==
  \/ \E tasks \in SUBSET Uploads : Take(tasks) \/ PutBack(tasks)
  \/ \E u \in Uploads : Queue(u) \/ End(u) \/ CountChunk(u) \/ HandOn(u)

Spec == Init /\ [][Next]_vars
=============================================================================
