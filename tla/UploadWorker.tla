----------------------------- MODULE UploadWorker -----------------------------
(***************************************************************************)
(* The asynchronous file import of mnemo-server: the handler that stores   *)
(* an uploaded file on its instance's disk and queues a task for it, and   *)
(* the worker of every instance (service/upload.go), which takes tasks     *)
(* from the shared table, feeds the file's chunks to the ingest service    *)
(* with a checkpoint before each one, and ends with done or failed and     *)
(* the file removed.  Instances stop, crash and restart; statements fail.  *)
(*                                                                         *)
(* A file is looked up by its path alone, and every instance has its own   *)
(* disk: disk[i][p] says whose upload the bytes at path p of instance i    *)
(* are.  Time is in ticks, for the 30 minutes of a task's context and of   *)
(* ResetProcessing.                                                        *)
(***************************************************************************)
EXTENDS Integers, Sequences, FiniteSets

CONSTANTS
  Instances,     \* server processes with a disk of their own
  Uploads,       \* uploads, and the task rows made for them
  Paths,         \* {uploadDir}/{tenantID}/{agentID}/{filename}
  NoUpload,
  Size,          \* chunks (or batches) in an upload
  Concurrency,   \* tasks a poll may take
  TaskTimeout,   \* defaultTaskTimeout, of the context of processTask
  StaleTimeout,  \* defaultTaskTimeout, of ResetProcessing
  Overrun,       \* how long after its deadline a task may still be winding up
  UnsureErrors,  \* may a statement that reports an error have taken effect
  Horizon        \* bound: the clock stops here

ASSUME UploadAssumption ==
  /\ Instances # {} /\ Paths # {}
  /\ NoUpload \notin Uploads
  /\ Size \in [Uploads -> Nat]
  /\ Concurrency \in Nat \ {0}
  /\ TaskTimeout \in Nat \ {0}
  /\ StaleTimeout \in Nat
  /\ Overrun \in Nat
  /\ UnsureErrors \in BOOLEAN
  /\ Horizon \in Nat

VARIABLES
  now,
  server,   \* what becomes of an instance's worker: see Servers
  disk,     \* the files in an instance's upload directory
  request,  \* what becomes of the HTTP request of an upload
  home,     \* the instance that took it
  path,     \* where it was stored, and what its row says
  row,      \* the rows of upload_tasks
  step,     \* where a worker's goroutine for a task is
  job,      \* its chunk counter, the deadline of its context, the data it read
  handed    \* history: the chunks of a task handed to the ingest service

vars == <<now, server, disk, request, home, path, row, step, job, handed>>

upload == <<request, home, path>>

(***************************************************************************)
(* running: polling and processing; stopping: its context is cancelled;    *)
(* idle: Run has returned an error, the HTTP server goes on; down: no      *)
(* process.                                                                *)
(***************************************************************************)
Servers == {"running", "stopping", "idle", "down"}

Statuses == {"none", "pending", "processing", "done", "failed"}

Terminal == {"done", "failed"}

Rows == [status : Statuses, done : Nat, createdAt : Nat, updatedAt : Nat]

(***************************************************************************)
(* opening: resolving the tenant, reading the file; chunks: between two    *)
(* chunks; ingesting: a chunk is at the ingest service; failing: in        *)
(* failTask; cleanup: the status is final, the file is next.               *)
(***************************************************************************)
Steps == {"none", "opening", "chunks", "ingesting", "failing", "cleanup"}

Jobs == [next : Nat, deadline : Nat, data : Uploads \cup {NoUpload}]

TypeOK ==
  /\ now \in Nat
  /\ server \in [Instances -> Servers]
  /\ disk \in [Instances -> [Paths -> Uploads \cup {NoUpload}]]
  /\ request \in [Uploads -> {"new", "stored", "over"}]
  /\ home \in [Uploads -> Instances]
  /\ path \in [Uploads -> Paths]
  /\ row \in [Uploads -> Rows]
  /\ step \in [Instances -> [Uploads -> Steps]]
  /\ job \in [Instances -> [Uploads -> Jobs]]
  /\ handed \in [Uploads -> Seq(Nat)]

NoRow == [status |-> "none", done |-> 0, createdAt |-> 0, updatedAt |-> 0]

NoJob == [next |-> 0, deadline |-> 0, data |-> NoUpload]

Init ==
  /\ now = 0
  /\ server = [i \in Instances |-> "down"]
  /\ disk = [i \in Instances |-> [p \in Paths |-> NoUpload]]
  /\ request = [u \in Uploads |-> "new"]
  /\ home = [u \in Uploads |-> CHOOSE i \in Instances : TRUE]
  /\ path = [u \in Uploads |-> CHOOSE p \in Paths : TRUE]
  /\ row = [u \in Uploads |-> NoRow]
  /\ step = [i \in Instances |-> [u \in Uploads |-> "none"]]
  /\ job = [i \in Instances |-> [u \in Uploads |-> NoJob]]
  /\ handed = [u \in Uploads |-> <<>>]

-----------------------------------------------------------------------------
(* Statements. *)

Saved(u, r) == [row EXCEPT ![u] = r]

\* UpdateStatus and UpdateProgress know the task's id and nothing else of the row.
WithStatus(u, status) ==
  [status |-> status, done |-> row[u].done, createdAt |-> row[u].createdAt,
   updatedAt |-> now]

WithProgress(u, chunks) ==
  [status |-> row[u].status, done |-> chunks, createdAt |-> row[u].createdAt,
   updatedAt |-> now]

Touched(u) == WithStatus(u, row[u].status)

Performs(u, r) == row' = Saved(u, r)

Errs(u, r) == row' \in {row} \cup IF UnsureErrors THEN {Saved(u, r)} ELSE {}

\* A statement under the worker's context, and under the context of a task.
Connected(i) == server[i] = "running"

InTime(i, u) == Connected(i) /\ now < job[i][u].deadline

Stored(i, p) == disk[i][p] # NoUpload

Removed(i, p) == [disk EXCEPT ![i][p] = NoUpload]

-----------------------------------------------------------------------------
(* The handler. *)

\* O_EXCL: the file's own name, or one with a suffix, that is free on this instance.
StoreFile(i, u, p) ==
  /\ request[u] = "new"
  /\ server[i] # "down"
  /\ ~Stored(i, p)
  /\ disk' = [disk EXCEPT ![i][p] = u]
  /\ home' = [home EXCEPT ![u] = i]
  /\ path' = [path EXCEPT ![u] = p]
  /\ request' = [request EXCEPT ![u] = "stored"]
  /\ UNCHANGED <<now, server, row, step, job, handed>>

NewRow == [status |-> "pending", done |-> 0, createdAt |-> now, updatedAt |-> now]

CreateTask(u) ==
  /\ request[u] = "stored"
  /\ Performs(u, NewRow)
  /\ request' = [request EXCEPT ![u] = "over"]
  /\ UNCHANGED <<now, server, disk, home, path, step, job, handed>>

\* The file is removed, if that works, whatever became of the INSERT.
CreateTaskFails(u) ==
  /\ request[u] = "stored"
  /\ Errs(u, NewRow)
  /\ request' = [request EXCEPT ![u] = "over"]
  /\ disk' \in {disk, Removed(home[u], path[u])}
  /\ UNCHANGED <<now, server, home, path, step, job, handed>>

-----------------------------------------------------------------------------
(* The worker: Run. *)

StaleUnaged(u) == row[u].status = "processing" /\ row[u].updatedAt < now

StaleAnyStatus(u) == row[u].status # "none" /\ row[u].updatedAt + StaleTimeout < now

Stale(u) == row[u].status = "processing" /\ row[u].updatedAt + StaleTimeout < now

Reset ==
  [u \in Uploads |-> IF Stale(u) THEN WithStatus(u, "pending") ELSE row[u]]

StartServer(i) ==
  /\ server[i] = "down"
  /\ server' = [server EXCEPT ![i] = "running"]
  /\ row' = Reset
  /\ UNCHANGED <<now, disk, upload, step, job, handed>>

\* Run returns the error, main logs it, and this process has no worker.
StartServerFails(i) ==
  /\ server[i] = "down"
  /\ server' = [server EXCEPT ![i] = "idle"]
  /\ row' \in {row} \cup IF UnsureErrors THEN {Reset} ELSE {}
  /\ UNCHANGED <<now, disk, upload, step, job, handed>>

NoJobs(i) == \A u \in Uploads : step[i][u] = "none"

PendingUntouched ==
  {u \in Uploads : row[u].status = "pending" /\ row[u].updatedAt = row[u].createdAt}

Pending == {u \in Uploads : row[u].status = "pending"}

\* ORDER BY created_at LIMIT: ties in any order.
Batches ==
  {batch \in SUBSET Pending :
     /\ batch # {}
     /\ Cardinality(batch) <= Concurrency
     /\ batch # Pending => Cardinality(batch) = Concurrency
     /\ \A b \in batch, u \in Pending \ batch : row[b].createdAt <= row[u].createdAt}

Taken(batch) ==
  [u \in Uploads |-> IF u \in batch THEN WithStatus(u, "processing") ELSE row[u]]

FreshJobRedoing(u) ==
  [next |-> row[u].done - 1, deadline |-> now + TaskTimeout, data |-> NoUpload]

FreshJob(u) == [next |-> row[u].done, deadline |-> now + TaskTimeout, data |-> NoUpload]

\* A poll waits for the tasks of the one before (wg.Wait).
FetchPending(i) ==
  /\ Connected(i)
  /\ NoJobs(i)
  /\ \E batch \in Batches :
       /\ row' = Taken(batch)
       /\ step' = [step EXCEPT ![i] =
                     [u \in Uploads |-> IF u \in batch THEN "opening" ELSE "none"]]
       /\ job' = [job EXCEPT ![i] =
                     [u \in Uploads |-> IF u \in batch THEN FreshJob(u) ELSE NoJob]]
  /\ UNCHANGED <<now, server, disk, upload, handed>>

\* The commit reports an error but took effect: nobody works on these tasks.
FetchPendingFails(i) ==
  /\ UnsureErrors
  /\ Connected(i)
  /\ NoJobs(i)
  /\ \E batch \in Batches : row' = Taken(batch)
  /\ UNCHANGED <<now, server, disk, upload, step, job, handed>>

-----------------------------------------------------------------------------
(* The worker: processTask. *)

Goes(i, u, s) == step' = [step EXCEPT ![i][u] = s]

JobIs(i, u, next, data) ==
  job' = [job EXCEPT ![i][u] =
            [next |-> next, deadline |-> job[i][u].deadline, data |-> data]]

\* The goroutine returns.
Returns(i, u) ==
  /\ Goes(i, u, "none")
  /\ job' = [job EXCEPT ![i][u] = NoJob]

ReadUpload(i, u) ==
  /\ step[i][u] = "opening"
  /\ InTime(i, u)
  /\ Stored(i, path[u])
  /\ JobIs(i, u, job[i][u].next, disk[i][path[u]])
  /\ Performs(u, Touched(u))   \* UpdateTotalChunks
  /\ Goes(i, u, "chunks")
  /\ UNCHANGED <<now, server, disk, upload, handed>>

\* No such file here: the task goes back to the queue, if the statement works.
Requeue(i, u) ==
  /\ step[i][u] = "opening"
  /\ ~Stored(i, path[u])
  /\ Connected(i)
  /\ Performs(u, WithStatus(u, "pending"))
  /\ Returns(i, u)
  /\ UNCHANGED <<now, server, disk, upload, handed>>

RequeueFails(i, u) ==
  /\ step[i][u] = "opening"
  /\ ~Stored(i, path[u])
  /\ Errs(u, WithStatus(u, "pending"))
  /\ Returns(i, u)
  /\ UNCHANGED <<now, server, disk, upload, handed>>

\* The tenant cannot be resolved, the file not be read or parsed, total_chunks
\* not be updated.
OpeningFails(i, u) ==
  /\ step[i][u] = "opening"
  /\ row' \in {row} \cup IF UnsureErrors /\ Stored(i, path[u])
                           THEN {Saved(u, Touched(u))} ELSE {}
  /\ Goes(i, u, "failing")
  /\ UNCHANGED <<now, server, disk, upload, job, handed>>

ChunkLeft(i, u) == step[i][u] = "chunks" /\ job[i][u].next < Size[job[i][u].data]

CheckpointOneBehind(i, u) ==
  /\ ChunkLeft(i, u)
  /\ InTime(i, u)
  /\ Performs(u, WithProgress(u, job[i][u].next))
  /\ Goes(i, u, "ingesting")
  /\ UNCHANGED <<now, server, disk, upload, job, handed>>

\* done_chunks counts the chunk before it is worked on.
Checkpoint(i, u) ==
  /\ ChunkLeft(i, u)
  /\ InTime(i, u)
  /\ Performs(u, WithProgress(u, job[i][u].next + 1))
  /\ Goes(i, u, "ingesting")
  /\ UNCHANGED <<now, server, disk, upload, job, handed>>

CheckpointFails(i, u) ==
  /\ ChunkLeft(i, u)
  /\ Errs(u, WithProgress(u, job[i][u].next + 1))
  /\ Goes(i, u, "failing")
  /\ UNCHANGED <<now, server, disk, upload, job, handed>>

\* Ingest also returns without an error when the extraction failed.
IngestChunk(i, u) ==
  /\ step[i][u] = "ingesting"
  /\ handed' = [handed EXCEPT ![u] = Append(@, job[i][u].next)]
  /\ JobIs(i, u, job[i][u].next + 1, job[i][u].data)
  /\ Goes(i, u, "chunks")
  /\ UNCHANGED <<now, server, disk, upload, row>>

IngestFails(i, u) ==
  /\ step[i][u] = "ingesting"
  /\ handed' = [handed EXCEPT ![u] = Append(@, job[i][u].next)]
  /\ Goes(i, u, "failing")
  /\ UNCHANGED <<now, server, disk, upload, row, job>>

Ends(i, u, s, status) ==
  /\ step[i][u] = s
  /\ Connected(i)
  /\ Performs(u, WithStatus(u, status))
  /\ Goes(i, u, "cleanup")
  /\ UNCHANGED <<now, server, disk, upload, job, handed>>

EndsUnsavedCleaning(i, u, s, status) ==
  /\ step[i][u] = s
  /\ Errs(u, WithStatus(u, status))
  /\ Goes(i, u, "cleanup")
  /\ UNCHANGED <<now, server, disk, upload, job, handed>>

\* Without a final status the file is kept for another try.
EndsUnsaved(i, u, s, status) ==
  /\ step[i][u] = s
  /\ Errs(u, WithStatus(u, status))
  /\ Returns(i, u)
  /\ UNCHANGED <<now, server, disk, upload, handed>>

Complete(i, u) ==
  ~ChunkLeft(i, u) /\ (Ends(i, u, "chunks", "done") \/ EndsUnsaved(i, u, "chunks", "done"))

FailTask(i, u) ==
  Ends(i, u, "failing", "failed") \/ EndsUnsaved(i, u, "failing", "failed")

\* cleanupFile goes by the path; it logs a failed removal.
CleanupFile(i, u) ==
  /\ step[i][u] = "cleanup"
  /\ disk' \in {disk, Removed(i, path[u])}
  /\ Returns(i, u)
  /\ UNCHANGED <<now, server, upload, row, handed>>

ProcessTask(i, u) ==
  \/ ReadUpload(i, u) \/ Requeue(i, u) \/ RequeueFails(i, u) \/ OpeningFails(i, u)
  \/ Checkpoint(i, u) \/ CheckpointFails(i, u)
  \/ IngestChunk(i, u) \/ IngestFails(i, u)
  \/ Complete(i, u) \/ FailTask(i, u) \/ CleanupFile(i, u)

-----------------------------------------------------------------------------
(* The processes. *)

\* A signal: the worker's context is cancelled before the HTTP server stops.
StopServer(i) ==
  /\ server[i] \in {"running", "idle"}
  /\ server' = [server EXCEPT ![i] = "stopping"]
  /\ UNCHANGED <<now, disk, upload, row, step, job, handed>>

\* main returns without waiting for the worker, or the process is killed.
ProcessEnds(i) ==
  /\ server[i] # "down"
  /\ server' = [server EXCEPT ![i] = "down"]
  /\ request' = [u \in Uploads |->
                   IF request[u] = "stored" /\ home[u] = i THEN "over" ELSE request[u]]
  /\ step' = [step EXCEPT ![i] = [u \in Uploads |-> "none"]]
  /\ job' = [job EXCEPT ![i] = [u \in Uploads |-> NoJob]]
  /\ UNCHANGED <<now, disk, home, path, row, handed>>

Busy(i, u) == step[i][u] # "none"

\* A task whose context has expired is wound up within Overrun ticks.
Tick ==
  /\ now < Horizon
  /\ \A i \in Instances, u \in Uploads :
       Busy(i, u) => now < job[i][u].deadline + Overrun
  /\ now' = now + 1
  /\ UNCHANGED <<server, disk, upload, row, step, job, handed>>

Next ==
  \/ \E u \in Uploads :
       \/ \E i \in Instances, p \in Paths : StoreFile(i, u, p)
       \/ CreateTask(u) \/ CreateTaskFails(u)
  \/ \E i \in Instances :
       \/ StartServer(i) \/ StartServerFails(i) \/ StopServer(i) \/ ProcessEnds(i)
       \/ FetchPending(i) \/ FetchPendingFails(i)
       \/ \E u \in Uploads : ProcessTask(i, u)
  \/ Tick

Spec == Init /\ [][Next]_vars

(***************************************************************************)
(* The workers run and poll, their tasks go on, time passes.  A worker     *)
(* that polls for ever meets a queued task between two visits of another   *)
(* instance to it, hence the strong fairness of taking a given task.  No   *)
(* fairness for requests, signals, crashes and restarts, nor for the       *)
(* success of a statement.                                                 *)
(***************************************************************************)
Takes(i, u) == FetchPending(i) /\ step'[i][u] = "opening"

FairSpec ==
  /\ Spec
  /\ WF_vars(Tick)
  /\ \A i \in Instances, u \in Uploads :
       WF_vars(ProcessTask(i, u)) /\ SF_vars(Takes(i, u))

-----------------------------------------------------------------------------
(* Properties. *)

(***************************************************************************)
(* upload.go:219, "checkpoint-before-work pattern to prevent duplicates on *)
(* crash": over crashes, resets, requeues, timeouts and statements that    *)
(* fail after they took effect, a task hands its chunks to the ingest      *)
(* service in order and each of them at most once.                         *)
(***************************************************************************)
HandedInOrder ==
  \A u \in Uploads :
    \A m, n \in 1 .. Len(handed[u]) : m < n => handed[u][m] < handed[u][n]

(***************************************************************************)
(* A task that was reported done or failed stays that way: no other worker *)
(* requeues, resets, fails or completes it afterwards.                     *)
(***************************************************************************)
FinalIsFinal ==
  [][\A u \in Uploads :
       row[u].status \in Terminal => row'[u].status = row[u].status]_vars

History ==
  INSTANCE ImportHistory
  WITH status <- [u \in Uploads |-> row[u].status],
       progress <- [u \in Uploads |-> row[u].done]

(***************************************************************************)
(* The import implements ImportHistory: whatever crashes, expires, is put  *)
(* back or fails after it took effect, the status, the progress and the    *)
(* chunks of a task only ever change by one of its steps.                  *)
(***************************************************************************)
IsImportHistory == History!Spec

(***************************************************************************)
(* upload_task.go:147, "This is safe for multi-instance deployments        *)
(* because it only touches abandoned tasks, not tasks being actively       *)
(* processed by other instances": no goroutine works on a task that        *)
(* ResetProcessing would reset.                                            *)
(***************************************************************************)
ResetIsSafe ==
  \A u \in Uploads : Stale(u) => \A i \in Instances : ~Busy(i, u)

(***************************************************************************)
(* upload.go:175, "requeue so the instance that has the file can pick it   *)
(* up": there is an instance that has the file of a queued task, at the    *)
(* path the task names.                                                    *)
(***************************************************************************)
QueuedHasItsFile ==
  \A u \in Uploads :
    row[u].status = "pending" => disk[home[u]][path[u]] = u

(***************************************************************************)
(* A queued task is finished or given up by an error, or some worker is    *)
(* not running: no requeueing for ever, no task passed over by the polls.  *)
(***************************************************************************)
GivenUp(u) ==
  row[u].status = "processing" /\ \A i \in Instances : ~Busy(i, u)

QueueDrains ==
  \A u \in Uploads :
    row[u].status = "pending" ~>
      \/ row[u].status \in Terminal \/ GivenUp(u)
      \/ \E i \in Instances : server[i] # "running"
=============================================================================
