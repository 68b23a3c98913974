-------------------------- MODULE UploadWorkerProofs --------------------------
(***************************************************************************)
(* Proofs about UploadWorker, for any number of instances, uploads, paths  *)
(* and chunks and any horizon.  On one instance, or as long as a task is   *)
(* wound up before ResetProcessing takes it for abandoned, it has one      *)
(* worker, hands its chunks on in order, and keeps its final status: the   *)
(* import implements ImportHistory.  On one instance its file stays where  *)
(* its row says.                                                           *)
(***************************************************************************)
EXTENDS UploadWorker, TLAPS

USE UploadAssumption DEF UploadAssumption

(***************************************************************************)
(* What a statement and a returning or advancing goroutine leave is typed. *)
(***************************************************************************)
LEMMA RowTypes ==
  ASSUME TypeOK, NEW u \in Uploads
  PROVE  /\ NewRow \in Rows
         /\ \A r \in Rows : Saved(u, r) \in [Uploads -> Rows]
         /\ \A status \in Statuses : WithStatus(u, status) \in Rows
         /\ Touched(u) \in Rows
         /\ \A chunks \in Nat : WithProgress(u, chunks) \in Rows
  BY DEF TypeOK, NewRow, Rows, Statuses, Saved, WithStatus, Touched, WithProgress

\* A statement that reports an error did nothing, or took effect all the same.
LEMMA UnsureRow ==
  ASSUME NEW u \in Uploads, NEW r, Errs(u, r)
  PROVE  row' = row \/ row' = Saved(u, r)
<1>1. CASE UnsureErrors
  BY <1>1, Zenon DEF Errs
<1>2. CASE ~UnsureErrors
  BY <1>2, Zenon DEF Errs
<1> QED
  BY <1>1, <1>2

\* Updating one task of one instance keeps a grid of them.
LEMMA GridTypes ==
  ASSUME NEW A, NEW B, NEW S, NEW f \in [A -> [B -> S]], NEW a \in A, NEW b \in B, NEW c \in S
  PROVE  [f EXCEPT ![a][b] = c] \in [A -> [B -> S]]
  OBVIOUS

\* A step that moves one task is typed.
LEMMA StepTypes ==
  ASSUME TypeOK, NEW i \in Instances, NEW u \in Uploads
  PROVE  /\ \A s \in Steps : Goes(i, u, s) => step' \in [Instances -> [Uploads -> Steps]]
         /\ \A next \in Nat, data \in Uploads \cup {NoUpload} :
              JobIs(i, u, next, data) => job' \in [Instances -> [Uploads -> Jobs]]
         /\ Returns(i, u) => /\ step' \in [Instances -> [Uploads -> Steps]]
                             /\ job' \in [Instances -> [Uploads -> Jobs]]
<1>1. ASSUME NEW s \in Steps, Goes(i, u, s)
      PROVE  step' \in [Instances -> [Uploads -> Steps]]
  BY <1>1, GridTypes DEF Goes, TypeOK
<1>2. ASSUME NEW next \in Nat, NEW data \in Uploads \cup {NoUpload}, JobIs(i, u, next, data)
      PROVE  job' \in [Instances -> [Uploads -> Jobs]]
  <2>1. [next |-> next, deadline |-> job[i][u].deadline, data |-> data] \in Jobs
    BY DEF TypeOK, Jobs
  <2>2. job \in [Instances -> [Uploads -> Jobs]]
    BY DEF TypeOK
  <2>3. \A c \in Jobs : [job EXCEPT ![i][u] = c] \in [Instances -> [Uploads -> Jobs]]
    BY <2>2, GridTypes
  <2> QED
    BY <1>2, <2>1, <2>3 DEF JobIs
<1>3. ASSUME Returns(i, u)
      PROVE  /\ step' \in [Instances -> [Uploads -> Steps]]
             /\ job' \in [Instances -> [Uploads -> Jobs]]
  <2>1. "none" \in Steps /\ NoJob \in Jobs
    BY DEF Steps, NoJob, Jobs
  <2>2. step' \in [Instances -> [Uploads -> Steps]]
    BY <1>1, <1>3, <2>1 DEF Returns
  <2>3. job' \in [Instances -> [Uploads -> Jobs]]
    BY <1>3, <2>1, GridTypes DEF Returns, TypeOK
  <2> QED
    BY <2>2, <2>3
<1> QED
  BY <1>1, <1>2, <1>3

\* Writing or removing one file keeps the disks.
LEMMA DiskTypes ==
  ASSUME TypeOK, NEW i \in Instances, NEW p \in Paths
  PROVE  /\ \A u \in Uploads : [disk EXCEPT ![i][p] = u]
                                \in [Instances -> [Paths -> Uploads \cup {NoUpload}]]
         /\ Removed(i, p) \in [Instances -> [Paths -> Uploads \cup {NoUpload}]]
  BY GridTypes DEF TypeOK, Removed

(***************************************************************************)
(* Every variable keeps its type, whatever the timeouts are.               *)
(***************************************************************************)
THEOREM UploadTypes == Spec => []TypeOK
<1>1. Init => TypeOK
  BY DEF Init, TypeOK, Servers, NoRow, Rows, Statuses, Steps, NoJob, Jobs
<1>2. TypeOK /\ [Next]_vars => TypeOK'
  <2> SUFFICES ASSUME TypeOK, [Next]_vars PROVE TypeOK'
    OBVIOUS
  <2> USE DEF TypeOK, upload
  <2>1. ASSUME NEW i \in Instances, NEW u \in Uploads, NEW p \in Paths, StoreFile(i, u, p)
        PROVE  TypeOK'
    <3>1. disk' \in [Instances -> [Paths -> Uploads \cup {NoUpload}]]
      BY <2>1, DiskTypes DEF StoreFile
    <3> QED
      BY <2>1, <3>1 DEF StoreFile
  <2>2. ASSUME NEW u \in Uploads, CreateTask(u) PROVE TypeOK'
    BY <2>2, RowTypes DEF CreateTask, Performs
  <2>3. ASSUME NEW u \in Uploads, CreateTaskFails(u) PROVE TypeOK'
    <3>1. row' \in [Uploads -> Rows]
      <4>1. row' = row \/ row' = Saved(u, NewRow)
        BY <2>3, UnsureRow DEF CreateTaskFails
      <4> QED
        BY <4>1, RowTypes
    <3>2. disk' \in [Instances -> [Paths -> Uploads \cup {NoUpload}]]
      <4>1. disk' = disk \/ disk' = Removed(home[u], path[u])
        BY <2>3 DEF CreateTaskFails
      <4>2. home[u] \in Instances /\ path[u] \in Paths
        OBVIOUS
      <4> QED
        BY <4>1, <4>2, DiskTypes
    <3> QED
      BY <2>3, <3>1, <3>2 DEF CreateTaskFails
  <2>4. Reset \in [Uploads -> Rows]
    BY RowTypes DEF Reset, Statuses
  <2>5. ASSUME NEW i \in Instances,
               StartServer(i) \/ StartServerFails(i) \/ StopServer(i) \/ ProcessEnds(i)
        PROVE  TypeOK'
    <3>1. row' \in [Uploads -> Rows]
      BY <2>4, <2>5 DEF StartServer, StartServerFails, StopServer, ProcessEnds
    <3>2. server' \in [Instances -> Servers]
      BY <2>5 DEF StartServer, StartServerFails, StopServer, ProcessEnds, Servers
    <3>3. CASE ProcessEnds(i)
      BY <3>1, <3>2, <3>3 DEF ProcessEnds, Steps, NoJob, Jobs
    <3> QED
      BY <2>5, <3>1, <3>2, <3>3 DEF StartServer, StartServerFails, StopServer
  <2>6. ASSUME NEW i \in Instances, FetchPending(i) \/ FetchPendingFails(i) PROVE TypeOK'
    <3>1. \A batch \in Batches : Taken(batch) \in [Uploads -> Rows]
      BY RowTypes DEF Taken, Statuses
    <3>2. \A u \in Uploads : FreshJob(u) \in Jobs
      BY DEF FreshJob, Jobs, Rows
    <3>3. CASE FetchPending(i)
      BY <3>1, <3>2, <3>3 DEF FetchPending, Steps, Jobs, NoJob
    <3> QED
      BY <2>6, <3>1, <3>3 DEF FetchPendingFails
  <2>7. ASSUME NEW i \in Instances, NEW u \in Uploads, ProcessTask(i, u) PROVE TypeOK'
    <3>0. /\ job[i][u].next \in Nat /\ job[i][u].next + 1 \in Nat
          /\ job[i][u].data \in Uploads \cup {NoUpload}
          /\ disk[i][path[u]] \in Uploads \cup {NoUpload}
      BY DEF Jobs
    <3>1. row' \in [Uploads -> Rows]
      <4>1. \A status \in Statuses : WithStatus(u, status) \in Rows
        BY RowTypes
      <4>2. \A r \in Rows : (Performs(u, r) \/ Errs(u, r)) => row' \in [Uploads -> Rows]
        BY RowTypes, UnsureRow DEF Performs
      <4>3. CASE Requeue(i, u) \/ RequeueFails(i, u) \/ Complete(i, u) \/ FailTask(i, u)
        <5>1. \E status \in Statuses :
                Performs(u, WithStatus(u, status)) \/ Errs(u, WithStatus(u, status))
          BY <4>3
             DEF Requeue, RequeueFails, Complete, FailTask, Ends, EndsUnsaved, Statuses
        <5> QED
          BY <4>1, <4>2, <5>1
      <4>4. CASE ReadUpload(i, u) \/ OpeningFails(i, u)
        <5>1. row' = row \/ row' = Saved(u, Touched(u))
          BY <4>4 DEF ReadUpload, OpeningFails, Performs
        <5> QED
          BY <5>1, RowTypes
      <4>5. CASE Checkpoint(i, u) \/ CheckpointFails(i, u)
        BY <3>0, <4>2, <4>5, RowTypes DEF Checkpoint, CheckpointFails
      <4>6. CASE IngestChunk(i, u) \/ IngestFails(i, u) \/ CleanupFile(i, u)
        BY <4>6 DEF IngestChunk, IngestFails, CleanupFile
      <4> QED
        BY <2>7, <4>3, <4>4, <4>5, <4>6 DEF ProcessTask
    <3>2. step' \in [Instances -> [Uploads -> Steps]]
      <4>1. (\E s \in Steps : Goes(i, u, s)) \/ Returns(i, u)
        BY <2>7 DEF ProcessTask, ReadUpload, Requeue, RequeueFails, OpeningFails, Checkpoint,
             CheckpointFails, IngestChunk, IngestFails, Complete, FailTask, Ends, EndsUnsaved,
             CleanupFile, Steps
      <4> QED
        BY <4>1, StepTypes
    <3>3. job' \in [Instances -> [Uploads -> Jobs]]
      <4>1. CASE Returns(i, u)
        BY <4>1, StepTypes
      <4>2. CASE ReadUpload(i, u) \/ IngestChunk(i, u)
        BY <3>0, <4>2, StepTypes DEF ReadUpload, IngestChunk
      <4> QED
        BY <2>7, <4>1, <4>2 DEF ProcessTask, Requeue, RequeueFails, OpeningFails, Checkpoint,
             CheckpointFails, IngestFails, Complete, FailTask, Ends, EndsUnsaved, CleanupFile
    <3>4. handed' \in [Uploads -> Seq(Nat)]
      <4>1. CASE IngestChunk(i, u) \/ IngestFails(i, u)
        <5>1. Append(handed[u], job[i][u].next) \in Seq(Nat)
          BY <3>0
        <5>2. handed' = [handed EXCEPT ![u] = Append(handed[u], job[i][u].next)]
          BY <4>1 DEF IngestChunk, IngestFails
        <5> QED
          BY <5>1, <5>2
      <4> QED
        BY <2>7, <4>1 DEF ProcessTask, ReadUpload, Requeue, RequeueFails, OpeningFails,
             Checkpoint, CheckpointFails, Complete, FailTask, Ends, EndsUnsaved, CleanupFile
    <3>5. /\ disk' \in [Instances -> [Paths -> Uploads \cup {NoUpload}]]
          /\ UNCHANGED <<now, server, request, home, path>>
      <4>1. CASE CleanupFile(i, u)
        <5>1. disk' = disk \/ disk' = Removed(i, path[u])
          BY <4>1 DEF CleanupFile
        <5> QED
          BY <4>1, <5>1, DiskTypes DEF CleanupFile
      <4> QED
        BY <2>7, <4>1 DEF ProcessTask, ReadUpload, Requeue, RequeueFails, OpeningFails,
             Checkpoint, CheckpointFails, IngestChunk, IngestFails, Complete, FailTask, Ends,
             EndsUnsaved
    <3> QED
      BY <3>1, <3>2, <3>3, <3>4, <3>5
  <2>8. CASE Tick
    BY <2>8 DEF Tick
  <2>9. CASE UNCHANGED vars
    BY <2>9 DEF vars
  <2> QED
    BY <2>1, <2>2, <2>3, <2>5, <2>6, <2>7, <2>8, <2>9 DEF Next
<1> QED
  BY <1>1, <1>2, PTL DEF Spec

-----------------------------------------------------------------------------
(***************************************************************************)
(* The inductive invariant, task by task.  A worker's row is processing    *)
(* and was touched no earlier than its deadline less TaskTimeout; its      *)
(* chunk counter and the row's done_chunks agree; nothing handed on so far *)
(* is at or above either; and a task has one worker.                       *)
(***************************************************************************)
Active == {"opening", "chunks", "ingesting", "failing"}

WorkerInv(i, u) ==
  /\ step[i][u] \in Active =>
       /\ row[u].status = "processing"
       /\ job[i][u].deadline <= row[u].updatedAt + TaskTimeout
  /\ step[i][u] = "cleanup" => row[u].status \in Terminal
  /\ Busy(i, u) => now <= job[i][u].deadline + Overrun
  /\ step[i][u] \in {"opening", "chunks"} => job[i][u].next = row[u].done
  /\ step[i][u] = "ingesting" =>
       /\ row[u].done = job[i][u].next + 1
       /\ \A n \in 1 .. Len(handed[u]) : handed[u][n] < job[i][u].next

InOrder(u) ==
  \A m, n \in 1 .. Len(handed[u]) : m < n => handed[u][m] < handed[u][n]

RowInv(u) ==
  /\ request[u] # "over" => row[u].status = "none"
  /\ row[u].status = "none" => row[u].done = 0
  /\ row[u].updatedAt <= now
  /\ \A n \in 1 .. Len(handed[u]) : handed[u][n] < row[u].done
  /\ InOrder(u)

OneWorker(u) == \A i, j \in Instances : Busy(i, u) /\ Busy(j, u) => i = j

TaskInv(u) == (\A i \in Instances : WorkerInv(i, u)) /\ RowInv(u) /\ OneWorker(u)

DownIsIdle == \A i \in Instances : server[i] = "down" => NoJobs(i)

WorkInv == TypeOK /\ DownIsIdle /\ \A u \in Uploads : TaskInv(u)

\* No task is taken for abandoned while it is still being wound up.
WoundUpInTime == TaskTimeout + Overrun <= StaleTimeout

OneInstance == \A i, j \in Instances : i = j

\* Whoever resets tasks takes none from a worker: the other instances' are
\* done with them, or there are none.
OneAtATime == WoundUpInTime \/ OneInstance

(***************************************************************************)
(* A task that a step leaves alone.                                        *)
(***************************************************************************)
LEMMA LeftAlone ==
  ASSUME NEW u \in Uploads, TaskInv(u), now' = now, row'[u] = row[u],
         handed'[u] = handed[u], request'[u] = request[u],
         \A i \in Instances : step'[i][u] = step[i][u] /\ job'[i][u] = job[i][u]
  PROVE  TaskInv(u)'
<1>1. \A i \in Instances : WorkerInv(i, u)'
  BY DEF TaskInv, WorkerInv, Busy, Active, Terminal
<1>2. RowInv(u)'
  BY DEF TaskInv, RowInv, InOrder
<1>3. OneWorker(u)'
  BY DEF TaskInv, OneWorker, Busy
<1> QED
  BY <1>1, <1>2, <1>3 DEF TaskInv

(***************************************************************************)
(* A step of the task's one worker: the others have nothing to do with it. *)
(***************************************************************************)
LEMMA WorkerSteps ==
  ASSUME NEW u \in Uploads, NEW i \in Instances, TaskInv(u), Busy(i, u),
         \A j \in Instances \ {i} : step'[j][u] = step[j][u],
         WorkerInv(i, u)', RowInv(u)'
  PROVE  TaskInv(u)'
<1>1. \A j \in Instances \ {i} : step'[j][u] = "none"
  BY DEF TaskInv, OneWorker, Busy
<1>2. \A j \in Instances \ {i} : WorkerInv(j, u)'
  BY <1>1 DEF WorkerInv, Busy, Active
<1>3. OneWorker(u)'
  BY <1>1 DEF OneWorker, Busy
<1> QED
  BY <1>2, <1>3 DEF TaskInv

(***************************************************************************)
(* A step that makes or changes the row of a task nobody works on.         *)
(***************************************************************************)
LEMMA IdleTask ==
  ASSUME NEW u \in Uploads, TaskInv(u), \A i \in Instances : step'[i][u] = "none", RowInv(u)'
  PROVE  TaskInv(u)'
  BY DEF TaskInv, WorkerInv, OneWorker, Busy, Active

(***************************************************************************)
(* ResetProcessing and FetchPending touch no task that is worked on.       *)
(***************************************************************************)
LEMMA StaleIsIdle ==
  ASSUME WoundUpInTime, TypeOK, NEW u \in Uploads, TaskInv(u), Stale(u), NEW i \in Instances
  PROVE  ~Busy(i, u)
<1> SUFFICES ASSUME Busy(i, u) PROVE FALSE
  OBVIOUS
<1>0. /\ now \in Nat /\ job[i][u].deadline \in Nat /\ row[u].updatedAt \in Nat
      /\ step[i][u] \in Steps
  BY DEF TypeOK, Jobs, Rows
<1>1. step[i][u] \in Active
  BY <1>0 DEF Stale, TaskInv, WorkerInv, Busy, Steps, Active, Terminal
<1>2. /\ now <= job[i][u].deadline + Overrun
      /\ job[i][u].deadline <= row[u].updatedAt + TaskTimeout
  BY <1>1 DEF TaskInv, WorkerInv
<1> QED
  BY <1>0, <1>2 DEF WoundUpInTime, Stale

\* Nobody works on a task that is not there yet, or queued.
LEMMA PendingIsIdle ==
  ASSUME TypeOK, NEW u \in Uploads, TaskInv(u), row[u].status \in {"none", "pending"},
         NEW i \in Instances
  PROVE  step[i][u] = "none"
<1>1. step[i][u] \in Steps
  BY DEF TypeOK
<1> QED
  BY <1>1 DEF TaskInv, WorkerInv, Steps, Active, Terminal

(***************************************************************************)
(* The parts of the invariance proof that concern the handler, the start   *)
(* and the polls.                                                          *)
(***************************************************************************)
LEMMA RequestSteps ==
  ASSUME WorkInv, TypeOK', NEW u \in Uploads,
         \/ \E i \in Instances, p \in Paths : StoreFile(i, u, p)
         \/ CreateTask(u) \/ CreateTaskFails(u)
  PROVE  WorkInv'
<1> USE DEF upload
<1>0. \A v \in Uploads : TaskInv(v)
  BY DEF WorkInv
<1>d. DownIsIdle'
  BY DEF WorkInv, DownIsIdle, NoJobs, StoreFile, CreateTask, CreateTaskFails
<1>1. ASSUME NEW v \in Uploads \ {u} PROVE TaskInv(v)'
  <2>1. row'[v] = row[v]
    <3>1. row' = row \/ row' = Saved(u, NewRow)
      BY UnsureRow DEF StoreFile, CreateTask, CreateTaskFails, Performs
    <3> QED
      BY <3>1 DEF Saved, WorkInv, TypeOK
  <2>2. request'[v] = request[v]
    BY DEF StoreFile, CreateTask, CreateTaskFails, WorkInv, TypeOK
  <2>3. UNCHANGED <<now, step, job, handed>>
    BY DEF StoreFile, CreateTask, CreateTaskFails
  <2> QED
    BY <1>0, <2>1, <2>2, <2>3, LeftAlone
<1>2. TaskInv(u)'
  <2>1. request[u] # "over" /\ row[u].status = "none" /\ row[u].done = 0
    BY <1>0 DEF StoreFile, CreateTask, CreateTaskFails, TaskInv, RowInv
  <2>2. \A i \in Instances : step[i][u] = "none"
    BY <1>0, <2>1, PendingIsIdle DEF WorkInv
  <2>3. UNCHANGED <<now, step, handed>> /\ now \in Nat
    BY DEF StoreFile, CreateTask, CreateTaskFails, WorkInv, TypeOK
  <2>4. CASE row' = row /\ request'[u] # "over"
    <3>1. RowInv(u)'
      BY <1>0, <2>1, <2>3, <2>4 DEF TaskInv, RowInv, InOrder
    <3> QED
      BY <1>0, <2>2, <2>3, <3>1, IdleTask
  <2>5. CASE request'[u] = "over"
    <3>1. row'[u] = row[u] \/ row'[u] = NewRow
      <4>1. row' = row \/ row' = Saved(u, NewRow)
        BY UnsureRow DEF StoreFile, CreateTask, CreateTaskFails, Performs
      <4> QED
        BY <4>1 DEF Saved, WorkInv, TypeOK
    <3>2. RowInv(u)'
      BY <1>0, <2>1, <2>3, <2>5, <3>1 DEF TaskInv, RowInv, InOrder, NewRow
    <3> QED
      BY <1>0, <2>2, <2>3, <3>2, IdleTask
  <2>6. CASE row' = row /\ request'[u] = "over"
    BY <2>5, <2>6
  <2>7. row' = row \/ request'[u] = "over"
    BY DEF StoreFile, CreateTask, CreateTaskFails, WorkInv, TypeOK
  <2> QED
    BY <2>4, <2>5, <2>7
<1> QED
  BY <1>1, <1>2, <1>d DEF WorkInv

\* A starting instance resets no task that is worked on.
LEMMA ResetIsFree ==
  ASSUME OneAtATime, WorkInv, NEW k \in Instances, server[k] = "down",
         NEW u \in Uploads, Stale(u), NEW i \in Instances
  PROVE  step[i][u] = "none"
<1>1. CASE WoundUpInTime
  BY <1>1, StaleIsIdle DEF WorkInv, Busy
<1>2. CASE OneInstance
  <2>1. i = k
    BY <1>2 DEF OneInstance
  <2> QED
    BY <2>1 DEF WorkInv, DownIsIdle, NoJobs
<1> QED
  BY <1>1, <1>2 DEF OneAtATime

\* A reset, or a fetch of queued tasks, keeps the invariant of the work.
LEMMA RowsOfIdleTasks ==
  ASSUME WorkInv, TypeOK', DownIsIdle', UNCHANGED <<now, step, job, handed, request>>,
         \/ row' = row
         \/ /\ row' = Reset
            /\ \A u \in Uploads, i \in Instances : Stale(u) => step[i][u] = "none"
         \/ \E batch \in Batches : row' = Taken(batch)
  PROVE  WorkInv'
<1> SUFFICES ASSUME NEW u \in Uploads PROVE TaskInv(u)'
  BY DEF WorkInv
<1>0. TaskInv(u) /\ TypeOK /\ now \in Nat
  BY DEF WorkInv, TypeOK
<1>1. \/ row'[u] = row[u]
      \/ /\ Stale(u) /\ row'[u] = WithStatus(u, "pending")
         /\ \A i \in Instances : step[i][u] = "none"
      \/ row[u].status = "pending" /\ row'[u] = WithStatus(u, "processing")
  BY DEF Reset, Batches, Pending, Taken, WorkInv, TypeOK
<1>2. CASE row'[u] = row[u]
  BY <1>0, <1>2, LeftAlone
<1>3. CASE /\ Stale(u) \/ row[u].status = "pending"
           /\ \A i \in Instances : step[i][u] = "none"
           /\ \E s \in {"pending", "processing"} : row'[u] = WithStatus(u, s)
  <2>1. \A i \in Instances : step'[i][u] = "none"
    BY <1>3
  <2>2. request[u] = "over"
    BY <1>0, <1>3 DEF Stale, TaskInv, RowInv
  <2>3. row'[u].done = row[u].done /\ row'[u].updatedAt = now /\ row'[u].status # "none"
    BY <1>3 DEF WithStatus
  <2>4. RowInv(u)'
    BY <1>0, <2>2, <2>3 DEF TaskInv, RowInv, InOrder
  <2> QED
    BY <1>0, <2>1, <2>4, IdleTask
<1>4. row[u].status = "pending" => \A i \in Instances : step[i][u] = "none"
  BY <1>0, PendingIsIdle
<1> QED
  BY <1>1, <1>2, <1>3, <1>4

\* The steps of Poll keep the invariant.
LEMMA PollSteps ==
  ASSUME WorkInv, TypeOK', NEW i \in Instances, FetchPending(i)
  PROVE  WorkInv'
<1>d. DownIsIdle'
  BY DEF WorkInv, TypeOK, DownIsIdle, NoJobs, FetchPending, Connected
<1> SUFFICES ASSUME NEW u \in Uploads PROVE TaskInv(u)'
  BY <1>d DEF WorkInv
<1>0. /\ TaskInv(u) /\ TypeOK /\ now \in Nat
      /\ row[u].done \in Nat
  BY DEF WorkInv, TypeOK, Rows
<1>1. PICK batch \in Batches :
        /\ row' = Taken(batch)
        /\ step' = [step EXCEPT ![i] =
                      [v \in Uploads |-> IF v \in batch THEN "opening" ELSE "none"]]
        /\ job' = [job EXCEPT ![i] =
                      [v \in Uploads |-> IF v \in batch THEN FreshJob(v) ELSE NoJob]]
  BY DEF FetchPending
<1>2. UNCHANGED <<now, request, handed>>
  BY DEF FetchPending, upload
<1>3. step[i][u] = "none"
  BY DEF FetchPending, NoJobs
<1>4. \A j \in Instances \ {i} : step'[j][u] = step[j][u] /\ job'[j][u] = job[j][u]
  BY <1>1 DEF WorkInv, TypeOK
<1>5. CASE u \in batch
  <2>1. row[u].status = "pending" /\ row'[u] = WithStatus(u, "processing")
    BY <1>1, <1>5 DEF Batches, Pending, Taken
  <2>2. step'[i][u] = "opening" /\ job'[i][u] = FreshJob(u)
    BY <1>1, <1>5 DEF WorkInv, TypeOK
  <2>3. \A j \in Instances \ {i} : step'[j][u] = "none"
    BY <1>0, <1>4, <2>1, PendingIsIdle
  <2>4. RowInv(u)'
    BY <1>0, <1>2, <2>1 DEF TaskInv, RowInv, InOrder, WithStatus
  <2>5. WorkerInv(i, u)'
    BY <1>0, <1>2, <2>1, <2>2 DEF WorkerInv, WithStatus, FreshJob, Busy
  <2>6. \A j \in Instances \ {i} : WorkerInv(j, u)'
    BY <2>3 DEF WorkerInv, Busy, Active
  <2>7. OneWorker(u)'
    BY <2>3 DEF OneWorker, Busy
  <2> QED
    BY <2>4, <2>5, <2>6, <2>7 DEF TaskInv
<1>6. CASE u \notin batch
  <2>1. row'[u] = row[u]
    BY <1>1, <1>6 DEF Taken
  <2>2. step'[i][u] = "none"
    BY <1>1, <1>6 DEF WorkInv, TypeOK
  <2>3. WorkerInv(i, u)'
    BY <2>2 DEF WorkerInv, Busy, Active
  <2>4. \A j \in Instances \ {i} : WorkerInv(j, u)'
    BY <1>0, <1>2, <1>4, <2>1 DEF TaskInv, WorkerInv, Busy
  <2>5. RowInv(u)'
    BY <1>0, <1>2, <2>1 DEF TaskInv, RowInv, InOrder
  <2>6. OneWorker(u)'
    BY <1>0, <1>3, <1>4, <2>2 DEF TaskInv, OneWorker, Busy
  <2> QED
    BY <2>3, <2>4, <2>5, <2>6 DEF TaskInv
<1> QED
  BY <1>5, <1>6

(***************************************************************************)
(* One step of a task: what it leaves alone, and then the worker itself.   *)
(***************************************************************************)
LEMMA TaskFrame ==
  ASSUME TypeOK, NEW i \in Instances, NEW u \in Uploads, ProcessTask(i, u)
  PROVE  /\ UNCHANGED <<now, server, request, home, path>>
         /\ Busy(i, u)
         /\ \A j \in Instances, v \in Uploads :
              j # i \/ v # u => step'[j][v] = step[j][v] /\ job'[j][v] = job[j][v]
         /\ \A v \in Uploads \ {u} : row'[v] = row[v] /\ handed'[v] = handed[v]
<1> USE DEF ProcessTask, Complete, FailTask, upload
<1>1. /\ UNCHANGED <<now, server, request, home, path>>
      /\ Busy(i, u)
  BY DEF ReadUpload, Requeue, RequeueFails, OpeningFails, Checkpoint, CheckpointFails,
         ChunkLeft, IngestChunk, IngestFails, Ends, EndsUnsaved, CleanupFile, Busy
<1>2. row' = row \/ \E r : row' = Saved(u, r)
  <2>1. CASE ReadUpload(i, u) \/ Requeue(i, u) \/ Checkpoint(i, u)
    BY <2>1 DEF ReadUpload, Requeue, Checkpoint, Performs
  <2>2. CASE RequeueFails(i, u) \/ CheckpointFails(i, u)
    BY <2>2, UnsureRow DEF RequeueFails, CheckpointFails
  <2>3. CASE OpeningFails(i, u)
    BY <2>3 DEF OpeningFails
  <2>4. CASE IngestChunk(i, u) \/ IngestFails(i, u) \/ CleanupFile(i, u)
    BY <2>4 DEF IngestChunk, IngestFails, CleanupFile
  <2>5. CASE Complete(i, u) \/ FailTask(i, u)
    BY <2>5, UnsureRow DEF Ends, EndsUnsaved, Performs
  <2> QED
    BY <2>1, <2>2, <2>3, <2>4, <2>5
<1>3. \E s : step' = [step EXCEPT ![i][u] = s]
  BY DEF ReadUpload, Requeue, RequeueFails, OpeningFails, Checkpoint, CheckpointFails,
         IngestChunk, IngestFails, Ends, EndsUnsaved, CleanupFile, Goes, Returns
<1>4. job' = job \/ \E j : job' = [job EXCEPT ![i][u] = j]
  BY DEF ReadUpload, Requeue, RequeueFails, OpeningFails, Checkpoint, CheckpointFails,
         IngestChunk, IngestFails, Ends, EndsUnsaved, CleanupFile, JobIs, Returns
<1>5. handed' = handed \/ \E h : handed' = [handed EXCEPT ![u] = h]
  BY DEF ReadUpload, Requeue, RequeueFails, OpeningFails, Checkpoint, CheckpointFails,
         IngestChunk, IngestFails, Ends, EndsUnsaved, CleanupFile
<1>6. \A v \in Uploads \ {u} : row'[v] = row[v] /\ handed'[v] = handed[v]
  BY <1>2, <1>5 DEF Saved, TypeOK
<1>7. \A j \in Instances, v \in Uploads :
        j # i \/ v # u => step'[j][v] = step[j][v] /\ job'[j][v] = job[j][v]
  BY <1>3, <1>4 DEF TypeOK
<1> QED
  BY <1>1, <1>6, <1>7

(***************************************************************************)
(* The values an active task's step works with, and what a statement makes *)
(* of its row.                                                             *)
(***************************************************************************)
LEMMA TaskFacts ==
  ASSUME WorkInv, NEW i \in Instances, NEW u \in Uploads, Busy(i, u)
  PROVE  /\ now \in Nat /\ now <= job[i][u].deadline + Overrun
         /\ row[u].done \in Nat /\ row[u].updatedAt \in Nat /\ row[u].updatedAt <= now
         /\ job[i][u].next \in Nat /\ job[i][u].deadline \in Nat
         /\ handed[u] \in Seq(Nat)
         /\ request[u] = "over"
         /\ step[i][u] \in Active => row[u].status = "processing"
         /\ step[i][u] = "cleanup" => row[u].status \in Terminal
<1>1. /\ now \in Nat /\ row[u] \in Rows /\ job[i][u] \in Jobs /\ handed[u] \in Seq(Nat)
      /\ step[i][u] \in Steps
  BY DEF WorkInv, TypeOK
<1>2. TaskInv(u)
  BY DEF WorkInv
<1>3. row[u].status # "none"
  BY <1>1, <1>2 DEF TaskInv, WorkerInv, Busy, Steps, Active, Terminal
<1> QED
  BY <1>1, <1>2, <1>3 DEF TaskInv, WorkerInv, RowInv, Rows, Jobs

\* A row that stays, or that its worker stamps or counts a chunk in, keeps
\* its invariant.
LEMMA QuietRow ==
  ASSUME WorkInv, NEW u \in Uploads, UNCHANGED <<now, request, handed>>,
         request[u] = "over", row'[u].status # "none",
         \/ row'[u] = row[u]
         \/ /\ row'[u].updatedAt = now
            /\ row'[u].done = row[u].done \/ row'[u].done = row[u].done + 1
  PROVE  RowInv(u)'
<1>1. RowInv(u) /\ now \in Nat /\ row[u].done \in Nat /\ handed[u] \in Seq(Nat)
  BY DEF WorkInv, TaskInv, TypeOK, Rows
<1>2. \A n \in 1 .. Len(handed[u]) : handed[u][n] \in Nat
  BY <1>1
<1>3. InOrder(u)'
  BY <1>1 DEF RowInv, InOrder
<1>4. row'[u].done \in Nat /\ row[u].done <= row'[u].done /\ row'[u].updatedAt <= now
  BY <1>1 DEF RowInv
<1>5. \A n \in 1 .. Len(handed[u]) : handed[u][n] < row'[u].done
  BY <1>1, <1>2, <1>4 DEF RowInv
<1> QED
  BY <1>3, <1>4, <1>5 DEF RowInv

\* The steps on a task keep the invariant.
LEMMA TaskSteps ==
  ASSUME WorkInv, TypeOK', NEW i \in Instances, NEW u \in Uploads, ProcessTask(i, u)
  PROVE  WorkInv'
<1>0. /\ UNCHANGED <<now, server, request, home, path>>
      /\ Busy(i, u)
      /\ \A j \in Instances, v \in Uploads :
           j # i \/ v # u => step'[j][v] = step[j][v] /\ job'[j][v] = job[j][v]
      /\ \A v \in Uploads \ {u} : row'[v] = row[v] /\ handed'[v] = handed[v]
  BY TaskFrame DEF WorkInv
<1>1. \A v \in Uploads \ {u} : TaskInv(v)'
  BY <1>0, LeftAlone DEF WorkInv
<1>2. WorkerInv(i, u)' /\ RowInv(u)'
  <2> DEFINE next == job[i][u].next
  <2>0. /\ now \in Nat /\ now <= job[i][u].deadline + Overrun
        /\ row[u].done \in Nat /\ row[u].updatedAt \in Nat /\ row[u].updatedAt <= now
        /\ job[i][u].next \in Nat /\ job[i][u].deadline \in Nat
        /\ handed[u] \in Seq(Nat)
        /\ request[u] = "over"
        /\ step[i][u] \in Active => row[u].status = "processing"
        /\ step[i][u] = "cleanup" => row[u].status \in Terminal
    BY <1>0, TaskFacts
  <2>1. WorkerInv(i, u) /\ RowInv(u)
    BY DEF WorkInv, TaskInv
  <2>2. \A s : Goes(i, u, s) => step'[i][u] = s
    BY DEF Goes, WorkInv, TypeOK
  <2>3. \A n, d : JobIs(i, u, n, d) =>
          job'[i][u] = [next |-> n, deadline |-> job[i][u].deadline, data |-> d]
    BY DEF JobIs, WorkInv, TypeOK
  <2>4. \A r : (row' = Saved(u, r)) => row'[u] = r
    BY DEF Saved, WorkInv, TypeOK
  <2>5. Returns(i, u) => step'[i][u] = "none"
    BY <2>2 DEF Returns
  <2>6. CASE ReadUpload(i, u)
    <3>1. /\ step[i][u] = "opening" /\ step'[i][u] = "chunks"
          /\ job'[i][u].next = next /\ job'[i][u].deadline = job[i][u].deadline
          /\ row'[u] = Touched(u)
          /\ handed' = handed
      <4>1. row'[u] = Touched(u)
        BY <2>4, <2>6 DEF ReadUpload, Performs
      <4>2. job'[i][u] = [next |-> next, deadline |-> job[i][u].deadline,
                          data |-> disk[i][path[u]]]
        BY <2>3, <2>6 DEF ReadUpload
      <4> QED
        BY <2>2, <2>6, <4>1, <4>2 DEF ReadUpload
    <3>2. /\ row'[u].status = "processing" /\ row'[u].done = row[u].done
          /\ row'[u].updatedAt = now
      BY <2>0, <3>1 DEF Active, Touched, WithStatus
    <3>3. RowInv(u)'
      <4>1. UNCHANGED <<now, request, handed>> /\ request[u] = "over"
        BY <1>0, <2>0, <3>1
      <4> QED
        BY <1>0, <3>2, <4>1, QuietRow
    <3>4. next = row[u].done /\ now <= job[i][u].deadline + Overrun
      BY <2>0, <2>1, <3>1 DEF WorkerInv
    <3>5. job[i][u].deadline <= now + TaskTimeout
      BY <2>0, <2>1, <3>1 DEF WorkerInv, Active
    <3>6. now' = now
      BY <1>0
    <3> QED
      BY <3>1, <3>2, <3>3, <3>4, <3>5, <3>6 DEF WorkerInv, Busy
  <2>7. CASE Requeue(i, u) \/ RequeueFails(i, u)
    <3>1. /\ step[i][u] = "opening" /\ step'[i][u] = "none"
          /\ row'[u] = row[u] \/ row'[u] = WithStatus(u, "pending")
          /\ handed' = handed
      BY <2>4, <2>5, <2>7, UnsureRow DEF Requeue, RequeueFails, Performs
    <3>2. RowInv(u)'
      BY <1>0, <2>0, <3>1, QuietRow DEF WithStatus, Active
    <3> QED
      BY <3>1, <3>2 DEF WorkerInv, Active, Busy
  <2>8. CASE OpeningFails(i, u)
    <3>1. /\ step[i][u] = "opening" /\ step'[i][u] = "failing"
          /\ job' = job /\ handed' = handed
      BY <2>2, <2>8 DEF OpeningFails
    <3>2. row'[u] = row[u] \/ row'[u] = Touched(u)
      <4>1. row' = row \/ row' = Saved(u, Touched(u))
        BY <2>8 DEF OpeningFails
      <4> QED
        BY <2>4, <4>1
    <3>3. RowInv(u)'
      BY <1>0, <2>0, <3>1, <3>2, QuietRow DEF Touched, WithStatus, Active
    <3> QED
      BY <1>0, <2>0, <2>1, <3>1, <3>2, <3>3
         DEF WorkerInv, Active, Touched, WithStatus, Busy
  <2>9. CASE Checkpoint(i, u) \/ CheckpointFails(i, u)
    <3>1. /\ step[i][u] = "chunks" /\ next = row[u].done
          /\ job' = job /\ handed' = handed
      BY <2>1, <2>9 DEF Checkpoint, CheckpointFails, ChunkLeft, WorkerInv
    <3>2. row'[u] = row[u] \/ row'[u] = WithProgress(u, next + 1)
      <4>1. row' = row \/ row' = Saved(u, WithProgress(u, next + 1))
        BY <2>9, UnsureRow DEF Checkpoint, CheckpointFails, Performs
      <4> QED
        BY <2>4, <4>1
    <3>3. RowInv(u)'
      <4>1. \/ row'[u] = row[u]
            \/ /\ row'[u].status = row[u].status /\ row'[u].updatedAt = now
               /\ row'[u].done = row[u].done + 1
        BY <3>1, <3>2 DEF WithProgress
      <4>2. row[u].status = "processing"
        BY <2>0, <3>1 DEF Active
      <4> QED
        BY <1>0, <2>0, <3>1, <4>1, <4>2, QuietRow
    <3>4. CASE Checkpoint(i, u)
      <4>1. step'[i][u] = "ingesting" /\ row'[u] = WithProgress(u, next + 1)
        BY <2>2, <2>4, <3>4 DEF Checkpoint, Performs
      <4> QED
        BY <1>0, <2>0, <2>1, <3>1, <3>3, <4>1
           DEF WorkerInv, RowInv, Active, WithProgress, Busy
    <3>5. CASE CheckpointFails(i, u)
      <4>1. step'[i][u] = "failing"
        BY <2>2, <3>5 DEF CheckpointFails
      <4> QED
        BY <1>0, <2>0, <2>1, <3>1, <3>2, <3>3, <4>1
           DEF WorkerInv, Active, WithProgress, Busy
    <3> QED
      BY <2>9, <3>4, <3>5
  <2>10. CASE IngestChunk(i, u) \/ IngestFails(i, u)
    <3>0. IngestChunk(i, u) =>
            job'[i][u] = [next |-> next + 1, deadline |-> job[i][u].deadline,
                          data |-> job[i][u].data]
      BY DEF IngestChunk, JobIs, WorkInv, TypeOK
    <3>1. /\ step[i][u] = "ingesting" /\ row' = row
          /\ handed'[u] = Append(handed[u], next)
          /\ job'[i][u].deadline = job[i][u].deadline
      <4>1. job'[i][u].deadline = job[i][u].deadline
        <5>1. CASE IngestChunk(i, u)
          BY <5>1, <3>0
        <5>2. CASE IngestFails(i, u)
          BY <5>2 DEF IngestFails
        <5> QED
          BY <2>10, <5>1, <5>2
      <4>2. step[i][u] = "ingesting" /\ row' = row
        BY <2>10 DEF IngestChunk, IngestFails
      <4>3. handed'[u] = Append(handed[u], next)
        BY <2>10 DEF IngestChunk, IngestFails, WorkInv, TypeOK
      <4> QED
        BY <4>1, <4>2, <4>3
    <3>2. /\ row[u].done = next + 1
          /\ \A n \in 1 .. Len(handed[u]) : handed[u][n] < next
      BY <2>1, <3>1 DEF WorkerInv
    <3>3. \/ step'[i][u] = "chunks" /\ job'[i][u].next = next + 1
          \/ step'[i][u] = "failing"
      <4>1. CASE IngestChunk(i, u)
        BY <2>2, <3>0, <4>1 DEF IngestChunk
      <4>2. CASE IngestFails(i, u)
        BY <2>2, <4>2 DEF IngestFails
      <4> QED
        BY <2>10, <4>1, <4>2
    <3>4. /\ Len(handed'[u]) = Len(handed[u]) + 1
          /\ handed'[u][Len(handed[u]) + 1] = next
          /\ \A n \in 1 .. Len(handed[u]) : handed'[u][n] = handed[u][n] /\ handed[u][n] \in Nat
          /\ Len(handed[u]) \in Nat
      <4>1. Len(handed[u]) \in Nat /\ \A n \in 1 .. Len(handed[u]) : handed[u][n] \in Nat
        BY <2>0
      <4>2. /\ Len(Append(handed[u], next)) = Len(handed[u]) + 1
            /\ Append(handed[u], next)[Len(handed[u]) + 1] = next
            /\ \A n \in 1 .. Len(handed[u]) : Append(handed[u], next)[n] = handed[u][n]
        BY <2>0
      <4> QED
        BY <3>1, <4>1, <4>2
    <3>5. \A n \in 1 .. Len(handed'[u]) : handed'[u][n] < row[u].done
      <4> SUFFICES ASSUME NEW n \in 1 .. Len(handed[u]) + 1
                   PROVE  handed'[u][n] < row[u].done
        BY <3>4
      <4>1. CASE n = Len(handed[u]) + 1
        BY <2>0, <3>2, <3>4, <4>1
      <4>2. CASE n \in 1 .. Len(handed[u])
        <5>1. handed[u][n] \in Nat /\ handed[u][n] < next /\ handed'[u][n] = handed[u][n]
          BY <3>2, <3>4, <4>2
        <5>2. next \in Nat /\ row[u].done = next + 1
          BY <2>0, <3>2
        <5> QED
          BY <5>1, <5>2
      <4> QED
        BY <3>4, <4>1, <4>2
    <3>6. InOrder(u)'
      <4> SUFFICES ASSUME NEW m \in 1 .. Len(handed[u]) + 1, NEW n \in 1 .. Len(handed[u]) + 1,
                          m < n
                   PROVE  handed'[u][m] < handed'[u][n]
        BY <3>4 DEF InOrder
      <4>1. m \in 1 .. Len(handed[u])
        BY <3>4
      <4>2. CASE n = Len(handed[u]) + 1
        BY <2>0, <3>2, <3>4, <4>1, <4>2
      <4>3. CASE n \in 1 .. Len(handed[u])
        BY <2>1, <3>4, <4>1, <4>3 DEF RowInv, InOrder
      <4> QED
        BY <3>4, <4>2, <4>3
    <3>7. RowInv(u)'
      BY <1>0, <2>0, <2>1, <3>1, <3>5, <3>6 DEF RowInv
    <3> QED
      BY <1>0, <2>0, <2>1, <3>1, <3>2, <3>3, <3>7 DEF WorkerInv, Active, Busy
  <2>11. CASE Complete(i, u) \/ FailTask(i, u)
    <3>1. PICK s \in {"chunks", "failing"}, status \in Terminal :
            Ends(i, u, s, status) \/ EndsUnsaved(i, u, s, status)
      BY <2>11 DEF Complete, FailTask, Terminal
    <3>2. /\ step[i][u] = s /\ handed' = handed
          /\ row'[u] = row[u] \/ row'[u] = WithStatus(u, status)
      BY <2>4, <3>1, UnsureRow DEF Ends, EndsUnsaved, Performs
    <3>3. RowInv(u)'
      BY <1>0, <2>0, <3>2, QuietRow DEF WithStatus, Active, Terminal
    <3>4. \/ step'[i][u] = "none"
          \/ step'[i][u] = "cleanup" /\ job' = job /\ row'[u] = WithStatus(u, status)
      BY <2>2, <2>4, <2>5, <3>1 DEF Ends, EndsUnsaved, Performs
    <3> QED
      BY <1>0, <2>0, <3>3, <3>4 DEF WorkerInv, Active, WithStatus, Busy
  <2>12. CASE CleanupFile(i, u)
    <3>1. /\ step[i][u] = "cleanup" /\ step'[i][u] = "none"
          /\ UNCHANGED <<row, handed>>
      BY <2>5, <2>12 DEF CleanupFile
    <3>2. RowInv(u)'
      BY <1>0, <2>0, <3>1, QuietRow DEF Terminal
    <3> QED
      BY <3>1, <3>2 DEF WorkerInv, Active, Busy
  <2> QED
    BY <2>6, <2>7, <2>8, <2>9, <2>10, <2>11, <2>12 DEF ProcessTask
<1>3. TaskInv(u)'
  BY <1>0, <1>2, WorkerSteps DEF WorkInv
<1>4. DownIsIdle'
  <2>1. server[i] # "down"
    BY <1>0 DEF WorkInv, DownIsIdle, NoJobs, Busy
  <2> QED
    BY <1>0, <2>1 DEF WorkInv, DownIsIdle, NoJobs
<1> QED
  BY <1>1, <1>3, <1>4 DEF WorkInv

-----------------------------------------------------------------------------
(***************************************************************************)
(* The invariant holds, over crashes, resets, requeues and failing         *)
(* statements: a task has one worker, which is in step with its row.       *)
(***************************************************************************)
THEOREM WorkInvariance == ASSUME OneAtATime PROVE Spec => []WorkInv
<1>1. Init /\ TypeOK => WorkInv
  BY DEF Init, WorkInv, TaskInv, WorkerInv, RowInv, InOrder, OneWorker, Busy, Active,
         NoRow, NoJob, Terminal, DownIsIdle, NoJobs
<1>2. WorkInv /\ TypeOK' /\ [Next]_vars => WorkInv'
  <2> SUFFICES ASSUME WorkInv, TypeOK', [Next]_vars PROVE WorkInv'
    OBVIOUS
  <2>1. ASSUME NEW u \in Uploads,
               \/ \E i \in Instances, p \in Paths : StoreFile(i, u, p)
               \/ CreateTask(u) \/ CreateTaskFails(u)
        PROVE  WorkInv'
    BY <2>1, RequestSteps
  <2>2. ASSUME NEW i \in Instances,
               StartServer(i) \/ StartServerFails(i) \/ StopServer(i) \/ FetchPendingFails(i)
        PROVE  WorkInv'
    <3>1. UNCHANGED <<now, step, job, handed, request>>
      BY <2>2 DEF StartServer, StartServerFails, StopServer, FetchPendingFails, upload
    <3>2. CASE StartServer(i) \/ StartServerFails(i)
      <4>1. server[i] = "down" /\ row' \in {row, Reset}
        BY <3>2 DEF StartServer, StartServerFails
      <4>2. \A u \in Uploads, j \in Instances : Stale(u) => step[j][u] = "none"
        BY <4>1, ResetIsFree
      <4>3. DownIsIdle'
        <5>1. server' \in {[server EXCEPT ![i] = "running"], [server EXCEPT ![i] = "idle"]}
          BY <3>2 DEF StartServer, StartServerFails
        <5>2. \A j \in Instances : server'[j] = "down" => server[j] = "down"
          BY <5>1 DEF WorkInv, TypeOK
        <5> QED
          BY <3>1, <5>2 DEF WorkInv, DownIsIdle, NoJobs
      <4> QED
        BY <3>1, <4>1, <4>2, <4>3, RowsOfIdleTasks
    <3>3. CASE StopServer(i) \/ FetchPendingFails(i)
      <4>1. row' = row \/ \E batch \in Batches : row' = Taken(batch)
        BY <3>3 DEF StopServer, FetchPendingFails
      <4>2. DownIsIdle'
        BY <3>1, <3>3 DEF StopServer, FetchPendingFails, WorkInv, TypeOK, DownIsIdle, NoJobs
      <4> QED
        BY <3>1, <4>1, <4>2, RowsOfIdleTasks
    <3> QED
      BY <2>2, <3>2, <3>3
  <2>3. ASSUME NEW i \in Instances, ProcessEnds(i) PROVE WorkInv'
    <3>d. DownIsIdle'
      BY <2>3 DEF ProcessEnds, WorkInv, TypeOK, DownIsIdle, NoJobs
    <3> SUFFICES ASSUME NEW u \in Uploads PROVE TaskInv(u)'
      BY <3>d DEF WorkInv
    <3>0. TaskInv(u)
      BY DEF WorkInv
    <3>1. /\ UNCHANGED <<now, row, handed>>
          /\ request'[u] # "over" => request[u] # "over"
      BY <2>3 DEF ProcessEnds
    <3>2. /\ step'[i][u] = "none"
          /\ \A j \in Instances \ {i} : step'[j][u] = step[j][u] /\ job'[j][u] = job[j][u]
      BY <2>3 DEF ProcessEnds, WorkInv, TypeOK
    <3>3. \A j \in Instances : WorkerInv(j, u)'
      BY <3>0, <3>1, <3>2 DEF TaskInv, WorkerInv, Busy, Active
    <3>4. RowInv(u)'
      BY <3>0, <3>1 DEF TaskInv, RowInv, InOrder
    <3>5. OneWorker(u)'
      BY <3>0, <3>2 DEF TaskInv, OneWorker, Busy
    <3> QED
      BY <3>3, <3>4, <3>5 DEF TaskInv
  <2>4. ASSUME NEW i \in Instances, FetchPending(i) PROVE WorkInv'
    BY <2>4, PollSteps
  <2>5. ASSUME NEW i \in Instances, NEW u \in Uploads, ProcessTask(i, u) PROVE WorkInv'
    BY <2>5, TaskSteps
  <2>6. CASE Tick
    <3>d. DownIsIdle'
      BY <2>6 DEF Tick, WorkInv, DownIsIdle, NoJobs
    <3> SUFFICES ASSUME NEW u \in Uploads PROVE TaskInv(u)'
      BY <3>d DEF WorkInv
    <3>0. /\ TaskInv(u) /\ now \in Nat /\ row[u].updatedAt \in Nat
          /\ \A i \in Instances : job[i][u].deadline \in Nat
      BY DEF WorkInv, TypeOK, Rows, Jobs
    <3>1. /\ now' = now + 1
          /\ UNCHANGED <<request, row, step, job, handed>>
          /\ \A i \in Instances : Busy(i, u) => now < job[i][u].deadline + Overrun
      BY <2>6 DEF Tick, upload
    <3>2. \A i \in Instances : WorkerInv(i, u)'
      BY <3>0, <3>1 DEF TaskInv, WorkerInv, Busy
    <3>3. RowInv(u)'
      BY <3>0, <3>1 DEF TaskInv, RowInv, InOrder
    <3>4. OneWorker(u)'
      BY <3>0, <3>1 DEF TaskInv, OneWorker, Busy
    <3> QED
      BY <3>2, <3>3, <3>4 DEF TaskInv
  <2>7. CASE UNCHANGED vars
    <3>1. DownIsIdle' /\ TypeOK'
      BY <2>7 DEF vars, WorkInv, DownIsIdle, NoJobs
    <3> QED
      BY <2>7, <3>1, LeftAlone DEF vars, upload, WorkInv
  <2> QED
    BY <2>1, <2>2, <2>3, <2>4, <2>5, <2>6, <2>7 DEF Next
<1> QED
  BY <1>1, <1>2, UploadTypes, PTL DEF Spec

(***************************************************************************)
(* Checkpoint-before-work: a task's chunks go to the ingest service in     *)
(* order and each at most once.                                            *)
(***************************************************************************)
THEOREM ChunksInOrder == ASSUME OneAtATime PROVE Spec => []HandedInOrder
<1>1. WorkInv => HandedInOrder
  BY DEF WorkInv, TaskInv, RowInv, InOrder, HandedInOrder
<1> QED
  BY <1>1, WorkInvariance, PTL

(***************************************************************************)
(* ResetProcessing takes no task from a worker.                            *)
(***************************************************************************)
THEOREM ResetTakesAbandoned == ASSUME WoundUpInTime PROVE Spec => []ResetIsSafe
<1>0. OneAtATime
  BY DEF OneAtATime
<1>1. WorkInv => ResetIsSafe
  BY StaleIsIdle DEF WorkInv, ResetIsSafe
<1> QED
  BY <1>0, <1>1, WorkInvariance, PTL

(***************************************************************************)
(* A done or failed task stays done or failed: the invariant leaves no     *)
(* worker, reset or poll that would write another status over it.          *)
(***************************************************************************)
THEOREM FinalStays == ASSUME OneAtATime PROVE Spec => FinalIsFinal
<1> DEFINE Keeps == \A u \in Uploads : row[u].status \in Terminal => row'[u].status = row[u].status
<1>1. WorkInv /\ [Next]_vars => [Keeps]_vars
  <2> SUFFICES ASSUME WorkInv, Next, NEW u \in Uploads, row[u].status \in Terminal
               PROVE  row'[u].status = row[u].status
    OBVIOUS
  <2>0. TaskInv(u) /\ TypeOK
    BY DEF WorkInv
  <2>1. ASSUME NEW v \in Uploads,
               \/ \E i \in Instances, p \in Paths : StoreFile(i, v, p)
               \/ CreateTask(v) \/ CreateTaskFails(v)
        PROVE  row'[u] = row[u]
    <3>1. CASE row' = row
      BY <3>1
    <3>2. CASE request[v] = "stored" /\ row' = Saved(v, NewRow)
      <4>1. u # v
        BY <2>0, <3>2 DEF TaskInv, RowInv, Terminal
      <4> QED
        BY <2>0, <3>2, <4>1 DEF Saved, TypeOK
    <3> QED
      BY <2>1, <3>1, <3>2, UnsureRow DEF StoreFile, CreateTask, CreateTaskFails, Performs
  <2>2. ASSUME NEW i \in Instances,
               \/ StartServer(i) \/ StartServerFails(i) \/ StopServer(i) \/ ProcessEnds(i)
               \/ FetchPending(i) \/ FetchPendingFails(i)
        PROVE  row'[u] = row[u]
    <3>1. row' = row \/ row' = Reset \/ \E batch \in Batches : row' = Taken(batch)
      BY <2>2 DEF StartServer, StartServerFails, StopServer, ProcessEnds, FetchPending,
                  FetchPendingFails
    <3> QED
      BY <3>1 DEF Reset, Stale, Batches, Pending, Taken, Terminal
  <2>3. ASSUME NEW i \in Instances, NEW v \in Uploads, ProcessTask(i, v), v # u
        PROVE  row'[u] = row[u]
    BY <2>0, <2>3, TaskFrame
  <2>4. ASSUME NEW i \in Instances, ProcessTask(i, u) PROVE row'[u] = row[u]
    <3>1. step[i][u] \notin Active
      BY <2>0 DEF TaskInv, WorkerInv, Terminal
    <3> QED
      BY <2>4, <3>1
         DEF ProcessTask, ReadUpload, Requeue, RequeueFails, OpeningFails, Checkpoint,
             CheckpointFails, ChunkLeft, IngestChunk, IngestFails, Complete, FailTask, Ends,
             EndsUnsaved, CleanupFile, Active
  <2>5. CASE Tick
    BY <2>5 DEF Tick
  <2> QED
    BY <2>1, <2>2, <2>3, <2>4, <2>5 DEF Next
<1> QED
  BY <1>1, WorkInvariance, PTL DEF Spec, FinalIsFinal

-----------------------------------------------------------------------------
(***************************************************************************)
(* The import implements ImportHistory.  Of what a step may do to the row  *)
(* and the chunks of a task, the invariant leaves what the status that the *)
(* row has allows.                                                         *)
(***************************************************************************)
\* Statements that move tasks from a status to another move them in the history.
LEMMA MoveSteps ==
  ASSUME WorkInv, UNCHANGED handed, NEW tasks \in SUBSET Uploads, NEW from, NEW to,
         \A u \in tasks : row[u].status = from,
         row' = [u \in Uploads |-> IF u \in tasks THEN WithStatus(u, to) ELSE row[u]]
  PROVE  History!Moves(tasks, from, to)
<1>1. \A u \in Uploads : /\ row'[u].status = IF u \in tasks THEN to ELSE row[u].status
                         /\ row'[u].done = row[u].done
  BY DEF WithStatus
<1>2. [u \in Uploads |-> row[u].status]'
        = [u \in Uploads |-> IF u \in tasks THEN to ELSE [v \in Uploads |-> row[v].status][u]]
  BY <1>1
<1>3. [u \in Uploads |-> row[u].done]' = [u \in Uploads |-> row[u].done]
  BY <1>1
<1> QED
  BY <1>2, <1>3 DEF History!Moves

\* A statement about one task, and one that leaves its status and progress.
LEMMA StatusSteps ==
  ASSUME WorkInv, UNCHANGED handed, NEW u \in Uploads, NEW to, row' = Saved(u, WithStatus(u, to))
  PROVE  History!Moves({u}, row[u].status, to)
<1>1. row' = [v \in Uploads |-> IF v \in {u} THEN WithStatus(v, to) ELSE row[v]]
  BY DEF Saved, WorkInv, TypeOK
<1> QED
  BY <1>1, MoveSteps

LEMMA StutterSteps ==
  ASSUME UNCHANGED handed,
         \A u \in Uploads : row'[u].status = row[u].status /\ row'[u].done = row[u].done
  PROVE  UNCHANGED History!vars
  BY DEF History!vars

\* Whether or not the statement was performed.
LEMMA UnsureSteps ==
  ASSUME WorkInv, UNCHANGED handed, NEW u \in Uploads, NEW to,
         Performs(u, WithStatus(u, to)) \/ Errs(u, WithStatus(u, to))
  PROVE  History!Moves({u}, row[u].status, to) \/ UNCHANGED History!vars
<1>1. row' = row \/ row' = Saved(u, WithStatus(u, to))
  BY UnsureRow DEF Performs
<1> QED
  BY <1>1, StatusSteps, StutterSteps

\* A step of the handler queues a task that was not there.
LEMMA RequestHistory ==
  ASSUME WorkInv, NEW u \in Uploads,
         \/ \E i \in Instances, p \in Paths : StoreFile(i, u, p)
         \/ CreateTask(u) \/ CreateTaskFails(u)
  PROVE  History!Queue(u) \/ UNCHANGED History!vars
<1>1. UNCHANGED handed
  BY DEF StoreFile, CreateTask, CreateTaskFails
<1>2. CASE row' = row
  BY <1>1, <1>2, StutterSteps
<1>3. CASE request[u] = "stored" /\ row' = Saved(u, NewRow)
  <2>1. row[u].status = "none" /\ row[u].done = 0
    BY <1>3 DEF WorkInv, TaskInv, RowInv
  <2>2. \A v \in Uploads : row'[v].status = (IF v \in {u} THEN "pending" ELSE row[v].status)
                            /\ row'[v].done = row[v].done
    BY <1>3, <2>1 DEF Saved, NewRow, WorkInv, TypeOK
  <2> QED
    BY <1>1, <2>1, <2>2 DEF History!Queue, History!Moves
<1> QED
  BY <1>2, <1>3, UnsureRow DEF StoreFile, CreateTask, CreateTaskFails, Performs

\* A start puts the abandoned tasks back, a poll takes queued ones.
LEMMA ServerHistory ==
  ASSUME WorkInv, NEW i \in Instances,
         \/ StartServer(i) \/ StartServerFails(i) \/ StopServer(i) \/ ProcessEnds(i)
         \/ FetchPending(i) \/ FetchPendingFails(i)
  PROVE  \/ \E tasks \in SUBSET Uploads : History!Take(tasks) \/ History!PutBack(tasks)
         \/ UNCHANGED History!vars
<1>1. /\ UNCHANGED handed
      /\ row' = row \/ row' = Reset \/ \E batch \in Batches : row' = Taken(batch)
  BY DEF StartServer, StartServerFails, StopServer, ProcessEnds, FetchPending,
         FetchPendingFails
<1>2. CASE row' = row
  BY <1>1, <1>2, StutterSteps
<1>3. CASE row' = Reset
  <2> DEFINE tasks == {u \in Uploads : Stale(u)}
  <2>1. /\ row' = [u \in Uploads |-> IF u \in tasks THEN WithStatus(u, "pending") ELSE row[u]]
        /\ \A u \in tasks : row[u].status = "processing"
    BY <1>3 DEF Reset, Stale
  <2>2. History!Moves(tasks, "processing", "pending")
    BY <1>1, <2>1, MoveSteps
  <2> QED
    BY <2>2 DEF History!PutBack
<1>4. ASSUME NEW batch \in Batches, row' = Taken(batch)
      PROVE  \E tasks \in SUBSET Uploads : History!Take(tasks)
  <2>1. batch \in SUBSET Uploads /\ \A u \in batch : row[u].status = "pending"
    BY DEF Batches, Pending
  <2>2. History!Moves(batch, "pending", "processing")
    BY <1>1, <1>4, <2>1, MoveSteps DEF Taken
  <2> QED
    BY <2>1, <2>2 DEF History!Take
<1> QED
  BY <1>1, <1>2, <1>3, <1>4

\* A worker requeues, ends, counts a chunk or hands it on.
LEMMA TaskHistory ==
  ASSUME WorkInv, NEW i \in Instances, NEW u \in Uploads, ProcessTask(i, u)
  PROVE  \/ \E tasks \in SUBSET Uploads : History!PutBack(tasks)
         \/ History!End(u) \/ History!CountChunk(u) \/ History!HandOn(u)
         \/ UNCHANGED History!vars
<1> DEFINE next == job[i][u].next
<1>0. /\ WorkerInv(i, u) /\ RowInv(u) /\ TypeOK
      /\ row[u].done \in Nat /\ next \in Nat /\ handed[u] \in Seq(Nat)
      /\ step[i][u] \in Active => row[u].status = "processing"
  BY TaskFrame, TaskFacts DEF WorkInv, TaskInv
<1>1. CASE ReadUpload(i, u) \/ OpeningFails(i, u) \/ CleanupFile(i, u)
  <2>1. handed' = handed /\ (row' = row \/ row' = Saved(u, Touched(u)))
    BY <1>1 DEF ReadUpload, OpeningFails, CleanupFile, Performs
  <2>2. \A v \in Uploads : row'[v].status = row[v].status /\ row'[v].done = row[v].done
    <3>1. Touched(u).status = row[u].status /\ Touched(u).done = row[u].done
      BY DEF Touched, WithStatus
    <3> QED
      BY <1>0, <2>1, <3>1 DEF Saved, TypeOK
  <2> QED
    BY <2>1, <2>2, StutterSteps
<1>2. CASE Requeue(i, u) \/ RequeueFails(i, u)
  <2>1. /\ handed' = handed /\ row[u].status = "processing"
        /\ Performs(u, WithStatus(u, "pending")) \/ Errs(u, WithStatus(u, "pending"))
    BY <1>0, <1>2 DEF Requeue, RequeueFails, Active
  <2>2. History!Moves({u}, "processing", "pending") \/ UNCHANGED History!vars
    BY <2>1, UnsureSteps
  <2> QED
    BY <2>2 DEF History!PutBack
<1>3. CASE Checkpoint(i, u) \/ CheckpointFails(i, u)
  <2>1. /\ handed' = handed /\ row[u].status = "processing" /\ next = row[u].done
        /\ row' = row \/ row' = Saved(u, WithProgress(u, next + 1))
    BY <1>0, <1>3, UnsureRow
       DEF Checkpoint, CheckpointFails, ChunkLeft, Performs, WorkerInv, Active
  <2>2. CASE row' = row
    BY <2>1, <2>2, StutterSteps
  <2>3. CASE row' = Saved(u, WithProgress(u, next + 1))
    <3>1. \A v \in Uploads : /\ row'[v].status = row[v].status
                             /\ row'[v].done = IF v = u THEN row[u].done + 1 ELSE row[v].done
      BY <1>0, <2>1, <2>3 DEF Saved, WithProgress, TypeOK
    <3> QED
      BY <2>1, <3>1 DEF History!CountChunk
  <2> QED
    BY <2>1, <2>2, <2>3
<1>4. CASE IngestChunk(i, u) \/ IngestFails(i, u)
  <2>1. /\ row' = row /\ handed' = [handed EXCEPT ![u] = Append(@, next)]
        /\ step[i][u] = "ingesting"
    BY <1>4 DEF IngestChunk, IngestFails
  <2>2. /\ row[u].done = next + 1 /\ row[u].status = "processing"
        /\ \A n \in 1 .. Len(handed[u]) : handed[u][n] < next
    BY <1>0, <2>1 DEF WorkerInv, Active
  <2>3. \A n \in 1 .. Len(handed[u]) : handed[u][n] + 1 < row[u].done
    BY <1>0, <2>2
  <2>4. next = row[u].done - 1 /\ row[u].done > 0
    BY <1>0, <2>2
  <2> QED
    BY <2>1, <2>2, <2>3, <2>4 DEF History!HandOn
<1>5. CASE Complete(i, u) \/ FailTask(i, u)
  <2>1. PICK final \in {"done", "failed"} :
          /\ handed' = handed /\ row[u].status = "processing"
          /\ Performs(u, WithStatus(u, final)) \/ Errs(u, WithStatus(u, final))
    BY <1>0, <1>5 DEF Complete, FailTask, Ends, EndsUnsaved, Active
  <2>2. History!Moves({u}, "processing", final) \/ UNCHANGED History!vars
    BY <2>1, UnsureSteps
  <2> QED
    BY <2>2 DEF History!End
<1> QED
  BY <1>1, <1>2, <1>3, <1>4, <1>5 DEF ProcessTask

(***************************************************************************)
(* The statuses, the progress and the chunks handed on of all the imports  *)
(* are a history that ImportHistory allows: a task is queued once, is put  *)
(* back only by whoever may, ends for good, and counts a chunk before it   *)
(* hands it on.                                                            *)
(***************************************************************************)
THEOREM ImportIsHistory == ASSUME OneAtATime PROVE Spec => IsImportHistory
<1>1. Init => History!Init
  BY DEF Init, NoRow, History!Init
<1>2. WorkInv /\ [Next]_vars => [History!Next]_(History!vars)
  <2> SUFFICES ASSUME WorkInv, [Next]_vars PROVE History!Next \/ UNCHANGED History!vars
    OBVIOUS
  <2>1. ASSUME NEW u \in Uploads,
               \/ \E i \in Instances, p \in Paths : StoreFile(i, u, p)
               \/ CreateTask(u) \/ CreateTaskFails(u)
        PROVE  History!Next \/ UNCHANGED History!vars
    BY <2>1, RequestHistory DEF History!Next
  <2>2. ASSUME NEW i \in Instances,
               \/ StartServer(i) \/ StartServerFails(i) \/ StopServer(i) \/ ProcessEnds(i)
               \/ FetchPending(i) \/ FetchPendingFails(i)
        PROVE  History!Next \/ UNCHANGED History!vars
    BY <2>2, ServerHistory DEF History!Next
  <2>3. ASSUME NEW i \in Instances, NEW u \in Uploads, ProcessTask(i, u)
        PROVE  History!Next \/ UNCHANGED History!vars
    BY <2>3, TaskHistory DEF History!Next
  <2>4. CASE Tick \/ UNCHANGED vars
    BY <2>4, StutterSteps DEF Tick, vars
  <2> QED
    BY <2>1, <2>2, <2>3, <2>4 DEF Next
<1> QED
  BY <1>1, <1>2, WorkInvariance, PTL DEF Spec, IsImportHistory, History!Spec

-----------------------------------------------------------------------------
(***************************************************************************)
(* Files.  On one instance a file stays where its row says for as long as  *)
(* somebody may look for it there: while the request is under way, while   *)
(* the task is queued or processed, and until its cleanup.  With two, a    *)
(* cleanup by path may remove the file of another upload.                  *)
(***************************************************************************)
Needs(u) ==
  \/ request[u] = "stored"
  \/ row[u].status \in {"pending", "processing"}
  \/ \E i \in Instances : step[i][u] = "cleanup"

FilesKept == \A u \in Uploads : Needs(u) => disk[home[u]][path[u]] = u

\* A step that makes no more tasks look for their files.
LEMMA SameFiles ==
  ASSUME FilesKept, UNCHANGED <<disk, home, path>>,
         \A u \in Uploads : Needs(u)' => Needs(u)
  PROVE  FilesKept'
  BY DEF FilesKept

\* Taking away the file of one upload, which nobody looks for any more.
LEMMA OtherFiles ==
  ASSUME TypeOK, FilesKept, NEW u \in Uploads, disk[home[u]][path[u]] = u,
         disk' = disk \/ disk' = Removed(home[u], path[u]), UNCHANGED <<home, path>>,
         \A v \in Uploads : Needs(v)' => Needs(v), ~Needs(u)'
  PROVE  FilesKept'
<1> SUFFICES ASSUME NEW v \in Uploads, Needs(v)' PROVE disk'[home[v]][path[v]] = v
  BY DEF FilesKept
<1>1. v # u /\ disk[home[v]][path[v]] = v
  BY DEF FilesKept
<1>2. home[v] # home[u] \/ path[v] # path[u]
  BY <1>1
<1> QED
  BY <1>1, <1>2 DEF TypeOK, Removed

\* The handler keeps the files.
LEMMA RequestFiles ==
  ASSUME WorkInv, FilesKept, ~UnsureErrors, NEW u \in Uploads,
         \/ \E i \in Instances, p \in Paths : StoreFile(i, u, p)
         \/ CreateTask(u) \/ CreateTaskFails(u)
  PROVE  FilesKept'
<1>0. TypeOK
  BY DEF WorkInv
<1>1. ASSUME NEW i \in Instances, NEW p \in Paths, StoreFile(i, u, p) PROVE FilesKept'
  <2> SUFFICES ASSUME NEW v \in Uploads, Needs(v)'
               PROVE  disk'[home'[v]][path'[v]] = v
    BY DEF FilesKept
  <2>1. CASE v = u
    BY <1>0, <1>1, <2>1 DEF StoreFile, TypeOK
  <2>2. CASE v # u
    <3>1. home'[v] = home[v] /\ path'[v] = path[v] /\ Needs(v)
      BY <1>0, <1>1, <2>2 DEF StoreFile, TypeOK, Needs
    <3>2. disk[home[v]][path[v]] = v /\ disk[i][p] = NoUpload
      BY <1>1, <3>1 DEF FilesKept, StoreFile, Stored
    <3>3. home[v] # i \/ path[v] # p
      BY <3>2
    <3> QED
      BY <1>0, <1>1, <3>1, <3>2, <3>3 DEF StoreFile, TypeOK
  <2> QED
    BY <2>1, <2>2
<1>2. CASE CreateTask(u)
  <2>1. UNCHANGED <<disk, home, path>>
    BY <1>2 DEF CreateTask
  <2>2. \A v \in Uploads : Needs(v)' => Needs(v)
    BY <1>0, <1>2 DEF CreateTask, Performs, Saved, TypeOK, Needs
  <2> QED
    BY <2>1, <2>2, SameFiles
<1>3. CASE CreateTaskFails(u)
  <2>1. /\ request[u] = "stored" /\ request' = [request EXCEPT ![u] = "over"]
        /\ UNCHANGED <<home, path, step>>
        /\ disk' = disk \/ disk' = Removed(home[u], path[u])
    BY <1>3 DEF CreateTaskFails
  <2>2. row' = row
    BY <1>3 DEF CreateTaskFails, Errs
  <2>3. row[u].status = "none"
    BY <2>1 DEF WorkInv, TaskInv, RowInv
  <2>4. \A i \in Instances : step[i][u] = "none"
    BY <1>0, <2>3, PendingIsIdle DEF WorkInv
  <2>5. disk[home[u]][path[u]] = u
    BY <2>1 DEF FilesKept, Needs
  <2>6. \A v \in Uploads : Needs(v)' => Needs(v)
    BY <1>0, <2>1, <2>2 DEF TypeOK, Needs
  <2>7. ~Needs(u)'
    BY <1>0, <2>1, <2>2, <2>3, <2>4 DEF TypeOK, Needs
  <2> QED
    BY <1>0, <2>1, <2>5, <2>6, <2>7, OtherFiles
<1> QED
  BY <1>1, <1>2, <1>3

\* A worker's step keeps them; its cleanup removes the file of its own task.
LEMMA TaskFiles ==
  ASSUME WorkInv, FilesKept, ~UnsureErrors, OneInstance,
         NEW i \in Instances, NEW u \in Uploads, ProcessTask(i, u)
  PROVE  FilesKept'
<1>0. /\ TypeOK
      /\ UNCHANGED <<request, home, path>>
      /\ \A v \in Uploads \ {u} : row'[v] = row[v]
      /\ \A j \in Instances, v \in Uploads \ {u} : step'[j][v] = step[j][v]
  BY TaskFrame DEF WorkInv
<1>1. \A v \in Uploads \ {u} : Needs(v)' => Needs(v)
  BY <1>0 DEF Needs
<1>2. CASE CleanupFile(i, u)
  <2>1. /\ step[i][u] = "cleanup" /\ row' = row
        /\ disk' = disk \/ disk' = Removed(home[u], path[u])
    BY <1>0, <1>2 DEF CleanupFile, OneInstance, TypeOK
  <2>2. disk[home[u]][path[u]] = u
    BY <2>1 DEF FilesKept, Needs
  <2>3. request[u] = "over" /\ row[u].status \in Terminal
    BY <2>1, TaskFacts DEF Busy
  <2>4. \A j \in Instances : step'[j][u] = "none"
    BY <1>0, <1>2 DEF CleanupFile, Returns, Goes, OneInstance, TypeOK
  <2>5. ~Needs(u)'
    BY <1>0, <2>1, <2>3, <2>4 DEF Needs, Terminal
  <2> QED
    BY <1>0, <1>1, <2>1, <2>2, <2>5, OtherFiles
<1>3. CASE ~CleanupFile(i, u)
  <2>1. step[i][u] \in Active
    BY <1>3 DEF ProcessTask, ReadUpload, Requeue, RequeueFails, OpeningFails, Checkpoint,
         CheckpointFails, ChunkLeft, IngestChunk, IngestFails, Complete, FailTask, Ends,
         EndsUnsaved, Active
  <2>2. Needs(u)
    BY <2>1 DEF WorkInv, TaskInv, WorkerInv, Needs
  <2>3. UNCHANGED disk
    BY <1>3 DEF ProcessTask, ReadUpload, Requeue, RequeueFails, OpeningFails, Checkpoint,
         CheckpointFails, IngestChunk, IngestFails, Complete, FailTask, Ends, EndsUnsaved
  <2> QED
    BY <1>0, <1>1, <2>2, <2>3, SameFiles
<1> QED
  BY <1>2, <1>3

\* Files stay where they are looked for, in every state.
THEOREM FilesInvariance == ASSUME OneInstance, ~UnsureErrors PROVE Spec => []FilesKept
<1>0. OneAtATime
  BY DEF OneAtATime
<1>1. Init => FilesKept
  BY DEF Init, FilesKept, Needs, NoRow
<1>2. WorkInv /\ FilesKept /\ [Next]_vars => FilesKept'
  <2> SUFFICES ASSUME WorkInv, FilesKept, [Next]_vars PROVE FilesKept'
    OBVIOUS
  <2>0. TypeOK
    BY DEF WorkInv
  <2>1. ASSUME NEW u \in Uploads,
               \/ \E i \in Instances, p \in Paths : StoreFile(i, u, p)
               \/ CreateTask(u) \/ CreateTaskFails(u)
        PROVE  FilesKept'
    BY <2>1, RequestFiles
  <2>2. ASSUME NEW i \in Instances,
               \/ StartServer(i) \/ StartServerFails(i) \/ StopServer(i) \/ ProcessEnds(i)
               \/ FetchPending(i) \/ FetchPendingFails(i)
        PROVE  FilesKept'
    <3>1. row' = row \/ row' = Reset \/ \E batch \in Batches : row' = Taken(batch)
      BY <2>2 DEF StartServer, StartServerFails, StopServer, ProcessEnds, FetchPending,
                  FetchPendingFails
    <3>2. \A u \in Uploads : row'[u].status \in {"pending", "processing"} =>
                               row[u].status \in {"pending", "processing"}
      BY <3>1 DEF Reset, Stale, Batches, Pending, Taken
    <3>3. \A u \in Uploads, j \in Instances : step'[j][u] = "cleanup" => step[j][u] = "cleanup"
      <4>1. CASE ProcessEnds(i)
        BY <2>0, <4>1 DEF ProcessEnds, TypeOK
      <4>2. CASE FetchPending(i)
        BY <2>0, <4>2 DEF FetchPending, TypeOK
      <4> QED
        BY <2>2, <4>1, <4>2 DEF StartServer, StartServerFails, StopServer, FetchPendingFails
    <3>4. /\ UNCHANGED <<disk, home, path>>
          /\ \A u \in Uploads : request'[u] = "stored" => request[u] = "stored"
      BY <2>2 DEF StartServer, StartServerFails, StopServer, ProcessEnds, FetchPending,
                  FetchPendingFails, upload
    <3> QED
      BY <3>2, <3>3, <3>4, SameFiles DEF Needs
  <2>3. ASSUME NEW i \in Instances, NEW u \in Uploads, ProcessTask(i, u) PROVE FilesKept'
    BY <2>3, TaskFiles
  <2>4. CASE Tick \/ UNCHANGED vars
    BY <2>4, SameFiles DEF Tick, vars, upload, Needs
  <2> QED
    BY <2>1, <2>2, <2>3, <2>4 DEF Next
<1> QED
  BY <1>0, <1>1, <1>2, WorkInvariance, PTL DEF Spec

(***************************************************************************)
(* On one instance, with statements that do what they report, a queued     *)
(* task's file is where its row says: no crash, no reset, no handler that  *)
(* gives up and no other task's cleanup removes it.                        *)
(***************************************************************************)
THEOREM QueuedFilesStay ==
  ASSUME OneInstance, ~UnsureErrors
  PROVE  Spec => []QueuedHasItsFile
<1>1. FilesKept => QueuedHasItsFile
  BY DEF FilesKept, Needs, QueuedHasItsFile
<1> QED
  BY <1>1, FilesInvariance, PTL

-----------------------------------------------------------------------------
(***************************************************************************)
(* What the client is told.  A worker has read the file of its own task,   *)
(* counts no chunk that is not in it, and says done only when it has       *)
(* counted them all, in however many attempts.                             *)
(***************************************************************************)
CountedRight(u) ==
  /\ row[u].done <= Size[u]
  /\ row[u].status = "done" => row[u].done = Size[u]
  /\ \A i \in Instances : step[i][u] \in {"chunks", "ingesting"} => job[i][u].data = u

CountsRight == \A u \in Uploads : CountedRight(u)

DoneIsCounted == \A u \in Uploads : row[u].status = "done" => row[u].done = Size[u]

\* A step that does not count and completes nothing.
LEMMA CountStays ==
  ASSUME NEW u \in Uploads, CountedRight(u), row'[u].done = row[u].done,
         row'[u].status = "done" => row[u].status = "done",
         \A i \in Instances : step'[i][u] \in {"chunks", "ingesting"} =>
           step[i][u] \in {"chunks", "ingesting"} /\ job'[i][u].data = job[i][u].data
  PROVE  CountedRight(u)'
  BY DEF CountedRight

\* The handler makes a task of which nothing is counted.
LEMMA RequestCounts ==
  ASSUME WorkInv, NEW u \in Uploads, CountedRight(u), NEW v \in Uploads,
         \/ \E i \in Instances, p \in Paths : StoreFile(i, v, p)
         \/ CreateTask(v) \/ CreateTaskFails(v)
  PROVE  CountedRight(u)'
<1>1. UNCHANGED <<step, job>> /\ TypeOK /\ RowInv(v)
  BY DEF StoreFile, CreateTask, CreateTaskFails, WorkInv, TaskInv
<1>2. row' = row \/ (request[v] = "stored" /\ row' = Saved(v, NewRow))
  BY UnsureRow DEF StoreFile, CreateTask, CreateTaskFails, Performs
<1>3. row'[u].done = row[u].done /\ (row'[u].status = "done" => row[u].status = "done")
  <2>1. CASE row' = row
    BY <2>1
  <2>2. CASE request[v] = "stored" /\ row' = Saved(v, NewRow)
    <3>1. row[v].done = 0
      BY <1>1, <2>2 DEF RowInv
    <3>2. row'[u] = IF u = v THEN NewRow ELSE row[u]
      BY <1>1, <2>2 DEF Saved, TypeOK
    <3> QED
      BY <3>1, <3>2 DEF NewRow
  <2> QED
    BY <1>2, <2>1, <2>2
<1> QED
  BY <1>1, <1>3, CountStays

\* A start or a poll changes a status, but not to done.
LEMMA ServerCounts ==
  ASSUME WorkInv, NEW u \in Uploads, CountedRight(u), NEW i \in Instances,
         \/ StartServer(i) \/ StartServerFails(i) \/ StopServer(i) \/ ProcessEnds(i)
         \/ FetchPending(i) \/ FetchPendingFails(i)
  PROVE  CountedRight(u)'
<1>0. TypeOK
  BY DEF WorkInv
<1>1. row' = row \/ row' = Reset \/ \E batch \in Batches : row' = Taken(batch)
  BY DEF StartServer, StartServerFails, StopServer, ProcessEnds, FetchPending, FetchPendingFails
<1>2. row'[u].done = row[u].done /\ (row'[u].status = "done" => row[u].status = "done")
  BY <1>1 DEF Reset, Taken, WithStatus
<1>3. \A j \in Instances : step'[j][u] \in {"chunks", "ingesting"} =>
        step[j][u] \in {"chunks", "ingesting"} /\ job'[j][u].data = job[j][u].data
  <2>1. CASE ProcessEnds(i)
    BY <1>0, <2>1 DEF ProcessEnds, TypeOK
  <2>2. CASE FetchPending(i)
    BY <1>0, <2>2 DEF FetchPending, TypeOK
  <2> QED
    BY <2>1, <2>2 DEF StartServer, StartServerFails, StopServer, FetchPendingFails
<1> QED
  BY <1>2, <1>3, CountStays

(***************************************************************************)
(* The task's own worker reads the file at the task's path, which is its   *)
(* own, counts while a chunk of it is left, and completes when none is.    *)
(***************************************************************************)
LEMMA TaskCounts ==
  ASSUME OneInstance, ~UnsureErrors, WorkInv, FilesKept, NEW u \in Uploads, CountedRight(u),
         NEW i \in Instances, ProcessTask(i, u)
  PROVE  CountedRight(u)'
<1> DEFINE next == job[i][u].next
<1>0. /\ TypeOK /\ WorkerInv(i, u) /\ Busy(i, u)
      /\ row[u].done \in Nat /\ next \in Nat /\ Size[u] \in Nat
      /\ \A j \in Instances : j = i
  BY TaskFrame, TaskFacts DEF WorkInv, TaskInv, OneInstance
<1>1. CASE ReadUpload(i, u)
  <2>1. /\ step[i][u] = "opening" /\ Stored(i, path[u])
        /\ row' = Saved(u, Touched(u))
        /\ job' = [job EXCEPT ![i][u] = [next |-> next, deadline |-> job[i][u].deadline,
                                        data |-> disk[i][path[u]]]]
    BY <1>1 DEF ReadUpload, Performs, JobIs
  <2>2. disk[i][path[u]] = u
    <3>1. row[u].status = "processing"
      BY <1>0, <2>1 DEF WorkerInv, Active
    <3>2. home[u] = i
      BY <1>0 DEF TypeOK
    <3> QED
      BY <3>1, <3>2 DEF FilesKept, Needs
  <2>3. row'[u].done = row[u].done /\ row'[u].status = row[u].status
    BY <1>0, <2>1 DEF Saved, Touched, WithStatus, TypeOK
  <2>4. job'[i][u].data = u
    BY <1>0, <2>1, <2>2 DEF TypeOK
  <2> QED
    BY <1>0, <2>3, <2>4 DEF CountedRight
<1>2. CASE Requeue(i, u) \/ RequeueFails(i, u) \/ OpeningFails(i, u) \/ CleanupFile(i, u)
           \/ FailTask(i, u)
  <2>1. \/ row' = row
        \/ \E s \in {"pending", "failed"} : row' = Saved(u, WithStatus(u, s))
    BY <1>2 DEF Requeue, RequeueFails, OpeningFails, CleanupFile, FailTask, Ends, EndsUnsaved,
                Performs, Errs
  <2>2. row'[u].done = row[u].done /\ (row'[u].status = "done" => row[u].status = "done")
    BY <1>0, <2>1 DEF Saved, WithStatus, TypeOK
  <2>3. step'[i][u] \notin {"chunks", "ingesting"}
    BY <1>0, <1>2 DEF Requeue, RequeueFails, OpeningFails, CleanupFile, FailTask, Ends,
                      EndsUnsaved, Goes, Returns, TypeOK
  <2> QED
    BY <1>0, <2>2, <2>3, CountStays
<1>3. CASE Checkpoint(i, u)
  <2>1. /\ step[i][u] = "chunks" /\ next < Size[job[i][u].data]
        /\ row' = Saved(u, WithProgress(u, next + 1)) /\ job' = job
    BY <1>3 DEF Checkpoint, ChunkLeft, Performs
  <2>2. next = row[u].done /\ job[i][u].data = u /\ row[u].status = "processing"
    BY <1>0, <2>1 DEF WorkerInv, CountedRight, Active
  <2>3. row'[u].done = row[u].done + 1 /\ row'[u].status = "processing"
    BY <1>0, <2>1, <2>2 DEF Saved, WithProgress, TypeOK
  <2> QED
    BY <1>0, <2>1, <2>2, <2>3 DEF CountedRight
<1>4. CASE CheckpointFails(i, u) \/ IngestFails(i, u)
  <2>1. row' = row /\ step'[i][u] = "failing"
    BY <1>0, <1>4 DEF CheckpointFails, IngestFails, Errs, Goes, TypeOK
  <2> QED
    BY <1>0, <2>1, CountStays
<1>5. CASE IngestChunk(i, u)
  <2>1. /\ row' = row /\ step[i][u] = "ingesting"
        /\ job' = [job EXCEPT ![i][u] = [next |-> next + 1, deadline |-> job[i][u].deadline,
                                        data |-> job[i][u].data]]
    BY <1>5 DEF IngestChunk, JobIs
  <2>2. job'[i][u].data = job[i][u].data
    BY <1>0, <2>1 DEF TypeOK
  <2> QED
    BY <1>0, <2>1, <2>2, CountStays
<1>6. CASE Complete(i, u)
  <2>1. /\ ~ChunkLeft(i, u) /\ step[i][u] = "chunks"
        /\ row' = row \/ row' = Saved(u, WithStatus(u, "done"))
    BY <1>6 DEF Complete, Ends, EndsUnsaved, Performs, Errs
  <2>2. next = row[u].done /\ ~(next < Size[u]) /\ row[u].done <= Size[u]
    BY <1>0, <2>1 DEF WorkerInv, CountedRight, ChunkLeft
  <2>3. row[u].done = Size[u]
    BY <1>0, <2>2
  <2>4. row'[u].done = row[u].done
    BY <1>0, <2>1 DEF Saved, WithStatus, TypeOK
  <2>5. step'[i][u] \notin {"chunks", "ingesting"}
    BY <1>0, <1>6 DEF Complete, Ends, EndsUnsaved, Goes, Returns, TypeOK
  <2> QED
    BY <1>0, <2>3, <2>4, <2>5 DEF CountedRight
<1> QED
  BY <1>1, <1>2, <1>3, <1>4, <1>5, <1>6 DEF ProcessTask

(***************************************************************************)
(* On one instance, with statements that do what they report, a task that  *)
(* is done has counted every chunk of its own file and none that is not in *)
(* it, whatever crashes, timeouts and resets came between.                 *)
(***************************************************************************)
THEOREM DoneTasksAreCounted ==
  ASSUME OneInstance, ~UnsureErrors
  PROVE  Spec => []DoneIsCounted
<1>0. OneAtATime
  BY DEF OneAtATime
<1>1. Init => CountsRight
  BY DEF Init, CountsRight, CountedRight, NoRow
<1>2. WorkInv /\ FilesKept /\ CountsRight /\ [Next]_vars => CountsRight'
  <2> SUFFICES ASSUME WorkInv, FilesKept, CountsRight, [Next]_vars, NEW u \in Uploads
               PROVE  CountedRight(u)'
    BY DEF CountsRight
  <2>0. CountedRight(u) /\ TypeOK
    BY DEF CountsRight, WorkInv
  <2>1. ASSUME NEW v \in Uploads,
               \/ \E i \in Instances, p \in Paths : StoreFile(i, v, p)
               \/ CreateTask(v) \/ CreateTaskFails(v)
        PROVE  CountedRight(u)'
    BY <2>0, <2>1, RequestCounts
  <2>2. ASSUME NEW i \in Instances,
               \/ StartServer(i) \/ StartServerFails(i) \/ StopServer(i) \/ ProcessEnds(i)
               \/ FetchPending(i) \/ FetchPendingFails(i)
        PROVE  CountedRight(u)'
    BY <2>0, <2>2, ServerCounts
  <2>3. ASSUME NEW i \in Instances, NEW v \in Uploads, ProcessTask(i, v), v # u
        PROVE  CountedRight(u)'
    <3>1. row'[u] = row[u] /\ \A j \in Instances : step'[j][u] = step[j][u] /\ job'[j][u] = job[j][u]
      BY <2>0, <2>3, TaskFrame
    <3> QED
      BY <2>0, <3>1, CountStays
  <2>4. ASSUME NEW i \in Instances, ProcessTask(i, u) PROVE CountedRight(u)'
    BY <2>0, <2>4, TaskCounts
  <2>5. CASE Tick \/ UNCHANGED vars
    BY <2>0, <2>5, CountStays DEF Tick, vars
  <2> QED
    BY <2>1, <2>2, <2>3, <2>4, <2>5 DEF Next
<1>3. CountsRight => DoneIsCounted
  BY DEF CountsRight, CountedRight, DoneIsCounted
<1> QED
  BY <1>0, <1>1, <1>2, <1>3, WorkInvariance, FilesInvariance, PTL DEF Spec
=============================================================================
