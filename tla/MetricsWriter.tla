---------------------------- MODULE MetricsWriter -----------------------------
(***************************************************************************)
(* _MetricsWriter of core/orchestrator/loop.py, below the atomic Flush of  *)
(* Orchestrator: the main thread counts and marks, a daemon thread writes  *)
(* metrics.tmp and renames it over metrics.json, and stop() joins that     *)
(* thread for five seconds and then flushes by itself.                     *)
(*                                                                         *)
(* The counters are a version number.  A file is an inode: metrics.tmp and *)
(* metrics.json are names of inodes, open("w") truncates the one that      *)
(* metrics.tmp names, and a write goes to the inode that was opened,       *)
(* wherever a rename has taken it since.  One json.dump fits the buffer of *)
(* the file object and reaches the inode in one piece, at the close.       *)
(***************************************************************************)
EXTENDS Integers

CONSTANTS
  Inodes,
  NoInode,     \* what a name that does not exist stands for
  SlowDisk,    \* may file I/O outlast the join(timeout=5.0) of stop()
  MaxVersion   \* bound: updates of the counters in memory

ASSUME MetricsWriterAssumption ==
  /\ NoInode \notin Inodes
  /\ SlowDisk \in BOOLEAN
  /\ MaxVersion \in Nat

Empty == -1   \* content of a file that was truncated and not yet written
Mixed == -2   \* content left by two writers, or by a write that failed

Contents == Nat \cup {Empty, Mixed}

Flushers == {"writer", "main"}

VARIABLES
  phase,     \* where the main thread is
  memory,    \* _metrics
  unmarked,  \* an update of _metrics whose mark_dirty is still to come
  dirty,     \* _dirty_count > 0
  writing,   \* is the writer thread in its loop
  step,      \* where a flusher is in _flush_to_disk
  snapshot,  \* its snapshot
  fd,        \* the inode it opened
  content,   \* of the inodes
  tmp,       \* the inode metrics.tmp names
  published  \* the inode metrics.json names

vars == <<phase, memory, unmarked, dirty, writing, step, snapshot, fd, content,
          tmp, published>>

counters == <<memory, unmarked>>
files    == <<content, tmp, published>>

(***************************************************************************)
(* running: the main loop; joining, final: stop() before and after the     *)
(* join; flushed, unflushed: stop() has returned, having published its     *)
(* snapshot or not; gone: no process.                                      *)
(***************************************************************************)
Phases == {"running", "joining", "final", "flushed", "unflushed", "gone"}

Steps == {"idle", "taken", "opened", "written"}

TypeOK ==
  /\ phase \in Phases
  /\ memory \in Nat
  /\ unmarked \in BOOLEAN
  /\ dirty \in BOOLEAN
  /\ writing \in BOOLEAN
  /\ step \in [Flushers -> Steps]
  /\ snapshot \in [Flushers -> Nat]
  /\ fd \in [Flushers -> Inodes \cup {NoInode}]
  /\ content \in [Inodes -> Contents]
  /\ tmp \in Inodes \cup {NoInode}
  /\ published \in Inodes \cup {NoInode}

Init ==
  /\ phase = "running"
  /\ memory = 0
  /\ unmarked = FALSE
  /\ dirty = FALSE
  /\ writing = TRUE
  /\ step = [f \in Flushers |-> "idle"]
  /\ snapshot = [f \in Flushers |-> 0]
  /\ fd = [f \in Flushers |-> NoInode]
  /\ content = [n \in Inodes |-> Empty]
  /\ tmp = NoInode
  /\ published = NoInode

-----------------------------------------------------------------------------
(* The main thread. *)

\* _metrics changes without the lock, and is marked afterwards.
Update ==
  /\ phase = "running" /\ ~unmarked
  /\ memory < MaxVersion
  /\ memory' = memory + 1
  /\ unmarked' = TRUE
  /\ UNCHANGED <<phase, dirty, writing, step, snapshot, fd, files>>

MarkDirty ==
  /\ phase = "running" /\ unmarked
  /\ unmarked' = FALSE
  /\ dirty' = TRUE
  /\ UNCHANGED <<phase, memory, writing, step, snapshot, fd, files>>

\* The finally block: a last mark_dirty, and stop() sets the stop event.
Stop ==
  /\ phase = "running"
  /\ phase' = "joining"
  /\ unmarked' = FALSE
  /\ dirty' = TRUE
  /\ UNCHANGED <<memory, writing, step, snapshot, fd, files>>

JoinAtOnce ==
  /\ phase = "joining"
  /\ phase' = "final"
  /\ UNCHANGED <<counters, dirty, writing, step, snapshot, fd, files>>

Join ==
  /\ phase = "joining"
  /\ ~writing
  /\ phase' = "final"
  /\ UNCHANGED <<counters, dirty, writing, step, snapshot, fd, files>>

\* The timeout is meant for a writer that is in the middle of its I/O.
JoinTimesOut ==
  /\ phase = "joining"
  /\ writing /\ SlowDisk /\ step["writer"] # "idle"
  /\ phase' = "final"
  /\ UNCHANGED <<counters, dirty, writing, step, snapshot, fd, files>>

NothingToFlush ==
  /\ phase = "final" /\ step["main"] = "idle"
  /\ ~dirty
  /\ phase' = "unflushed"
  /\ UNCHANGED <<counters, dirty, writing, step, snapshot, fd, files>>

\* The interpreter exits and takes the daemon thread with it; or it is killed.
ProcessGone ==
  /\ phase' = "gone"
  /\ memory' = 0
  /\ unmarked' = FALSE
  /\ dirty' = FALSE
  /\ writing' = FALSE
  /\ step' = [f \in Flushers |-> "idle"]
  /\ snapshot' = [f \in Flushers |-> 0]
  /\ fd' = [f \in Flushers |-> NoInode]
  /\ UNCHANGED files

Exit == phase \in {"flushed", "unflushed"} /\ ProcessGone

Crash == phase # "gone" /\ ProcessGone

LoadedNothing == 0

LoadedRaw == IF published = NoInode THEN 0 ELSE content[published]

\* What open() and json.load make of metrics.json: 0 if it is not there or not JSON.
Loaded ==
  IF published = NoInode THEN 0
  ELSE IF content[published] \in Nat THEN content[published] ELSE 0

Restart ==
  /\ phase = "gone"
  /\ phase' = "running"
  /\ memory' = Loaded
  /\ writing' = TRUE
  /\ UNCHANGED <<unmarked, dirty, step, snapshot, fd, files>>

-----------------------------------------------------------------------------
(* _flush_to_disk, by the writer thread or by stop(). *)

\* _stop_event, set by stop() before it joins.
StopEventAfterJoin == phase \in {"final", "flushed", "unflushed"}

StopEvent == phase \in {"joining", "final", "flushed", "unflushed"}

\* The writer's last flush may come after the stop event, before it looks at it.
MayFlush(f) ==
  /\ step[f] = "idle"
  /\ f = "writer" => writing /\ phase # "gone"
  /\ f = "main" => phase = "final"

TakeSnapshot(f) ==
  /\ MayFlush(f)
  /\ dirty
  /\ dirty' = FALSE
  /\ snapshot' = [snapshot EXCEPT ![f] = memory]
  /\ step' = [step EXCEPT ![f] = "taken"]
  /\ UNCHANGED <<phase, counters, writing, fd, files>>

Free(n) == n \notin {tmp, published} /\ \A f \in Flushers : fd[f] # n

OpenInPlace(f) ==
  /\ step[f] = "taken"
  /\ \E n \in Inodes :
       /\ IF published = NoInode THEN Free(n) ELSE n = published
       /\ tmp' = n
       /\ fd' = [fd EXCEPT ![f] = n]
       /\ content' = [content EXCEPT ![n] = Empty]
  /\ step' = [step EXCEPT ![f] = "opened"]
  /\ UNCHANGED <<phase, counters, dirty, writing, snapshot, published>>

Open(f) ==
  /\ step[f] = "taken"
  /\ \E n \in Inodes :
       /\ IF tmp = NoInode THEN Free(n) ELSE n = tmp
       /\ tmp' = n
       /\ fd' = [fd EXCEPT ![f] = n]
       /\ content' = [content EXCEPT ![n] = Empty]
  /\ step' = [step EXCEPT ![f] = "opened"]
  /\ UNCHANGED <<phase, counters, dirty, writing, snapshot, published>>

\* A write over what another one left: its tail survives if it was longer.
Overwritten(old, new) == IF old = Empty THEN {new} ELSE {new, Mixed}

Write(f) ==
  /\ step[f] = "opened"
  /\ \E c \in Overwritten(content[fd[f]], snapshot[f]) :
       content' = [content EXCEPT ![fd[f]] = c]
  /\ step' = [step EXCEPT ![f] = "written"]
  /\ UNCHANGED <<phase, counters, dirty, writing, snapshot, fd, tmp, published>>

\* The flush is over: main is back in stop(), the writer back in its loop.
Finish(f, how) ==
  /\ step' = [step EXCEPT ![f] = "idle"]
  /\ fd' = [fd EXCEPT ![f] = NoInode]
  /\ phase' = IF f = "main" THEN how ELSE phase
  /\ writing' = (writing /\ ~(f = "writer" /\ StopEvent))
  /\ UNCHANGED <<counters, dirty, snapshot>>

\* The rename moves whatever metrics.tmp names by now.
Replace(f) ==
  /\ step[f] = "written"
  /\ tmp # NoInode
  /\ published' = tmp
  /\ tmp' = NoInode
  /\ Finish(f, "flushed")
  /\ UNCHANGED content

\* An OSError, logged: the disk is full, or the other flusher took metrics.tmp.
\* The snapshot is not retried, its marks are gone.
FlushFails(f) ==
  /\ step[f] # "idle"
  /\ content' \in {content} \cup
       IF step[f] = "opened" THEN {[content EXCEPT ![fd[f]] = Mixed]} ELSE {}
  /\ Finish(f, "unflushed")
  /\ UNCHANGED <<tmp, published>>

\* _run leaves its wait, has nothing to flush, and looks at the stop event.
WriterEnds ==
  /\ writing
  /\ StopEvent
  /\ step["writer"] = "idle"
  /\ writing' = FALSE
  /\ UNCHANGED <<phase, counters, dirty, step, snapshot, fd, files>>

Flush(f) ==
  TakeSnapshot(f) \/ Open(f) \/ Write(f) \/ Replace(f) \/ FlushFails(f)

Next ==
  \/ Update \/ MarkDirty
  \/ Stop \/ Join \/ JoinTimesOut \/ NothingToFlush \/ Exit
  \/ Crash \/ Restart
  \/ WriterEnds
  \/ \E f \in Flushers : Flush(f)

Spec == Init /\ [][Next]_vars

(***************************************************************************)
(* Both threads are scheduled, and an I/O call returns.  Nothing is        *)
(* assumed of Crash, Restart and the updates, nor that an I/O call         *)
(* succeeds.                                                               *)
(***************************************************************************)
Writing == WriterEnds \/ Flush("writer")

Stopping == MarkDirty \/ Join \/ JoinTimesOut \/ NothingToFlush \/ Exit \/ Flush("main")

FairSpec ==
  /\ Spec
  /\ WF_vars(Stopping)
  /\ WF_vars(Writing)

-----------------------------------------------------------------------------
(* Properties. *)

(***************************************************************************)
(* EXPLANATION.md:294, "Atomic write (tmp + rename) prevents corruption":  *)
(* a reader of metrics.json, or the next process, finds a whole snapshot.  *)
(***************************************************************************)
PublishedIsWhole == published # NoInode => content[published] \in Nat

(***************************************************************************)
(* The writer implements a register: over failed writes, crashes between   *)
(* any two of its steps and a metrics.tmp left by an earlier process, what *)
(* a process publishes is a whole version of its counters, never an older  *)
(* one than was published before, and a restart goes on from it.           *)
(***************************************************************************)
Register == INSTANCE MetricsFile WITH
  memory <- IF phase = "gone" THEN Loaded ELSE memory,
  file   <- IF published = NoInode THEN 0 ELSE content[published]

IsRegister == Register!Spec

(***************************************************************************)
(* Only a stop() that gave up on the writer thread can break a published   *)
(* file: while the loop runs, and as long as stop() waits, whatever fails, *)
(* a whole metrics.json stays whole.                                       *)
(***************************************************************************)
OnlyStopTears ==
  [][(phase \in {"running", "joining"} /\ PublishedIsWhole) => (PublishedIsWhole')]_vars

(***************************************************************************)
(* A stop() that flushed by itself published the last counters, whatever   *)
(* the writer thread was doing when it was told to stop.                   *)
(***************************************************************************)
LastFlushIsLatest == phase = "flushed" => Loaded = memory

(***************************************************************************)
(* A process that begins its shutdown gets through it: neither thread      *)
(* waits for the other for ever, even when every write fails.              *)
(***************************************************************************)
StopReturns == phase = "joining" ~> phase = "gone"
=============================================================================
