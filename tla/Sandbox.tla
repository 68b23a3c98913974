------------------------------- MODULE Sandbox -------------------------------
(***************************************************************************)
(* The sandboxes of tent: internal/sandbox/manager.go with what it drives, *)
(* the table of state.json (internal/state), the guests of the KVM backend,*)
(* the root file systems and the TAP devices.                              *)
(*                                                                         *)
(* Every tent process makes a manager of its own: it reads state.json once *)
(* when it starts and from then on writes its whole table back, and its    *)
(* guests run inside it and die with it.  A server (tent api) answers      *)
(* requests, one at a time here; a command (tent stop, ...) makes one.     *)
(* A request is cut where a crash, a guest or another process can come in  *)
(* between.  Hooks, mounts, policies, keys, limits and port forwards only  *)
(* matter by the errors they return; a request that fails before it has    *)
(* changed anything is no step.                                            *)
(***************************************************************************)
EXTENDS Naturals

CONSTANTS
  Names,      \* names of sandboxes, the keys of every table
  Managers,   \* tent processes
  Servers,    \* those that are tent api
  Guests,     \* bound: virtual machines in memory at a time
  NoGuest, NoVM, NoRecord,
  Torn,       \* state.json after a crash inside os.WriteFile
  Exclusive,  \* does only one tent process run at a time
  Faults      \* "save": state.json cannot be written; "rm": os.RemoveAll
              \* fails although the image is gone; "late": see LoopReturns

ASSUME SandboxAssumption ==
  /\ Names # {}
  /\ Servers \subseteq Managers
  /\ NoGuest \notin Guests
  /\ Exclusive \in BOOLEAN
  /\ Faults \subseteq {"save", "late", "rm"}

VARIABLES
  file,     \* state.json
  up,       \* the processes that run
  table,    \* a manager's copy of state.json
  handle,   \* a manager's runningVMs
  guest,    \* the VM objects of the KVM backend
  disk,     \* the names that have a rootfs image
  tap,      \* the names that have a TAP device
  request   \* what a manager is doing

vars == <<file, up, table, handle, guest, disk, tap, request>>

Statuses == {"created", "running", "paused", "stopped"}

Records == [status : Statuses, locked : BOOLEAN]

Tables == [Names -> Records \cup {NoRecord}]

\* live: a run loop executes the guest and its context is not cancelled;
\* stale: the loop of a cancelled context has not returned yet.
VMs == [of : Names, owner : Managers, live : BOOLEAN, running : BOOLEAN,
        paused : BOOLEAN, stale : BOOLEAN]

Operations == {"create", "clone", "start", "stop", "restart", "destroy", "other"}

Steps == {"idle", "done", "network", "record", "boot", "booted", "cleanup",
          "stopped", "orphan", "untap", "wipe", "forget", "report"}

Requests == [op : Operations, name : Names, at : Steps]

NoRequest == [op |-> "other", name |-> CHOOSE n \in Names : TRUE, at |-> "idle"]

ASSUME SentinelAssumption ==
  NoRecord \notin Records /\ NoVM \notin VMs /\ Torn \notin Tables

EmptyTable == [n \in Names |-> NoRecord]

NoHandles == [n \in Names |-> NoGuest]

Init ==
  /\ file = EmptyTable
  /\ up = {}
  /\ table = [m \in Managers |-> EmptyTable]
  /\ handle = [m \in Managers |-> NoHandles]
  /\ guest = [g \in Guests |-> NoVM]
  /\ disk = {}
  /\ tap = {}
  /\ request = [m \in Managers |-> NoRequest]

-----------------------------------------------------------------------------
(* The table, the guests and the request of a manager. *)

HasStatus(m, n, s) == table[m][n] # NoRecord /\ table[m][n].status = s

AtRestOrRunning(m, n) == table[m][n] # NoRecord

\* There is a record, and the sandbox does not run.
AtRest(m, n) == table[m][n] # NoRecord /\ table[m][n].status # "running"

Unlocked(m, n) == ~table[m][n].locked

\* Every change writes the whole table.  GetVM hands out pointers into it, so
\* in memory it has changed even when the write fails.
Saves(m, t) == table' = [table EXCEPT ![m] = t] /\ file' = t

SaveFails(m, t) ==
  "save" \in Faults /\ table' = [table EXCEPT ![m] = t] /\ file' = file

WithStatus(m, n, s) == [table[m] EXCEPT ![n] = [@ EXCEPT !.status = s]]

NewRecord(m, n) ==
  [table[m] EXCEPT ![n] = [status |-> "created", locked |-> FALSE]]

Without(m, n) == [table[m] EXCEPT ![n] = NoRecord]

Tracked(m, n) == handle[m][n] # NoGuest

VM(m, n) == guest[handle[m][n]]

SetVM(m, n, vm) == guest' = [guest EXCEPT ![handle[m][n]] = vm]

Untrack(m, n) == handle' = [handle EXCEPT ![m][n] = NoGuest]

Free(g) ==
  /\ guest[g] # NoVM => ~guest[g].live /\ ~guest[g].stale
  /\ \A m \in Managers, n \in Names : handle[m][n] # g

Idle(m) == m \in up /\ request[m].at = "idle"

At(m, step) == m \in up /\ request[m].at = step

Does(m, ops) == request[m].op \in ops

Target(m) == request[m].name

Begins(m, op, n, at) ==
  request' = [request EXCEPT ![m] = [op |-> op, name |-> n, at |-> at]]

Goes(m, at) == request' = [request EXCEPT ![m].at = at]

Resting(m) == IF m \in Servers THEN "idle" ELSE "done"

\* The request is over, with success or with an error.
Over(m) == Goes(m, Resting(m))

-----------------------------------------------------------------------------
(* Create and Clone.  A step that fails leaves what the request has made   *)
(* so far, except that Clone takes back its disk if the network fails.     *)

CreateRootFS(n) == disk' = disk \cup {n}

CloneRootFS(src, n) == src \in disk /\ disk' = disk \cup {n}

DestroyVMStorage(n) == disk' = disk \ {n}

SetupVMNetwork(n) == tap' = tap \cup {n}

CleanupVMNetwork(n) == n \in tap /\ tap' = tap \ {n}

Create(m, n) ==
  /\ Idle(m) /\ table[m][n] = NoRecord
  /\ CreateRootFS(n)
  /\ \E at \in {"network", Resting(m)} : Begins(m, "create", n, at)
  /\ UNCHANGED <<file, up, table, handle, guest, tap>>

Clone(m, src, n) ==
  /\ Idle(m) /\ AtRest(m, src) /\ table[m][n] = NoRecord
  /\ CloneRootFS(src, n)
  /\ \E at \in {"network", Resting(m)} : Begins(m, "clone", n, at)
  /\ UNCHANGED <<file, up, table, handle, guest, tap>>

SetupNetwork(m) ==
  /\ At(m, "network")
  /\ SetupVMNetwork(Target(m))
  /\ Goes(m, "record")
  /\ UNCHANGED <<file, up, table, handle, guest, disk>>

SetupNetworkFails(m) ==
  /\ At(m, "network")
  /\ tap' \in {tap, tap \cup {Target(m)}, tap \ {Target(m)}}
  /\ IF Does(m, {"clone"}) THEN DestroyVMStorage(Target(m)) ELSE disk' = disk
  /\ Over(m)
  /\ UNCHANGED <<file, up, table, handle, guest>>

StoreRecord(m) ==
  /\ At(m, "record")
  /\ \/ Saves(m, NewRecord(m, Target(m))) /\ Goes(m, "report")
     \/ SaveFails(m, NewRecord(m, Target(m))) /\ Over(m)
  /\ UNCHANGED <<up, handle, guest, disk, tap>>

\* Ports, policy, keys, mounts and config come before the record.
PreparingFails(m) ==
  /\ At(m, "record")
  /\ \/ UNCHANGED <<disk, tap>>
     \/ /\ Does(m, {"clone"})
        /\ DestroyVMStorage(Target(m))
        /\ tap' = tap \/ CleanupVMNetwork(Target(m))
  /\ Over(m)
  /\ UNCHANGED <<file, up, table, handle, guest>>

-----------------------------------------------------------------------------
(* Start.  The new VM takes the place of the one that runningVMs may hold. *)

Booted(m, n) == [of |-> n, owner |-> m, live |-> TRUE, running |-> TRUE,
                 paused |-> FALSE, stale |-> FALSE]

BootUntracked(m, n) ==
  \E g \in Guests :
    /\ n \in disk
    /\ Free(g)
    /\ guest' = [guest EXCEPT ![g] = Booted(m, n)]
    /\ UNCHANGED <<file, up, table, handle, disk, tap>>

Boot(m, n) ==
  \E g \in Guests :
    /\ n \in disk
    /\ Free(g)
    /\ guest' = [guest EXCEPT ![g] = Booted(m, n)]
    /\ handle' = [handle EXCEPT ![m][n] = g]
    /\ UNCHANGED <<file, up, table, disk, tap>>

Start(m, n) ==
  /\ Idle(m) /\ AtRest(m, n)
  /\ Boot(m, n)
  /\ Begins(m, "start", n, "booted")

StartAgain(m) ==
  /\ At(m, "boot")
  /\ \/ Boot(m, Target(m)) /\ Goes(m, "booted")
     \/ Over(m) /\ UNCHANGED <<file, up, table, handle, guest, disk, tap>>

HaltedUncancelled(vm) == [vm EXCEPT !.running = FALSE]

Halted(vm) == [vm EXCEPT !.live = FALSE, !.running = FALSE]

RecordStart(m) ==
  LET started == WithStatus(m, Target(m), "running")
  IN
    /\ At(m, "booted")
    /\ \/ Saves(m, started) /\ Goes(m, "report") /\ UNCHANGED <<guest, handle>>
       \/ /\ SaveFails(m, started)
          /\ SetVM(m, Target(m), Halted(VM(m, Target(m))))
          /\ Untrack(m, Target(m))
          /\ Over(m)
    /\ UNCHANGED <<up, disk, tap>>

-----------------------------------------------------------------------------
(* Stop, which is also the first half of Restart and, for a sandbox that   *)
(* is on record as running, of Destroy.                                    *)

Stop(m, op, n) ==
  /\ Idle(m) /\ HasStatus(m, n, "running") /\ Unlocked(m, n)
  /\ Tracked(m, n) /\ VM(m, n).running
  /\ SetVM(m, n, Halted(VM(m, n)))
  /\ Begins(m, op, n, "cleanup")
  /\ UNCHANGED <<file, up, table, handle, disk, tap>>

RemoveTap(m) ==
  /\ At(m, "cleanup")
  /\ CleanupVMNetwork(Target(m))
  /\ Goes(m, "stopped")
  /\ UNCHANGED <<file, up, table, handle, guest, disk>>

\* ip link fails, above all on a device that is not there (any more).  The
\* record stays as it was, and so does the handle.
RemoveTapFails(m) ==
  /\ At(m, "cleanup") \/ At(m, "orphan") \/ At(m, "untap")
  /\ Over(m)
  /\ UNCHANGED <<file, up, table, handle, guest, disk, tap>>

RecordStop(m) ==
  LET stopped == WithStatus(m, Target(m), "stopped")
      next == CASE Does(m, {"restart"}) -> "boot"
                [] Does(m, {"destroy"}) -> "wipe"
                [] OTHER -> "report"
  IN
    /\ At(m, "stopped")
    /\ Untrack(m, Target(m))
    /\ \/ Saves(m, stopped) /\ Goes(m, next)
       \/ /\ SaveFails(m, stopped)
          /\ IF Does(m, {"destroy"}) THEN Goes(m, "orphan") ELSE Over(m)
    /\ UNCHANGED <<up, guest, disk, tap>>

-----------------------------------------------------------------------------
(* Destroy.  A sandbox on record as running that this process has no       *)
(* handle of is taken for one whose process is gone.                       *)

DestroyAtRestUnchecked(m, n) ==
  /\ Idle(m) /\ AtRest(m, n)
  /\ Begins(m, "destroy", n, "untap")
  /\ UNCHANGED <<file, up, table, handle, guest, disk, tap>>

DestroyAtRest(m, n) ==
  /\ Idle(m) /\ AtRest(m, n) /\ Unlocked(m, n)
  /\ Begins(m, "destroy", n, "untap")
  /\ UNCHANGED <<file, up, table, handle, guest, disk, tap>>

DestroyOrphan(m, n) ==
  /\ Idle(m) /\ HasStatus(m, n, "running") /\ Unlocked(m, n)
  /\ ~Tracked(m, n)
  /\ Begins(m, "destroy", n, "orphan")
  /\ UNCHANGED <<file, up, table, handle, guest, disk, tap>>

Untap(m) ==
  /\ At(m, "orphan") \/ At(m, "untap")
  /\ CleanupVMNetwork(Target(m))
  /\ Goes(m, "wipe")
  /\ UNCHANGED <<file, up, table, handle, guest, disk>>

Wipe(m) ==
  /\ At(m, "wipe")
  /\ \/ DestroyVMStorage(Target(m)) /\ Goes(m, "forget")
     \/ disk' = disk /\ Over(m)
     \/ "rm" \in Faults /\ DestroyVMStorage(Target(m)) /\ Over(m)
  /\ UNCHANGED <<file, up, table, handle, guest, tap>>

Forget(m) ==
  /\ At(m, "forget")
  /\ \/ Saves(m, Without(m, Target(m)))
     \/ SaveFails(m, Without(m, Target(m)))
  /\ Over(m)
  /\ UNCHANGED <<up, handle, guest, disk, tap>>

-----------------------------------------------------------------------------
(* Pause and Unpause cancel and renew the context of the run loop.         *)

Cancelled(vm) == [vm EXCEPT !.live = FALSE, !.paused = TRUE, !.stale = TRUE]

Resumed(vm) ==
  IF vm.running THEN [vm EXCEPT !.live = TRUE, !.paused = FALSE] ELSE vm

Pause(m, n) ==
  LET paused == WithStatus(m, n, "paused")
  IN
    /\ Idle(m)
    /\ HasStatus(m, n, "running") \/ HasStatus(m, n, "paused")
    /\ Tracked(m, n) /\ VM(m, n).running /\ ~VM(m, n).paused
    /\ \/ Saves(m, paused) /\ SetVM(m, n, Cancelled(VM(m, n)))
       \/ SaveFails(m, paused) /\ SetVM(m, n, Resumed(Cancelled(VM(m, n))))
    /\ Over(m)
    /\ UNCHANGED <<up, handle, disk, tap>>

Unpause(m, n) ==
  LET running == WithStatus(m, n, "running")
  IN
    /\ Idle(m) /\ HasStatus(m, n, "paused")
    /\ Tracked(m, n) /\ VM(m, n).running /\ VM(m, n).paused
    /\ "late" \in Faults \/ ~VM(m, n).stale
    /\ SetVM(m, n, Resumed(VM(m, n)))
    /\ Saves(m, running) \/ SaveFails(m, running)
    /\ Over(m)
    /\ UNCHANGED <<up, handle, disk, tap>>

-----------------------------------------------------------------------------
(* Status, which the other handlers of a server call before they answer.   *)

LooksDead(m, n) ==
  HasStatus(m, n, "running") /\ Tracked(m, n) /\ ~VM(m, n).running

MarkFailed(m, n) ==
  /\ LooksDead(m, n)
  /\ Untrack(m, n)
  /\ Saves(m, WithStatus(m, n, "error"))

MarkStopped(m, n) ==
  /\ LooksDead(m, n)
  /\ Untrack(m, n)
  /\ \/ Saves(m, WithStatus(m, n, "stopped"))
     \/ SaveFails(m, WithStatus(m, n, "stopped"))

Status(m, n) ==
  /\ Idle(m)
  /\ MarkStopped(m, n)
  /\ Over(m)
  /\ UNCHANGED <<up, guest, disk, tap>>

Report(m) ==
  /\ At(m, "report")
  /\ \/ m \in Servers /\ MarkStopped(m, Target(m))
     \/ /\ m \notin Servers \/ ~LooksDead(m, Target(m))
        /\ UNCHANGED <<file, table, handle>>
  /\ Over(m)
  /\ UNCHANGED <<up, guest, disk, tap>>

-----------------------------------------------------------------------------
(* Commands that a server does not offer. *)

Rewrites(m, t) ==
  /\ Idle(m) /\ m \notin Servers
  /\ Saves(m, t) \/ SaveFails(m, t)
  /\ Over(m)
  /\ UNCHANGED <<up, handle, guest, disk, tap>>

Lock(m, n) ==
  /\ table[m][n] # NoRecord /\ ~table[m][n].locked
  /\ Rewrites(m, [table[m] EXCEPT ![n] = [@ EXCEPT !.locked = TRUE]])

Unlock(m, n) ==
  /\ table[m][n] # NoRecord /\ table[m][n].locked
  /\ Rewrites(m, [table[m] EXCEPT ![n] = [@ EXCEPT !.locked = FALSE]])

\* The record and the config get the new name, the disk and the TAP do not.
Rename(m, old, new) ==
  /\ AtRest(m, old) /\ table[m][new] = NoRecord
  /\ Rewrites(m, [table[m] EXCEPT ![new] = table[m][old], ![old] = NoRecord])

-----------------------------------------------------------------------------
(* Guests and processes. *)

GuestExits(g) ==
  /\ guest[g] # NoVM /\ guest[g].live
  /\ \E r \in BOOLEAN :
       guest' = [guest EXCEPT ![g] = [@ EXCEPT !.live = FALSE, !.running = r]]
  /\ UNCHANGED <<file, up, table, handle, disk, tap, request>>

\* The goroutine of a paused guest clears the flag when its loop returns with
\* an error, which may be after an Unpause: that is the fault "late".
LoopReturns(g) ==
  /\ guest[g] # NoVM /\ guest[g].stale
  /\ \E r \in {FALSE, guest[g].running} :
       guest' = [guest EXCEPT ![g] = [@ EXCEPT !.stale = FALSE, !.running = r]]
  /\ UNCHANGED <<file, up, table, handle, disk, tap, request>>

\* NewManager; a state.json that does not parse is an error.
StartProcess(m) ==
  /\ m \notin up
  /\ Exclusive => up = {}
  /\ file # Torn
  /\ up' = up \cup {m}
  /\ table' = [table EXCEPT ![m] = file]
  /\ UNCHANGED <<file, handle, guest, disk, tap, request>>

\* The end of a command, a signal or a crash, which may hit a write.
Writing(m) ==
  \/ request[m].at \in {"record", "booted", "stopped", "forget", "report"}
  \/ request[m].at = "idle" /\ table[m] # EmptyTable

ProcessEnds(m) ==
  /\ m \in up
  /\ up' = up \ {m}
  /\ file' \in {file} \cup IF Writing(m) THEN {Torn} ELSE {}
  /\ table' = [table EXCEPT ![m] = EmptyTable]
  /\ handle' = [handle EXCEPT ![m] = NoHandles]
  /\ guest' = [g \in Guests |-> IF guest[g] # NoVM /\ guest[g].owner = m
                                  THEN NoVM ELSE guest[g]]
  /\ request' = [request EXCEPT ![m] = NoRequest]
  /\ UNCHANGED <<disk, tap>>

-----------------------------------------------------------------------------
Next ==
  \/ \E m \in Managers :
       \/ \E n \in Names :
            \/ Create(m, n) \/ Start(m, n) \/ DestroyAtRest(m, n)
            \/ DestroyOrphan(m, n) \/ Pause(m, n) \/ Unpause(m, n)
            \/ Status(m, n) \/ Lock(m, n) \/ Unlock(m, n)
            \/ \E op \in {"stop", "restart", "destroy"} : Stop(m, op, n)
            \/ \E old \in Names : Clone(m, old, n) \/ Rename(m, old, n)
       \/ SetupNetwork(m) \/ SetupNetworkFails(m)
       \/ StoreRecord(m) \/ PreparingFails(m)
       \/ StartAgain(m) \/ RecordStart(m)
       \/ RemoveTap(m) \/ RemoveTapFails(m) \/ RecordStop(m)
       \/ Untap(m) \/ Wipe(m) \/ Forget(m) \/ Report(m)
       \/ StartProcess(m) \/ ProcessEnds(m)
  \/ \E g \in Guests : GuestExits(g) \/ LoopReturns(g)

Spec == Init /\ [][Next]_vars

-----------------------------------------------------------------------------
(* Properties. *)

TypeOK ==
  /\ file \in Tables \cup {Torn}
  /\ up \in SUBSET Managers
  /\ table \in [Managers -> Tables]
  /\ handle \in [Managers -> [Names -> Guests \cup {NoGuest}]]
  /\ guest \in [Guests -> VMs \cup {NoVM}]
  /\ disk \in SUBSET Names
  /\ tap \in SUBSET Names
  /\ request \in [Managers -> Requests]

Live(g) == guest[g] # NoVM /\ guest[g].live

(***************************************************************************)
(* A guest that executes is the one its manager tracks under its name, and *)
(* is on record there as running, unless its Start is about to say so: no  *)
(* guest is leaked, and none runs behind the back of the table, whatever   *)
(* fails, exits, crashes or is renamed in between.                         *)
(***************************************************************************)
GuestIsTracked ==
  \A g \in Guests :
    Live(g) =>
      LET m == guest[g].owner
          n == guest[g].of
      IN /\ handle[m][n] = g
         /\ \/ HasStatus(m, n, "running")
            \/ At(m, "booted") /\ Target(m) = n

(***************************************************************************)
(* The disk of a guest that executes is there.                             *)
(***************************************************************************)
GuestHasDisk == \A g \in Guests : Live(g) => guest[g].of \in disk

(***************************************************************************)
(* manager.go:905, "Orphaned state - VM process is gone, proceed with      *)
(* destroy": what Destroy takes for an orphan is not executing.            *)
(***************************************************************************)
OrphanIsGone ==
  \A m \in Managers :
    At(m, "orphan") => \A g \in Guests : ~(Live(g) /\ guest[g].of = Target(m))

LockedIn(t) == {n \in Names : t[n] # NoRecord /\ t[n].locked}

LockStays(n) ==
  \/ n \in LockedIn(file')
  \/ \E m \in Managers :
       \/ Unlock(m, n)
       \/ \E k \in LockedIn(file') : Rename(m, n, k)

(***************************************************************************)
(* manager.go:2354, "Lock prevents a sandbox from being stopped, destroyed,*)
(* or modified": a lock leaves the file only by an unlock of its sandbox,  *)
(* or goes along with it to a new name; no crash, restart or request that  *)
(* looked before takes it.                                                 *)
(***************************************************************************)
LocksHold ==
  [][file # Torn /\ file' # Torn => \A n \in LockedIn(file) : LockStays(n)]_vars
=============================================================================
