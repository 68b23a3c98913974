---------------------------- MODULE SandboxProofs -----------------------------
(***************************************************************************)
(* Proofs about Sandbox, for any sandboxes, processes and guests.          *)
(***************************************************************************)
EXTENDS Sandbox, TLAPS

USE SandboxAssumption, SentinelAssumption DEF SandboxAssumption, SentinelAssumption

(***************************************************************************)
(* Types.  A handle leads to a VM of its name and its process, and the     *)
(* steps that rewrite a record find one.                                   *)
(***************************************************************************)
HandlesMatch ==
  \A m \in Managers, n \in Names :
    Tracked(m, n) =>
      guest[handle[m][n]] # NoVM /\ VM(m, n).of = n /\ VM(m, n).owner = m

Recorded ==
  \A m \in Managers :
    /\ m \notin up => request[m].at = "idle"
    /\ request[m].at \in {"boot", "booted", "cleanup", "stopped"} =>
         table[m][Target(m)] # NoRecord
    /\ request[m].at = "booted" => Tracked(m, Target(m))

TypeInv == TypeOK /\ HandlesMatch /\ Recorded

-----------------------------------------------------------------------------
(* What the helpers of Sandbox do, as facts about every key. *)

RequestIs(m, op, n, at) ==
  /\ request' \in [Managers -> Requests]
  /\ request'[m].op = op /\ request'[m].name = n /\ request'[m].at = at
  /\ \A k \in Managers \ {m} : request'[k] = request[k]

\* A request goes on to its next step.
LEMMA Moving ==
  ASSUME TypeOK, NEW m \in Managers, NEW at \in Steps, Goes(m, at)
  PROVE  RequestIs(m, request[m].op, Target(m), at)
<1>1. request[m] \in Requests /\ request \in [Managers -> Requests]
  BY DEF TypeOK
<1>2. [request[m] EXCEPT !.at = at] \in Requests
  BY <1>1 DEF Requests
<1>3. request' = [request EXCEPT ![m] = [request[m] EXCEPT !.at = at]]
  BY DEF Goes
<1> QED
  BY <1>1, <1>2, <1>3 DEF RequestIs, Target, Requests

\* A request ends.
LEMMA Finishing ==
  ASSUME TypeOK, NEW m \in Managers, Over(m)
  PROVE  RequestIs(m, request[m].op, Target(m), Resting(m))
  BY Moving DEF Over, Resting, Steps

\* A manager begins a request.
LEMMA Starting ==
  ASSUME TypeOK, NEW m \in Managers, NEW n \in Names, NEW op \in Operations, NEW at \in Steps,
         Begins(m, op, n, at)
  PROVE  RequestIs(m, op, n, at)
  BY DEF TypeOK, Begins, RequestIs, Requests

TableIs(m, t) ==
  /\ table' \in [Managers -> Tables]
  /\ file' \in {file, t}
  /\ table'[m] = t
  /\ \A k \in Managers \ {m} : table'[k] = table[k]

\* A new table reaches the file, or only the memory of its manager.
LEMMA Saving ==
  ASSUME TypeOK, NEW m \in Managers, NEW t \in Tables, Saves(m, t) \/ SaveFails(m, t)
  PROVE  TableIs(m, t)
  BY DEF TypeOK, Saves, SaveFails, TableIs

\* A table with a new status is a table.
LEMMA StatusTypes ==
  ASSUME TypeOK, NEW m \in Managers, NEW n \in Names, NEW s \in Statuses, table[m][n] # NoRecord
  PROVE  /\ WithStatus(m, n, s) \in Tables
         /\ WithStatus(m, n, s)[n] # NoRecord
         /\ WithStatus(m, n, s)[n].status = s
         /\ \A k \in Names \ {n} : WithStatus(m, n, s)[k] = table[m][k]
<1>1. table[m] \in Tables /\ table[m][n] \in Records
  BY DEF TypeOK, Tables
<1>2. [table[m][n] EXCEPT !.status = s] \in Records
  BY <1>1 DEF Records
<1> QED
  BY <1>1, <1>2 DEF WithStatus, Tables

\* A table with a lock set or taken off is a table.
LEMMA LockTypes ==
  ASSUME TypeOK, NEW m \in Managers, NEW n \in Names, NEW b \in BOOLEAN, table[m][n] # NoRecord
  PROVE  [table[m] EXCEPT ![n] = [@ EXCEPT !.locked = b]] \in Tables
<1>1. table[m] \in Tables /\ table[m][n] \in Records
  BY DEF TypeOK, Tables
<1>2. [table[m][n] EXCEPT !.locked = b] \in Records
  BY <1>1 DEF Records
<1> QED
  BY <1>1, <1>2 DEF Tables

\* A table with a record under a new name is a table.
LEMMA RenameTypes ==
  ASSUME TypeOK, NEW m \in Managers, NEW n \in Names, NEW old \in Names
  PROVE  [table[m] EXCEPT ![n] = table[m][old], ![old] = NoRecord] \in Tables
<1>1. table[m] \in Tables /\ table[m][old] \in Records \cup {NoRecord}
  BY DEF TypeOK, Tables
<1> QED
  BY <1>1 DEF Tables

GuestIs(g, vm) ==
  /\ guest' \in [Guests -> VMs \cup {NoVM}]
  /\ guest'[g] = vm
  /\ \A h \in Guests \ {g} : guest'[h] = guest[h]

\* The VM that a handle leads to is replaced.
LEMMA Setting ==
  ASSUME TypeInv, NEW m \in Managers, NEW n \in Names, Tracked(m, n),
         NEW vm \in VMs, SetVM(m, n, vm)
  PROVE  GuestIs(handle[m][n], vm) /\ handle[m][n] \in Guests
  BY DEF TypeInv, TypeOK, Tracked, SetVM, GuestIs

\* A handle leads to a VM of its name and process.
LEMMA TrackedTypes ==
  ASSUME TypeInv, NEW m \in Managers, NEW n \in Names, Tracked(m, n)
  PROVE  VM(m, n) \in VMs /\ VM(m, n).of = n /\ VM(m, n).owner = m /\ handle[m][n] \in Guests
  BY DEF TypeInv, TypeOK, HandlesMatch, VM, Tracked

\* Halting, cancelling or resuming a VM keeps its name and its owner.
LEMMA VMTypes ==
  ASSUME NEW vm \in VMs, NEW f \in {Halted(vm), Cancelled(vm), Resumed(vm)}
  PROVE  f \in VMs /\ f.of = vm.of /\ f.owner = vm.owner
  BY DEF VMs, Halted, Cancelled, Resumed

HandleIs(m, n, g) ==
  /\ handle' \in [Managers -> [Names -> Guests \cup {NoGuest}]]
  /\ handle'[m][n] = g
  /\ \A k \in Names \ {n} : handle'[m][k] = handle[m][k]
  /\ \A k \in Managers \ {m} : handle'[k] = handle[k]

\* Setting one handle leaves the others.
LEMMA Handling ==
  ASSUME TypeOK, NEW m \in Managers, NEW n \in Names, NEW g \in Guests \cup {NoGuest},
         handle' = [handle EXCEPT ![m][n] = g]
  PROVE  HandleIs(m, n, g)
  BY DEF TypeOK, HandleIs

\* A step that leaves handles and guests alone, or changes one VM of its own.
LEMMA SameHandles ==
  ASSUME HandlesMatch, UNCHANGED <<handle, guest>>
  PROVE  HandlesMatch'
  BY DEF HandlesMatch, Tracked, VM

\* A changed VM that keeps its name and owner still matches its handle.
LEMMA ChangedVM ==
  ASSUME TypeInv, NEW m \in Managers, NEW n \in Names, Tracked(m, n), NEW vm \in VMs,
         vm.of = n, vm.owner = m, SetVM(m, n, vm),
         HandleIs(m, n, NoGuest) \/ UNCHANGED handle
  PROVE  HandlesMatch'
<1>1. GuestIs(handle[m][n], vm) /\ vm # NoVM
  BY Setting
<1>2. SUFFICES ASSUME NEW k \in Managers, NEW o \in Names, Tracked(k, o)'
      PROVE  guest'[handle'[k][o]] # NoVM /\ VM(k, o)'.of = o /\ VM(k, o)'.owner = k
  BY DEF HandlesMatch
<1>3. handle'[k][o] = handle[k][o] /\ Tracked(k, o)
  BY <1>2 DEF HandleIs, Tracked
<1>4. guest[handle[k][o]] # NoVM /\ VM(k, o).of = o /\ VM(k, o).owner = k /\ handle[k][o] \in Guests
  BY <1>3 DEF TypeInv, TypeOK, HandlesMatch, Tracked
<1>5. CASE handle[k][o] = handle[m][n]
  <2>1. VM(k, o) = VM(m, n)
    BY <1>5 DEF VM
  <2>2. k = m /\ o = n
    BY <1>4, <2>1, TrackedTypes
  <2> QED
    BY <1>1, <1>3, <1>5, <2>2 DEF GuestIs, VM
<1>6. CASE handle[k][o] # handle[m][n]
  BY <1>1, <1>3, <1>4, <1>6 DEF GuestIs, VM
<1> QED
  BY <1>5, <1>6

\* A handle is dropped.
LEMMA Untracking ==
  ASSUME TypeInv, NEW m \in Managers, NEW n \in Names, HandleIs(m, n, NoGuest), UNCHANGED guest
  PROVE  HandlesMatch'
  BY DEF TypeInv, HandlesMatch, HandleIs, Tracked, VM

\* A guest boots under a new handle.
LEMMA Booting ==
  ASSUME TypeInv, NEW m \in Managers, NEW n \in Names, Boot(m, n)
  PROVE  \E g \in Guests :
           /\ Free(g) /\ HandleIs(m, n, g) /\ GuestIs(g, Booted(m, n))
           /\ Booted(m, n) \in VMs /\ HandlesMatch'
<1>1. PICK g \in Guests : Free(g) /\ guest' = [guest EXCEPT ![g] = Booted(m, n)]
                          /\ handle' = [handle EXCEPT ![m][n] = g]
  BY DEF Boot
<1>2. Booted(m, n) \in VMs
  BY DEF Booted, VMs
<1>3. HandleIs(m, n, g)
  BY <1>1, Handling DEF TypeInv
<1>4. GuestIs(g, Booted(m, n))
  BY <1>1, <1>2 DEF GuestIs, TypeInv, TypeOK
<1>5. HandlesMatch'
  <2> SUFFICES ASSUME NEW k \in Managers, NEW o \in Names, Tracked(k, o)'
      PROVE  guest'[handle'[k][o]] # NoVM /\ VM(k, o)'.of = o /\ VM(k, o)'.owner = k
    BY DEF HandlesMatch
  <2>1. CASE k = m /\ o = n
    <3>1. guest'[handle'[k][o]] = Booted(m, n)
      BY <1>3, <1>4, <2>1 DEF HandleIs, GuestIs
    <3>2. Booted(m, n) # NoVM
      BY <1>2
    <3>3. Booted(m, n).of = n /\ Booted(m, n).owner = m
      BY DEF Booted
    <3> QED
      BY <2>1, <3>1, <3>2, <3>3 DEF VM
  <2>2. CASE ~(k = m /\ o = n)
    <3>1. handle'[k][o] = handle[k][o] /\ handle[k][o] # g /\ Tracked(k, o)
      BY <1>1, <1>3, <2>2 DEF HandleIs, Free, Tracked
    <3>2. guest'[handle[k][o]] = guest[handle[k][o]]
      BY <1>4, <3>1 DEF GuestIs, TypeInv, TypeOK, Tracked
    <3> QED
      BY <3>1, <3>2 DEF TypeInv, HandlesMatch, VM
  <2> QED
    BY <2>1, <2>2
<1> QED
  BY <1>1, <1>2, <1>3, <1>4, <1>5

\* Every step keeps types, handles and records together.
LEMMA StepTypes == TypeInv /\ [Next]_vars => TypeInv'
<1> SUFFICES ASSUME TypeInv, [Next]_vars PROVE TypeInv'
  OBVIOUS
<1> USE DEF TypeInv
<1>0. TypeOK
  OBVIOUS
<1>1. ASSUME NEW m \in Managers, NEW n \in Names, Create(m, n) PROVE TypeInv'
  <2>1. PICK at \in {"network", Resting(m)} : RequestIs(m, "create", n, at)
    BY <1>1, Starting DEF Create, Resting, Steps, Operations
  <2> QED
    BY <1>1, <2>1, SameHandles DEF Create, CreateRootFS, TypeOK, RequestIs, Recorded, Idle, Resting, Target, Tracked
<1>2. ASSUME NEW m \in Managers, NEW n \in Names, NEW s \in Names, Clone(m, s, n) PROVE TypeInv'
  <2>1. PICK at \in {"network", Resting(m)} : RequestIs(m, "clone", n, at)
    BY <1>2, Starting DEF Clone, Resting, Steps, Operations
  <2> QED
    BY <1>2, <2>1, SameHandles DEF Clone, CloneRootFS, TypeOK, RequestIs, Recorded, Idle, Resting, Target, Tracked
<1>3. ASSUME NEW m \in Managers, SetupNetwork(m) PROVE TypeInv'
  <2>1. RequestIs(m, request[m].op, Target(m), "record") /\ Target(m) \in Names
    BY <1>3, Moving DEF SetupNetwork, Steps, TypeOK, Requests, Target
  <2> QED
    BY <1>3, <2>1, SameHandles DEF SetupNetwork, SetupVMNetwork, TypeOK, RequestIs, Recorded, At, Target, Tracked
<1>4. ASSUME NEW m \in Managers, SetupNetworkFails(m) PROVE TypeInv'
  <2>1. RequestIs(m, request[m].op, Target(m), Resting(m)) /\ Target(m) \in Names
    BY <1>4, Finishing DEF SetupNetworkFails, TypeOK, Requests, Target
  <2> QED
    BY <1>4, <2>1, SameHandles DEF SetupNetworkFails, DestroyVMStorage, TypeOK, RequestIs, Recorded, At, Target, Tracked, Resting
<1>5. ASSUME NEW m \in Managers, PreparingFails(m) PROVE TypeInv'
  <2>1. RequestIs(m, request[m].op, Target(m), Resting(m)) /\ Target(m) \in Names
    BY <1>5, Finishing DEF PreparingFails, TypeOK, Requests, Target
  <2> QED
    BY <1>5, <2>1, SameHandles DEF PreparingFails, DestroyVMStorage, CleanupVMNetwork, TypeOK, RequestIs, Recorded, At, Target, Tracked, Resting
<1>6. ASSUME NEW m \in Managers, StoreRecord(m) PROVE TypeInv'
  <2>1. Target(m) \in Names /\ NewRecord(m, Target(m)) \in Tables
    BY DEF TypeOK, Requests, Target, NewRecord, Tables, Records, Statuses
  <2>2. TableIs(m, NewRecord(m, Target(m)))
    BY <1>6, <2>1, Saving DEF StoreRecord
  <2>3. PICK at \in {"report", Resting(m)} : RequestIs(m, request[m].op, Target(m), at)
    BY <1>6, Finishing, Moving DEF StoreRecord, Steps
  <2> QED
    BY <1>6, <2>1, <2>2, <2>3, SameHandles DEF StoreRecord, TableIs, TypeOK, RequestIs, Recorded, At, Target, Tracked, Resting
<1>7. ASSUME NEW m \in Managers, NEW n \in Names, Start(m, n) PROVE TypeInv'
  <2>1. RequestIs(m, "start", n, "booted")
    BY <1>7, Starting DEF Start, Steps, Operations
  <2>2. PICK g \in Guests : HandleIs(m, n, g) /\ GuestIs(g, Booted(m, n)) /\ HandlesMatch'
    BY <1>7, Booting DEF Start
  <2> QED
    BY <1>7, <2>1, <2>2 DEF Start, Boot, AtRest, HandleIs, GuestIs, TypeOK, RequestIs, Recorded, Idle, Target, Tracked
<1>8. ASSUME NEW m \in Managers, StartAgain(m) PROVE TypeInv'
  <2>1. Target(m) \in Names
    BY DEF TypeOK, Requests, Target
  <2>2. CASE Boot(m, Target(m)) /\ Goes(m, "booted")
    <3>1. RequestIs(m, request[m].op, Target(m), "booted")
      BY <2>2, Moving DEF Steps
    <3>2. PICK g \in Guests : HandleIs(m, Target(m), g) /\ GuestIs(g, Booted(m, Target(m))) /\ HandlesMatch'
      BY <2>1, <2>2, Booting
    <3> QED
      BY <1>8, <2>1, <2>2, <3>1, <3>2 DEF StartAgain, Boot, AtRest, HandleIs, GuestIs, TypeOK, RequestIs, Recorded, At, Target, Tracked
  <2>3. CASE Over(m) /\ UNCHANGED <<file, up, table, handle, guest, disk, tap>>
    BY <1>8, <2>1, <2>3, Finishing, SameHandles DEF StartAgain, TypeOK, RequestIs, Recorded, At, Target, Tracked, Resting
  <2> QED
    BY <1>8, <2>2, <2>3 DEF StartAgain
<1>9. ASSUME NEW m \in Managers, RecordStart(m) PROVE TypeInv'
  <2> DEFINE n == Target(m)
             t == WithStatus(m, n, "running")
  <2>1. n \in Names /\ table[m][n] # NoRecord /\ Tracked(m, n) /\ m \in up
    BY <1>9 DEF RecordStart, At, TypeOK, Requests, Target, Recorded
  <2>2. t \in Tables /\ t[n] # NoRecord
    BY <2>1, StatusTypes DEF Statuses
  <2>3. TableIs(m, t)
    BY <1>9, <2>2, Saving DEF RecordStart
  <2>4. PICK at \in {"report", Resting(m)} : RequestIs(m, request[m].op, n, at)
    BY <1>9, Finishing, Moving DEF RecordStart, Steps
  <2>5. CASE UNCHANGED <<guest, handle>>
    BY <1>9, <2>1, <2>2, <2>3, <2>4, <2>5, SameHandles
       DEF RecordStart, TableIs, TypeOK, RequestIs, Recorded, Target, Tracked, Resting
  <2>6. CASE SetVM(m, n, Halted(VM(m, n))) /\ Untrack(m, n)
    <3>1. Halted(VM(m, n)) \in VMs /\ Halted(VM(m, n)).of = n /\ Halted(VM(m, n)).owner = m
      BY <2>1, TrackedTypes, VMTypes
    <3>2. HandleIs(m, n, NoGuest) /\ GuestIs(handle[m][n], Halted(VM(m, n)))
      BY <2>1, <2>6, <3>1, Handling, Setting DEF Untrack
    <3>3. HandlesMatch'
      BY <2>1, <2>6, <3>1, <3>2, ChangedVM
    <3>4. TypeOK'
      BY <1>9, <2>3, <2>4, <3>2 DEF RecordStart, TableIs, HandleIs, GuestIs, TypeOK, RequestIs
    <3>5. Recorded'
      BY <1>9, <2>1, <2>2, <2>3, <2>4, <3>2
         DEF RecordStart, TableIs, HandleIs, RequestIs, Recorded, Target, Tracked, Resting
    <3> QED
      BY <3>3, <3>4, <3>5
  <2> QED
    BY <1>9, <2>5, <2>6 DEF RecordStart
<1>10. ASSUME NEW m \in Managers, NEW n \in Names, NEW op \in {"stop", "restart", "destroy"},
              Stop(m, op, n)
       PROVE TypeInv'
  <2>1. Tracked(m, n) /\ table[m][n] # NoRecord /\ m \in up
    BY <1>10 DEF Stop, HasStatus, Idle
  <2>2. Halted(VM(m, n)) \in VMs /\ Halted(VM(m, n)).of = n /\ Halted(VM(m, n)).owner = m
    BY <2>1, TrackedTypes, VMTypes
  <2>3. GuestIs(handle[m][n], Halted(VM(m, n))) /\ HandlesMatch'
    BY <1>10, <2>1, <2>2, Setting, ChangedVM DEF Stop
  <2>4. RequestIs(m, op, n, "cleanup")
    BY <1>10, Starting DEF Stop, Steps, Operations
  <2> QED
    BY <1>10, <2>1, <2>3, <2>4 DEF Stop, GuestIs, TypeOK, RequestIs, Recorded, Target, Tracked
<1>11. ASSUME NEW m \in Managers, RemoveTap(m) \/ RemoveTapFails(m) \/ Untap(m) \/ Wipe(m) PROVE TypeInv'
  <2>1. PICK at \in {"stopped", "wipe", "forget", Resting(m)} : RequestIs(m, request[m].op, Target(m), at)
    BY <1>11, Finishing, Moving DEF RemoveTap, RemoveTapFails, Untap, Wipe, Steps
  <2>2. /\ Target(m) \in Names /\ m \in up /\ UNCHANGED <<file, up, table, handle, guest>>
        /\ tap' \in SUBSET Names /\ disk' \in SUBSET Names
    BY <1>11 DEF RemoveTap, RemoveTapFails, Untap, Wipe, At, TypeOK, Requests, Target, CleanupVMNetwork, DestroyVMStorage
  <2>3. request'[m].at = "stopped" => request[m].at = "cleanup"
    BY <1>11, <2>1, <2>2 DEF RemoveTap, RemoveTapFails, Untap, Wipe, At, Goes, Over, Resting, RequestIs, TypeOK, Requests
  <2> QED
    BY <2>1, <2>2, <2>3, SameHandles DEF TypeOK, RequestIs, Recorded, Target, Tracked, Resting
<1>12. ASSUME NEW m \in Managers, RecordStop(m) PROVE TypeInv'
  <2> DEFINE n == Target(m)
             t == WithStatus(m, n, "stopped")
  <2>1. n \in Names /\ table[m][n] # NoRecord /\ m \in up
    BY <1>12 DEF RecordStop, At, TypeOK, Requests, Target, Recorded
  <2>2. t \in Tables /\ t[n] # NoRecord
    BY <2>1, StatusTypes DEF Statuses
  <2>3. TableIs(m, t)
    BY <1>12, <2>2, Saving DEF RecordStop
  <2>4. PICK at \in {"report", "boot", "wipe", "orphan", Resting(m)} : RequestIs(m, request[m].op, n, at)
    BY <1>12, Finishing, Moving DEF RecordStop, Steps
  <2>5. HandleIs(m, n, NoGuest) /\ HandlesMatch'
    BY <1>12, <2>1, Handling, Untracking DEF RecordStop, Untrack
  <2>6. TypeOK'
    BY <1>12, <2>3, <2>4, <2>5 DEF RecordStop, TableIs, HandleIs, TypeOK, RequestIs
  <2>7. Recorded'
    BY <1>12, <2>1, <2>2, <2>3, <2>4, <2>5
       DEF RecordStop, TableIs, HandleIs, RequestIs, Recorded, Target, Tracked, Resting
  <2> QED
    BY <2>5, <2>6, <2>7
<1>13. ASSUME NEW m \in Managers, NEW n \in Names, DestroyAtRest(m, n) \/ DestroyOrphan(m, n) PROVE TypeInv'
  <2>1. PICK at \in {"untap", "orphan"} : RequestIs(m, "destroy", n, at)
    BY <1>13, Starting DEF DestroyAtRest, DestroyOrphan, Steps, Operations
  <2> QED
    BY <1>13, <2>1, SameHandles DEF DestroyAtRest, DestroyOrphan, TypeOK, RequestIs, Recorded, Idle, Target, Tracked
<1>14. ASSUME NEW m \in Managers, Forget(m) PROVE TypeInv'
  <2>1. Without(m, Target(m)) \in Tables
    BY DEF Without, TypeOK, Tables
  <2>2. TableIs(m, Without(m, Target(m))) /\ RequestIs(m, request[m].op, Target(m), Resting(m))
    BY <1>14, <2>1, Saving, Finishing DEF Forget
  <2> QED
    BY <1>14, <2>2, SameHandles DEF Forget, TableIs, TypeOK, RequestIs, Recorded, At, Target, Tracked, Resting
<1>15. ASSUME NEW m \in Managers, NEW n \in Names, Pause(m, n) PROVE TypeInv'
  <2> DEFINE t == WithStatus(m, n, "paused")
  <2>1. table[m][n] # NoRecord /\ Tracked(m, n) /\ m \in up
    BY <1>15 DEF Pause, HasStatus, Idle
  <2>2. t \in Tables
    BY <2>1, StatusTypes DEF Statuses
  <2>3. TableIs(m, t) /\ RequestIs(m, request[m].op, Target(m), Resting(m))
    BY <1>15, <2>2, Saving, Finishing DEF Pause
  <2>4. PICK vm \in VMs : SetVM(m, n, vm) /\ vm.of = n /\ vm.owner = m
    BY <1>15, <2>1, TrackedTypes, VMTypes DEF Pause
  <2>5. GuestIs(handle[m][n], vm) /\ HandlesMatch'
    BY <1>15, <2>1, <2>4, Setting, ChangedVM DEF Pause
  <2> QED
    BY <1>15, <2>1, <2>3, <2>5 DEF Pause, GuestIs, TableIs, TypeOK, RequestIs, Recorded, Idle, Target, Tracked, Resting
<1>16. ASSUME NEW m \in Managers, NEW n \in Names, Unpause(m, n) PROVE TypeInv'
  <2> DEFINE t == WithStatus(m, n, "running")
  <2>1. table[m][n] # NoRecord /\ Tracked(m, n) /\ m \in up
    BY <1>16 DEF Unpause, HasStatus, Idle
  <2>2. t \in Tables
    BY <2>1, StatusTypes DEF Statuses
  <2>3. TableIs(m, t) /\ RequestIs(m, request[m].op, Target(m), Resting(m))
    BY <1>16, <2>2, Saving, Finishing DEF Unpause
  <2>4. PICK vm \in VMs : SetVM(m, n, vm) /\ vm.of = n /\ vm.owner = m
    BY <1>16, <2>1, TrackedTypes, VMTypes DEF Unpause
  <2>5. GuestIs(handle[m][n], vm) /\ HandlesMatch'
    BY <1>16, <2>1, <2>4, Setting, ChangedVM DEF Unpause
  <2> QED
    BY <1>16, <2>1, <2>3, <2>5 DEF Unpause, GuestIs, TableIs, TypeOK, RequestIs, Recorded, Idle, Target, Tracked, Resting
<1>17. ASSUME NEW m \in Managers, Report(m) \/ \E n \in Names : Status(m, n)
       PROVE TypeInv'
  <2>1. Target(m) \in Names /\ m \in up /\ UNCHANGED <<up, guest, disk, tap>>
    BY <1>17 DEF Status, Report, Idle, At, TypeOK, Requests, Target
  <2>2. RequestIs(m, request[m].op, Target(m), Resting(m))
    BY <1>17, Finishing DEF Status, Report
  <2>3. CASE UNCHANGED <<file, table, handle>>
    BY <2>1, <2>2, <2>3, SameHandles DEF TypeOK, RequestIs, Recorded, Target, Tracked, Resting
  <2>4. ASSUME NEW n \in Names, MarkStopped(m, n) PROVE TypeInv'
    <3>1. table[m][n] # NoRecord
      BY <2>4 DEF MarkStopped, LooksDead, HasStatus
    <3>2. TableIs(m, WithStatus(m, n, "stopped"))
      BY <2>4, <3>1, StatusTypes, Saving DEF MarkStopped, Statuses
    <3>3. HandleIs(m, n, NoGuest) /\ HandlesMatch'
      BY <2>1, <2>4, Handling, Untracking DEF MarkStopped, Untrack
    <3>4. WithStatus(m, n, "stopped") \in Tables
      BY <3>1, StatusTypes DEF Statuses
    <3> QED
      BY <2>1, <2>2, <3>2, <3>3, <3>4 DEF TableIs, HandleIs, TypeOK, RequestIs, Recorded, Target, Tracked, Resting
  <2> QED
    BY <1>17, <2>1, <2>3, <2>4 DEF Status, Report
<1>18. ASSUME NEW m \in Managers, NEW t \in Tables, Rewrites(m, t) PROVE TypeInv'
  <2>1. TableIs(m, t) /\ RequestIs(m, request[m].op, Target(m), Resting(m))
    BY <1>18, Saving, Finishing DEF Rewrites
  <2> QED
    BY <1>18, <2>1, SameHandles DEF Rewrites, TableIs, TypeOK, RequestIs, Recorded, Idle, Target, Tracked, Resting
<1>19. ASSUME NEW m \in Managers, NEW n \in Names, Lock(m, n) \/ Unlock(m, n) PROVE TypeInv'
  <2>1. [table[m] EXCEPT ![n] = [@ EXCEPT !.locked = TRUE]] \in Tables
        /\ [table[m] EXCEPT ![n] = [@ EXCEPT !.locked = FALSE]] \in Tables
    BY <1>19, LockTypes DEF Lock, Unlock
  <2> QED
    BY <1>18, <1>19, <2>1 DEF Lock, Unlock
<1>20. ASSUME NEW m \in Managers, NEW n \in Names, NEW old \in Names, Rename(m, old, n) PROVE TypeInv'
  BY <1>18, <1>20, RenameTypes DEF Rename
<1>21. ASSUME NEW g \in Guests, GuestExits(g) \/ LoopReturns(g) PROVE TypeInv'
  <2>1. PICK vm \in VMs : guest' = [guest EXCEPT ![g] = vm] /\ vm.of = guest[g].of /\ vm.owner = guest[g].owner
    <3>1. guest[g] \in VMs
      BY <1>21 DEF GuestExits, LoopReturns, TypeOK
    <3>2. ASSUME NEW r \in BOOLEAN,
                 NEW vm \in {[guest[g] EXCEPT !.live = FALSE, !.running = r],
                            [guest[g] EXCEPT !.stale = FALSE, !.running = r]}
          PROVE  vm \in VMs /\ vm.of = guest[g].of /\ vm.owner = guest[g].owner
      BY <3>1 DEF VMs
    <3>3. guest[g].running \in BOOLEAN
      BY <3>1 DEF VMs
    <3> QED
      BY <1>21, <3>2, <3>3 DEF GuestExits, LoopReturns
  <2>2. guest[g] # NoVM /\ vm # NoVM /\ UNCHANGED <<file, up, table, handle, disk, tap, request>>
    BY <1>21 DEF GuestExits, LoopReturns
  <2>3. GuestIs(g, vm)
    BY <2>1 DEF TypeOK, GuestIs
  <2>4. HandlesMatch'
    BY <2>1, <2>2, <2>3 DEF HandlesMatch, GuestIs, VM, Tracked, TypeOK
  <2> QED
    BY <2>2, <2>3, <2>4 DEF TypeOK, GuestIs, Recorded, Target, Tracked
<1>22. ASSUME NEW m \in Managers, StartProcess(m) PROVE TypeInv'
  BY <1>22, SameHandles DEF StartProcess, TypeOK, Recorded, Target, Tracked
<1>23. ASSUME NEW m \in Managers, ProcessEnds(m) PROVE TypeInv'
  <2>1. NoRequest \in Requests /\ NoRequest.at = "idle"
    BY DEF NoRequest, Requests, Operations, Steps
  <2>2. /\ request' \in [Managers -> Requests] /\ request'[m].at = "idle"
        /\ \A k \in Managers \ {m} : request'[k] = request[k]
    BY <1>23, <2>1 DEF ProcessEnds, TypeOK
  <2>3. /\ handle' \in [Managers -> [Names -> Guests \cup {NoGuest}]] /\ handle'[m] = NoHandles
        /\ \A k \in Managers \ {m} : handle'[k] = handle[k]
    BY <1>23 DEF ProcessEnds, TypeOK, NoHandles
  <2>4. /\ guest' \in [Guests -> VMs \cup {NoVM}]
        /\ \A g \in Guests : guest[g] # NoVM /\ guest[g].owner # m => guest'[g] = guest[g]
    BY <1>23 DEF ProcessEnds, TypeOK
  <2>5. /\ table' \in [Managers -> Tables] /\ \A k \in Managers \ {m} : table'[k] = table[k]
    BY <1>23 DEF ProcessEnds, TypeOK, EmptyTable, Tables
  <2>6. HandlesMatch'
    BY <2>3, <2>4 DEF HandlesMatch, Tracked, VM, NoHandles, TypeOK
  <2>7. TypeOK'
    BY <1>23, <2>2, <2>3, <2>4, <2>5 DEF ProcessEnds, TypeOK
  <2>8. Recorded'
    BY <1>23, <2>2, <2>3, <2>5 DEF ProcessEnds, Recorded, Target, Tracked
  <2> QED
    BY <2>6, <2>7, <2>8
<1>24. CASE UNCHANGED vars
  BY <1>24 DEF vars, TypeOK, HandlesMatch, Recorded, Target, Tracked, VM
<1> QED
  BY <1>1, <1>2, <1>3, <1>4, <1>5, <1>6, <1>7, <1>8, <1>9, <1>10, <1>11, <1>12, <1>13, <1>14,
     <1>15, <1>16, <1>17, <1>19, <1>20, <1>21, <1>22, <1>23, <1>24 DEF Next

\* Types, handles and records hold in every state.
LEMMA TypesHold == Spec => []TypeInv
<1>1. Init => TypeInv
  <2> SUFFICES ASSUME Init PROVE TypeInv
    OBVIOUS
  <2>1. NoRequest \in Requests /\ NoRequest.at = "idle"
    BY DEF NoRequest, Requests, Operations, Steps
  <2>2. EmptyTable \in Tables /\ NoHandles \in [Names -> Guests \cup {NoGuest}]
    BY DEF EmptyTable, Tables, NoHandles
  <2>3. TypeOK
    BY <2>1, <2>2 DEF Init, TypeOK
  <2>4. HandlesMatch /\ Recorded
    BY <2>1 DEF Init, HandlesMatch, Recorded, NoHandles, Tracked
  <2> QED
    BY <2>3, <2>4 DEF TypeInv
<1> QED
  BY <1>1, StepTypes, PTL DEF Spec

(***************************************************************************)
(* Types hold for every number of processes, whatever fails.               *)
(***************************************************************************)
THEOREM SandboxTypes == Spec => []TypeOK
<1>1. TypeInv => TypeOK
  BY DEF TypeInv
<1> QED
  BY <1>1, TypesHold, PTL

-----------------------------------------------------------------------------
(***************************************************************************)
(* The inductive invariant, with one process at a time, whose writes reach *)
(* state.json and whose cancelled run loops return before an unpause.      *)
(* What a request has seen stays true until it acts on it (PhaseOK), since *)
(* nobody else writes; a live guest is tracked, on record, and its flags   *)
(* are as they should be (Known).  If moreover no removal fails halfway,   *)
(* it has its disk, and a guest that may come to life again by an unpause  *)
(* keeps it (DisksKept).                                                   *)
(***************************************************************************)
HasDisk(n) == "rm" \in Faults \/ n \in disk

OneUp ==
  /\ \A m, k \in up : m = k
  /\ \A m \in Managers \ up : handle[m] = NoHandles
  /\ \A m \in Managers \ Servers : request[m].at = "idle" => handle[m] = NoHandles

Known(g) ==
  LET m == guest[g].owner
      n == guest[g].of
  IN /\ m \in up /\ handle[m][n] = g
     /\ HasStatus(m, n, "running") \/ (At(m, "booted") /\ Target(m) = n)
     /\ HasDisk(n)
     /\ guest[g].running /\ ~guest[g].paused /\ ~guest[g].stale

GuestsKnown == \A g \in Guests : Live(g) => Known(g)

DisksKept ==
  \A m \in up, n \in Names :
    Tracked(m, n) /\ (HasStatus(m, n, "running") \/ HasStatus(m, n, "paused"))
      => HasDisk(n) \/ (At(m, "forget") /\ Target(m) = n)

Quiet(m, n) == Tracked(m, n) => ~VM(m, n).live

PhaseOK(m, n, at) ==
  /\ at \in {"network", "record"} => table[m][n] = NoRecord
  /\ at \in {"boot", "booted", "untap"} => AtRest(m, n)
  /\ at = "booted" => Tracked(m, n) /\ HasDisk(n)
  /\ at \in {"cleanup", "stopped"} => HasStatus(m, n, "running") /\ Quiet(m, n)
  /\ at = "orphan" => ~Tracked(m, n)
  /\ at \in {"wipe", "forget"} => Quiet(m, n)

Phases == \A m \in up : PhaseOK(m, Target(m), request[m].at)

SandboxInv == OneUp /\ GuestsKnown /\ DisksKept /\ Phases

\* While one process is up, a step of it leaves the others at rest.
LEMMA OwnStep ==
  ASSUME OneUp, TypeOK, NEW m \in up, UNCHANGED up,
         \A k \in Managers \ {m} : handle'[k] = handle[k] /\ request'[k] = request[k],
         request'[m].at = "idle" => m \in Servers
  PROVE  OneUp'
  BY DEF OneUp, TypeOK

\* A step that takes a request further and touches no table, handle or guest.
LEMMA RequestStep ==
  ASSUME TypeInv, SandboxInv, NEW m \in up, NEW op, NEW n \in Names, NEW at \in Steps,
         UNCHANGED <<up, table, handle, guest>>, RequestIs(m, op, n, at),
         request[m].at \notin {"booted", "forget"},
         at # "idle" \/ m \in Servers,
         PhaseOK(m, n, at), at # "booted",
         \A k \in disk \ disk' :
           "rm" \in Faults \/ table[m][k] = NoRecord \/ (at = "forget" /\ k = n)
  PROVE  SandboxInv'
<1> USE DEF SandboxInv, HasDisk
<1>1. m \in Managers
  BY DEF TypeInv, TypeOK
<1>2. OneUp'
  BY <1>1, OwnStep DEF TypeInv, RequestIs
<1>3. \A k \in up : k = m
  BY DEF OneUp
<1>4. GuestsKnown'
  BY <1>1, <1>3 DEF GuestsKnown, Known, Live, At, Target, RequestIs, PhaseOK, Quiet, Tracked, VM, HasStatus, TypeInv, TypeOK
<1>5. DisksKept'
  BY <1>1, <1>3 DEF DisksKept, At, Target, RequestIs, Tracked, HasStatus
<1>6. Phases'
  BY <1>1, <1>3 DEF Phases, PhaseOK, Target, RequestIs, Tracked, HasStatus, AtRest, Quiet, VM
<1> QED
  BY <1>2, <1>4, <1>5, <1>6

\* A step that rewrites the table under guests that stay as they are.
LEMMA TableStep ==
  ASSUME TypeInv, SandboxInv, NEW m \in up, NEW t \in Tables, NEW op, NEW n \in Names,
         NEW at \in {"report", "idle", "done"}, at = "idle" => m \in Servers,
         UNCHANGED <<up, handle, guest, disk>>, TableIs(m, t), RequestIs(m, op, n, at),
         \A k \in Names : Tracked(m, k) =>
           /\ VM(m, k).live => t[k] # NoRecord /\ t[k].status = "running"
           /\ t[k] # NoRecord /\ t[k].status \in {"running", "paused"} => HasDisk(k)
  PROVE  SandboxInv'
<1> USE DEF SandboxInv, HasDisk
<1>1. m \in Managers /\ \A k \in up : k = m
  BY DEF TypeInv, TypeOK, OneUp
<1>2. OneUp'
  BY <1>1, OwnStep DEF TypeInv, RequestIs
<1>3. GuestsKnown'
  <2> SUFFICES ASSUME NEW g \in Guests, Live(g)' PROVE Known(g)'
    BY DEF GuestsKnown
  <2>1. Live(g) /\ Known(g) /\ guest[g] \in VMs
    BY DEF Live, GuestsKnown, TypeInv, TypeOK
  <2>2. guest[g].owner = m /\ guest[g].of \in Names /\ Tracked(m, guest[g].of)
        /\ VM(m, guest[g].of) = guest[g]
    BY <1>1, <2>1 DEF Known, VMs, Tracked, VM
  <2> QED
    BY <2>1, <2>2 DEF Known, Live, HasStatus, TableIs
<1>4. DisksKept'
  BY <1>1 DEF DisksKept, TableIs, Tracked, HasStatus
<1>5. Phases'
  BY <1>1 DEF Phases, PhaseOK, RequestIs
<1> QED
  BY <1>2, <1>3, <1>4, <1>5

\* A step that gives up the handle of a guest that is not live.
LEMMA UntrackStep ==
  ASSUME TypeInv, SandboxInv, NEW m \in up, NEW n \in Names, NEW op, NEW o \in Names,
         NEW at \in {"report", "boot", "wipe", "idle", "done"}, at = "idle" => m \in Servers,
         at \in {"boot", "wipe"} => o = n,
         table[m][n] # NoRecord, Quiet(m, n), request[m].at \notin {"booted", "forget"},
         UNCHANGED <<up, guest, disk>>, TableIs(m, WithStatus(m, n, "stopped")),
         HandleIs(m, n, NoGuest), RequestIs(m, op, o, at)
  PROVE  SandboxInv'
<1> USE DEF SandboxInv, HasDisk
<1>1. m \in Managers /\ \A k \in up : k = m
  BY DEF TypeInv, TypeOK, OneUp
<1>2. OneUp'
  BY <1>1, OwnStep DEF TypeInv, RequestIs, HandleIs
<1>3. /\ table'[m][n] # NoRecord /\ table'[m][n].status = "stopped"
      /\ \A k \in Names \ {n} : table'[m][k] = table[m][k]
  BY <1>1, StatusTypes DEF TableIs, Statuses, TypeInv
<1>4. GuestsKnown'
  <2> SUFFICES ASSUME NEW g \in Guests, Live(g)' PROVE Known(g)'
    BY DEF GuestsKnown
  <2>1. Live(g) /\ Known(g) /\ guest[g] \in VMs
    BY DEF Live, GuestsKnown, TypeInv, TypeOK
  <2>2. guest[g].owner = m /\ guest[g].of \in Names \ {n} /\ HasStatus(m, guest[g].of, "running")
    BY <1>1, <2>1 DEF Known, VMs, Tracked, VM, Quiet, Live, At
  <2> QED
    BY <1>3, <2>1, <2>2 DEF Known, Live, HasStatus, HandleIs
<1>5. DisksKept'
  BY <1>1, <1>3 DEF DisksKept, HandleIs, Tracked, HasStatus, At
<1>6. Phases'
  BY <1>1, <1>3 DEF Phases, PhaseOK, RequestIs, AtRest, Quiet, Tracked, HandleIs, Target
<1> QED
  BY <1>2, <1>4, <1>5, <1>6

\* A step that changes one tracked guest between two requests.
LEMMA GuestStep ==
  ASSUME TypeInv, SandboxInv, NEW m \in up, NEW n \in Names, NEW vm \in VMs, NEW s \in Statuses,
         NEW op, NEW o \in Names, NEW at \in {"cleanup", "idle", "done"}, at = "idle" => m \in Servers,
         at = "cleanup" => o = n /\ s = "running" /\ ~vm.live,
         request[m].at = "idle", Tracked(m, n), vm.of = n, vm.owner = m,
         HasStatus(m, n, "running") \/ HasStatus(m, n, "paused"),
         vm.live => s = "running" /\ vm.running /\ ~vm.paused /\ ~vm.stale,
         UNCHANGED <<up, handle, disk>>, GuestIs(handle[m][n], vm),
         TableIs(m, WithStatus(m, n, s)) \/ (table' = table /\ HasStatus(m, n, s)),
         RequestIs(m, op, o, at)
  PROVE  SandboxInv'
<1> USE DEF SandboxInv, HasDisk
<1>1. m \in Managers /\ \A k \in up : k = m
  BY DEF TypeInv, TypeOK, OneUp
<1>2. OneUp'
  BY <1>1, OwnStep DEF TypeInv, RequestIs
<1>3. /\ table'[m][n] # NoRecord /\ table'[m][n].status = s
      /\ \A k \in Names \ {n} : table'[m][k] = table[m][k]
  BY <1>1, StatusTypes DEF TableIs, HasStatus, TypeInv
<1>4. HasDisk(n)
  BY DEF DisksKept, At
<1>5. GuestsKnown'
  <2> SUFFICES ASSUME NEW g \in Guests, Live(g)' PROVE Known(g)'
    BY DEF GuestsKnown
  <2>1. CASE g = handle[m][n]
    BY <1>1, <1>3, <1>4, <2>1 DEF Known, Live, HasStatus, GuestIs
  <2>2. CASE g # handle[m][n]
    <3>1. Live(g) /\ Known(g) /\ guest[g] \in VMs /\ guest'[g] = guest[g]
      BY <2>2 DEF Live, GuestsKnown, TypeInv, TypeOK, GuestIs
    <3>2. guest[g].owner = m /\ guest[g].of \in Names \ {n} /\ HasStatus(m, guest[g].of, "running")
      BY <1>1, <2>2, <3>1 DEF Known, VMs, At
    <3> QED
      BY <1>3, <3>1, <3>2 DEF Known, Live, HasStatus
  <2> QED
    BY <2>1, <2>2
<1>6. DisksKept'
  BY <1>1, <1>3, <1>4 DEF DisksKept, Tracked, HasStatus, At
<1>7. Phases'
  BY <1>1, <1>3 DEF Phases, PhaseOK, RequestIs, Quiet, Tracked, GuestIs, HasStatus, VM, Target
<1> QED
  BY <1>2, <1>5, <1>6, <1>7

\* A boot, whatever the name's last VM was: at rest it is not live.
LEMMA BootStep ==
  ASSUME TypeInv, SandboxInv, NEW m \in up, NEW n \in Names, NEW op,
         AtRest(m, n), request[m].at \in {"idle", "boot"}, Boot(m, n), RequestIs(m, op, n, "booted")
  PROVE  SandboxInv'
<1> USE DEF SandboxInv, HasDisk
<1>1. m \in Managers /\ \A k \in up : k = m
  BY DEF TypeInv, TypeOK, OneUp
<1>2. PICK g \in Guests : Free(g) /\ HandleIs(m, n, g) /\ GuestIs(g, Booted(m, n))
  BY <1>1, Booting
<1>3. n \in disk /\ UNCHANGED <<file, up, table, disk, tap>>
  BY DEF Boot
<1>4. OneUp'
  BY <1>1, <1>2, <1>3, OwnStep DEF TypeInv, RequestIs, HandleIs
<1>5. GuestsKnown'
  <2> SUFFICES ASSUME NEW h \in Guests, Live(h)' PROVE Known(h)'
    BY DEF GuestsKnown
  <2>1. CASE h = g
    BY <1>1, <1>2, <1>3, <2>1 DEF Known, Booted, GuestIs, HandleIs, RequestIs, At, Target
  <2>2. CASE h # g
    <3>1. Live(h) /\ Known(h) /\ guest[h] \in VMs /\ guest'[h] = guest[h]
      BY <1>2, <2>2 DEF Live, GuestsKnown, TypeInv, TypeOK, GuestIs
    <3>2. guest[h].owner = m /\ guest[h].of \in Names \ {n} /\ HasStatus(m, guest[h].of, "running")
      BY <1>1, <3>1 DEF Known, VMs, At, AtRest, HasStatus
    <3> QED
      BY <1>2, <1>3, <3>1, <3>2 DEF Known, HasStatus, HandleIs
  <2> QED
    BY <2>1, <2>2
<1>6. DisksKept'
  BY <1>1, <1>2, <1>3 DEF DisksKept, Tracked, HasStatus, HandleIs, At
<1>7. Phases'
  BY <1>1, <1>2, <1>3 DEF Phases, PhaseOK, RequestIs, Tracked, HandleIs, AtRest, Target
<1> QED
  BY <1>4, <1>5, <1>6, <1>7

\* Where a request ends, by the kind of process.
LEMMA Rest == ASSUME NEW m \in Managers PROVE Resting(m) \in {"idle", "done"} /\ (Resting(m) = "idle" => m \in Servers)
  BY DEF Resting

\* What is at rest does not run, unless it is just booted.
LEMMA RestIsQuiet ==
  ASSUME TypeInv, SandboxInv, NEW m \in up, NEW n \in Names, AtRest(m, n) \/ table[m][n] = NoRecord,
         request[m].at # "booted"
  PROVE  Quiet(m, n)
<1>1. m \in Managers
  BY DEF TypeInv, TypeOK
<1> QED
  BY <1>1, TrackedTypes DEF SandboxInv, GuestsKnown, Known, Live, Quiet, VM, AtRest, HasStatus, At, Tracked

\* Every step keeps the safety invariant.
LEMMA StepSafe ==
  ASSUME Exclusive, Faults \subseteq {"rm"}, TypeInv, TypeInv', SandboxInv, [Next]_vars
  PROVE  SandboxInv'
<1> USE DEF HasDisk
<1>0. \A m \in Managers : Target(m) \in Names
  BY DEF TypeInv, TypeOK, Target, Requests
<1>1. ASSUME NEW m \in Managers, NEW n \in Names, NEW s \in Names, Create(m, n) \/ Clone(m, s, n)
      PROVE SandboxInv'
  <2>1. PICK op \in {"create", "clone"}, at \in {"network", Resting(m)} : RequestIs(m, op, n, at)
    BY <1>1, Rest, Starting DEF Create, Clone, Steps, Operations, TypeInv
  <2> QED
    BY <1>1, <2>1, Rest, RequestStep
       DEF Create, Clone, CreateRootFS, CloneRootFS, Idle, PhaseOK, Steps
<1>2. ASSUME NEW m \in Managers, SetupNetwork(m) \/ SetupNetworkFails(m) \/ PreparingFails(m)
      PROVE SandboxInv'
  <2>1. /\ m \in up /\ request[m].at \in {"network", "record"}
        /\ UNCHANGED <<up, table, handle, guest>>
        /\ disk \ disk' \subseteq {Target(m)}
    BY <1>2 DEF SetupNetwork, SetupNetworkFails, PreparingFails, At, DestroyVMStorage
  <2>2. table[m][Target(m)] = NoRecord
    BY <2>1 DEF SandboxInv, Phases, PhaseOK
  <2>3. PICK at \in {"record", Resting(m)} : RequestIs(m, request[m].op, Target(m), at)
    BY <1>2, Finishing, Moving DEF SetupNetwork, SetupNetworkFails, PreparingFails, Steps, TypeInv
  <2> QED
    BY <1>0, <2>1, <2>2, <2>3, Rest, RequestStep DEF PhaseOK, Steps
<1>3. ASSUME NEW m \in Managers, StoreRecord(m) \/ Forget(m) PROVE SandboxInv'
  <2> DEFINE n == Target(m)
  <2>1. m \in up /\ UNCHANGED <<up, handle, guest, disk>> /\ request[m].at \in {"record", "forget"}
    BY <1>3 DEF StoreRecord, Forget, At
  <2>2. PICK t \in {NewRecord(m, n), Without(m, n)} : TableIs(m, t) /\ t \in Tables
    <3>1. NewRecord(m, n) \in Tables /\ Without(m, n) \in Tables
      BY <1>0 DEF TypeInv, TypeOK, NewRecord, Without, Tables, Records, Statuses
    <3> QED
      BY <1>3, <3>1, Saving DEF StoreRecord, Forget, TypeInv
  <2>3. /\ t[n] # NoRecord => t[n].status = "created"
        /\ \A k \in Names \ {n} : t[k] = table[m][k]
    BY <1>0, <2>2 DEF NewRecord, Without, TypeInv, TypeOK, Tables
  <2>4. Quiet(m, n)
    BY <1>0, <2>1, RestIsQuiet DEF SandboxInv, Phases, PhaseOK
  <2>5. PICK at \in {"report", Resting(m)} : RequestIs(m, request[m].op, n, at)
    BY <1>3, Finishing, Moving DEF StoreRecord, Forget, Steps, TypeInv
  <2>6. ASSUME NEW k \in Names, Tracked(m, k)
        PROVE /\ VM(m, k).live => t[k] # NoRecord /\ t[k].status = "running"
              /\ t[k] # NoRecord /\ t[k].status \in {"running", "paused"} => HasDisk(k)
    <3>1. VM(m, k).live => HasStatus(m, k, "running")
      BY <2>1, <2>6, TrackedTypes DEF SandboxInv, GuestsKnown, Known, Live, VM, HasStatus, At
    <3>2. CASE k = n
      BY <2>3, <2>4, <2>6, <3>2 DEF Quiet
    <3>3. CASE k # n
      BY <2>1, <2>3, <2>6, <3>1, <3>3 DEF SandboxInv, DisksKept, HasStatus, At
    <3> QED
      BY <3>2, <3>3
  <2> QED
    BY <1>0, <2>1, <2>2, <2>5, <2>6, Rest, TableStep
<1>4. ASSUME NEW m \in Managers, NEW n \in Names, Start(m, n) PROVE SandboxInv'
  <2>1. RequestIs(m, "start", n, "booted")
    BY <1>4, Starting DEF Start, Steps, Operations, TypeInv
  <2> QED
    BY <1>4, <2>1, BootStep DEF Start, Idle
<1>5. ASSUME NEW m \in Managers, StartAgain(m) PROVE SandboxInv'
  <2>1. m \in up /\ request[m].at = "boot" /\ AtRest(m, Target(m))
    BY <1>5 DEF StartAgain, At, SandboxInv, Phases, PhaseOK
  <2>2. CASE Boot(m, Target(m)) /\ Goes(m, "booted")
    <3>1. RequestIs(m, request[m].op, Target(m), "booted")
      BY <2>2, Moving DEF Steps, TypeInv
    <3> QED
      BY <1>0, <2>1, <2>2, <3>1, BootStep
  <2>3. CASE Over(m) /\ UNCHANGED <<file, up, table, handle, guest, disk, tap>>
    <3>1. RequestIs(m, request[m].op, Target(m), Resting(m))
      BY <2>3, Finishing DEF TypeInv
    <3> QED
      BY <1>0, <2>1, <2>3, <3>1, Rest, RequestStep DEF PhaseOK, Steps
  <2> QED
    BY <1>5, <2>2, <2>3 DEF StartAgain
<1>6. ASSUME NEW m \in Managers, RecordStart(m) PROVE SandboxInv'
  <2> DEFINE n == Target(m)
             t == WithStatus(m, n, "running")
  <2>1. m \in up /\ request[m].at = "booted" /\ n \in Names
    BY <1>0, <1>6 DEF RecordStart, At
  <2>2. AtRest(m, n) /\ Tracked(m, n) /\ HasDisk(n)
    BY <2>1 DEF SandboxInv, Phases, PhaseOK
  <2>3. /\ t \in Tables /\ t[n] # NoRecord /\ t[n].status = "running"
        /\ \A k \in Names \ {n} : t[k] = table[m][k]
    BY <2>1, <2>2, StatusTypes DEF Statuses, AtRest, TypeInv
  <2>4. TableIs(m, t) /\ UNCHANGED <<up, handle, guest, disk>> /\ Goes(m, "report")
    BY <1>6, <2>3, Saving DEF RecordStart, SaveFails, TypeInv
  <2>5. RequestIs(m, request[m].op, n, "report")
    BY <2>4, Moving DEF TypeInv, Steps
  <2>6. ASSUME NEW k \in Names, Tracked(m, k)
        PROVE /\ VM(m, k).live => t[k] # NoRecord /\ t[k].status = "running"
              /\ t[k] # NoRecord /\ t[k].status \in {"running", "paused"} => HasDisk(k)
    <3>1. CASE k = n
      BY <2>2, <2>3, <3>1
    <3>2. CASE k # n
      <4>1. VM(m, k).live => HasStatus(m, k, "running")
        BY <2>1, <2>6, <3>2, TrackedTypes DEF SandboxInv, GuestsKnown, Known, Live, VM, HasStatus, At
      <4> QED
        BY <2>1, <2>3, <2>6, <3>2, <4>1 DEF SandboxInv, DisksKept, HasStatus, At
    <3> QED
      BY <3>1, <3>2
  <2> QED
    BY <2>1, <2>3, <2>4, <2>5, <2>6, TableStep
<1>7. ASSUME NEW m \in Managers, NEW n \in Names, NEW op \in {"stop", "restart", "destroy"},
             Stop(m, op, n)
      PROVE SandboxInv'
  <2>1. m \in up /\ request[m].at = "idle" /\ Tracked(m, n) /\ HasStatus(m, n, "running")
    BY <1>7 DEF Stop, Idle
  <2>2. /\ Halted(VM(m, n)) \in VMs /\ ~Halted(VM(m, n)).live
        /\ Halted(VM(m, n)).of = n /\ Halted(VM(m, n)).owner = m
    <3>1. VM(m, n) \in VMs /\ VM(m, n).of = n /\ VM(m, n).owner = m
      BY <2>1, TrackedTypes
    <3>2. ~Halted(VM(m, n)).live
      BY <3>1 DEF Halted, VMs
    <3> QED
      BY <3>1, <3>2, VMTypes
  <2>3. GuestIs(handle[m][n], Halted(VM(m, n)))
    BY <1>7, <2>1, <2>2, Setting DEF Stop
  <2>4. RequestIs(m, op, n, "cleanup")
    BY <1>7, Starting DEF Stop, Steps, Operations, TypeInv
  <2>5. UNCHANGED <<file, up, table, handle, disk, tap>>
    BY <1>7 DEF Stop
  <2> QED
    BY <2>1, <2>2, <2>3, <2>4, <2>5, GuestStep DEF Statuses
<1>8. ASSUME NEW m \in Managers, RemoveTap(m) \/ RemoveTapFails(m) \/ Untap(m) \/ Wipe(m)
      PROVE SandboxInv'
  <2> DEFINE n == Target(m)
  <2>1. /\ m \in up /\ request[m].at \in {"cleanup", "orphan", "untap", "wipe"}
        /\ UNCHANGED <<up, table, handle, guest>>
    BY <1>8 DEF RemoveTap, RemoveTapFails, Untap, Wipe, At
  <2>2. Quiet(m, n)
    BY <1>0, <2>1, RestIsQuiet DEF SandboxInv, Phases, PhaseOK, Quiet
  <2>3. PICK at \in {"stopped", "wipe", "forget", Resting(m)} :
          /\ RequestIs(m, request[m].op, n, at)
          /\ at = "stopped" => request[m].at = "cleanup"
          /\ at = "forget" \/ disk' = disk \/ "rm" \in Faults
          /\ disk \ disk' \subseteq {n}
    <3> USE <1>0 DEF TypeInv, Steps, At
    <3>1. CASE RemoveTap(m)
      BY <3>1, Moving DEF RemoveTap
    <3>2. CASE Untap(m)
      BY <3>2, Moving DEF Untap
    <3>3. CASE RemoveTapFails(m)
      BY <3>3, Finishing, Rest DEF RemoveTapFails
    <3>4. CASE Wipe(m) /\ Goes(m, "forget") /\ DestroyVMStorage(n)
      BY <3>4, Moving DEF DestroyVMStorage
    <3>5. CASE Wipe(m) /\ Over(m) /\ disk' = disk
      BY <3>5, Finishing, Rest
    <3>6. CASE Wipe(m) /\ Over(m) /\ DestroyVMStorage(n) /\ "rm" \in Faults
      BY <3>6, Finishing, Rest DEF DestroyVMStorage
    <3> QED
      BY <1>8, <3>1, <3>2, <3>3, <3>4, <3>5, <3>6 DEF Wipe
  <2>4. PhaseOK(m, n, at)
    BY <2>1, <2>2, <2>3, Rest DEF SandboxInv, Phases, PhaseOK
  <2> QED
    BY <1>0, <2>1, <2>3, <2>4, Rest, RequestStep DEF Steps
<1>9. ASSUME NEW m \in Managers, RecordStop(m) PROVE SandboxInv'
  <2> DEFINE n == Target(m)
             t == WithStatus(m, n, "stopped")
  <2>1. m \in up /\ request[m].at = "stopped" /\ n \in Names /\ UNCHANGED <<up, guest, disk>>
    BY <1>0, <1>9 DEF RecordStop, At
  <2>2. table[m][n] # NoRecord /\ Quiet(m, n)
    BY <2>1 DEF SandboxInv, Phases, PhaseOK, HasStatus
  <2>3. TableIs(m, t)
    BY <1>9, <2>1, <2>2, StatusTypes, Saving DEF RecordStop, Statuses, TypeInv
  <2>4. HandleIs(m, n, NoGuest)
    BY <1>9, <2>1, Handling DEF RecordStop, Untrack, TypeInv
  <2>5. PICK at \in {"report", "boot", "wipe"} : RequestIs(m, request[m].op, n, at)
    BY <1>9, Moving DEF RecordStop, SaveFails, Steps, TypeInv
  <2> QED
    BY <2>1, <2>2, <2>3, <2>4, <2>5, UntrackStep
<1>10. ASSUME NEW m \in Managers, NEW n \in Names, DestroyAtRest(m, n) \/ DestroyOrphan(m, n)
       PROVE SandboxInv'
  <2>1. /\ m \in up /\ request[m].at = "idle"
        /\ UNCHANGED <<up, table, handle, guest, disk>>
    BY <1>10 DEF DestroyAtRest, DestroyOrphan, Idle
  <2>2. PICK at \in {"untap", "orphan"} : RequestIs(m, "destroy", n, at) /\ PhaseOK(m, n, at)
    BY <1>10, Starting DEF DestroyAtRest, DestroyOrphan, Steps, Operations, TypeInv, PhaseOK
  <2> QED
    BY <2>1, <2>2, RequestStep DEF Steps
<1>11. ASSUME NEW m \in Managers, NEW n \in Names, Pause(m, n) PROVE SandboxInv'
  <2> DEFINE vm == Cancelled(VM(m, n))
  <2>1. /\ m \in up /\ request[m].at = "idle" /\ Tracked(m, n)
        /\ HasStatus(m, n, "running") \/ HasStatus(m, n, "paused")
        /\ UNCHANGED <<up, handle, disk>> /\ SetVM(m, n, vm)
        /\ Saves(m, WithStatus(m, n, "paused")) /\ Over(m)
    BY <1>11 DEF Pause, Idle, SaveFails
  <2>2. VM(m, n) \in VMs /\ VM(m, n).of = n /\ VM(m, n).owner = m
    BY <2>1, TrackedTypes
  <2>3. vm \in VMs /\ vm.of = n /\ vm.owner = m
    BY <2>2, VMTypes
  <2>4. ~vm.live
    BY <2>2 DEF Cancelled, VMs
  <2>5. GuestIs(handle[m][n], vm)
    BY <2>1, <2>3, Setting
  <2>6. TableIs(m, WithStatus(m, n, "paused"))
    BY <2>1, StatusTypes, Saving DEF HasStatus, Statuses, TypeInv
  <2>7. RequestIs(m, request[m].op, Target(m), Resting(m))
    BY <2>1, Finishing DEF TypeInv
  <2> QED
    BY <1>0, <2>1, <2>3, <2>4, <2>5, <2>6, <2>7, Rest, GuestStep DEF Statuses
<1>12. ASSUME NEW m \in Managers, NEW n \in Names, Unpause(m, n) PROVE SandboxInv'
  <2> DEFINE vm == Resumed(VM(m, n))
  <2>1. /\ m \in up /\ request[m].at = "idle" /\ Tracked(m, n) /\ HasStatus(m, n, "paused")
        /\ VM(m, n).running /\ ~VM(m, n).stale
        /\ UNCHANGED <<up, handle, disk>> /\ SetVM(m, n, vm)
        /\ Saves(m, WithStatus(m, n, "running")) /\ Over(m)
    BY <1>12 DEF Unpause, Idle, SaveFails
  <2>2. VM(m, n) \in VMs /\ VM(m, n).of = n /\ VM(m, n).owner = m
    BY <2>1, TrackedTypes
  <2>3. vm \in VMs /\ vm.of = n /\ vm.owner = m
    BY <2>2, VMTypes
  <2>4. vm.running /\ ~vm.paused /\ ~vm.stale
    BY <2>1, <2>2 DEF Resumed, VMs
  <2>5. GuestIs(handle[m][n], vm)
    BY <2>1, <2>3, Setting
  <2>6. TableIs(m, WithStatus(m, n, "running"))
    BY <2>1, StatusTypes, Saving DEF HasStatus, Statuses, TypeInv
  <2>7. RequestIs(m, request[m].op, Target(m), Resting(m))
    BY <2>1, Finishing DEF TypeInv
  <2> QED
    BY <1>0, <2>1, <2>3, <2>4, <2>5, <2>6, <2>7, Rest, GuestStep DEF Statuses
<1>13. ASSUME NEW m \in Managers, Report(m) \/ \E n \in Names : Status(m, n) PROVE SandboxInv'
  <2>1. /\ m \in up /\ request[m].at \in {"idle", "report"} /\ UNCHANGED <<up, guest, disk, tap>>
        /\ RequestIs(m, request[m].op, Target(m), Resting(m))
    BY <1>13, Finishing DEF Status, Report, Idle, At, TypeInv
  <2>2. CASE UNCHANGED <<file, table, handle>>
    BY <1>0, <2>1, <2>2, Rest, RequestStep DEF PhaseOK, Steps
  <2>3. ASSUME NEW n \in Names, MarkStopped(m, n) PROVE SandboxInv'
    <3>1. table[m][n] # NoRecord /\ Tracked(m, n) /\ ~VM(m, n).running
      BY <2>3 DEF MarkStopped, LooksDead, HasStatus
    <3>2. Quiet(m, n)
      BY <2>1, <3>1, TrackedTypes DEF SandboxInv, GuestsKnown, Known, Live, Quiet, VM
    <3>3. TableIs(m, WithStatus(m, n, "stopped"))
      BY <2>3, <3>1, StatusTypes, Saving DEF MarkStopped, Statuses, TypeInv
    <3>4. HandleIs(m, n, NoGuest)
      BY <2>3, Handling DEF MarkStopped, Untrack, TypeInv
    <3> QED
      BY <1>0, <2>1, <3>1, <3>2, <3>3, <3>4, Rest, UntrackStep
  <2> QED
    BY <1>0, <1>13, <2>2, <2>3 DEF Status, Report
<1>14. ASSUME NEW m \in Managers, NEW t \in Tables, Rewrites(m, t) PROVE SandboxInv'
  <2>1. /\ m \in up /\ m \notin Servers /\ request[m].at = "idle"
        /\ UNCHANGED <<up, handle, guest, disk>>
        /\ TableIs(m, t) /\ RequestIs(m, request[m].op, Target(m), Resting(m))
    BY <1>14, Saving, Finishing DEF Rewrites, Idle, TypeInv
  <2>2. \A k \in Names : ~Tracked(m, k)
    BY <2>1 DEF SandboxInv, OneUp, NoHandles, Tracked
  <2> QED
    BY <1>0, <2>1, <2>2, Rest, TableStep
<1>15. ASSUME NEW m \in Managers, NEW n \in Names, Lock(m, n) \/ Unlock(m, n) PROVE SandboxInv'
  <2>1. [table[m] EXCEPT ![n] = [@ EXCEPT !.locked = TRUE]] \in Tables
        /\ [table[m] EXCEPT ![n] = [@ EXCEPT !.locked = FALSE]] \in Tables
    BY <1>15, LockTypes DEF Lock, Unlock, TypeInv
  <2> QED
    BY <1>14, <1>15, <2>1 DEF Lock, Unlock
<1>16. ASSUME NEW m \in Managers, NEW n \in Names, NEW old \in Names, Rename(m, old, n)
       PROVE SandboxInv'
  BY <1>14, <1>16, RenameTypes DEF Rename, TypeInv
<1>17. ASSUME NEW g \in Guests, GuestExits(g) \/ LoopReturns(g) PROVE SandboxInv'
  <2>1. guest[g] \in VMs /\ UNCHANGED <<up, table, handle, disk, request>>
    BY <1>17 DEF GuestExits, LoopReturns, TypeInv, TypeOK
  <2>2. PICK vm : guest' = [guest EXCEPT ![g] = vm] /\ ~vm.live
    <3>1. CASE GuestExits(g)
      <4>1. PICK r \in BOOLEAN :
              guest' = [guest EXCEPT ![g] = [guest[g] EXCEPT !.live = FALSE, !.running = r]]
        BY <3>1 DEF GuestExits
      <4>2. ~[guest[g] EXCEPT !.live = FALSE, !.running = r].live
        BY <2>1 DEF VMs
      <4> QED
        BY <4>1, <4>2
    <3>2. CASE LoopReturns(g)
      <4>1. ~guest[g].live
        BY <3>2 DEF LoopReturns, SandboxInv, GuestsKnown, Known, Live
      <4> QED
        BY <2>1, <3>2, <4>1 DEF LoopReturns, VMs
    <3> QED
      BY <1>17, <3>1, <3>2
  <2>3. ASSUME NEW h \in Guests, Live(h)' PROVE Live(h) /\ guest'[h] = guest[h]
    BY <2>2, <2>3 DEF Live, TypeInv, TypeOK
  <2>4. GuestsKnown'
    BY <2>1, <2>3 DEF SandboxInv, GuestsKnown, Known, HasStatus, At, Target
  <2>5. \A m \in Managers, n \in Names : Quiet(m, n) => Quiet(m, n)'
    BY <2>1, <2>2 DEF Quiet, Tracked, VM, TypeInv, TypeOK
  <2>6. Phases'
    BY <1>0, <2>1, <2>5 DEF SandboxInv, Phases, PhaseOK, Target, AtRest, HasStatus, Tracked, TypeInv, TypeOK
  <2> QED
    BY <2>1, <2>4, <2>6 DEF SandboxInv, OneUp, DisksKept, Tracked, HasStatus, At, Target
<1>18. ASSUME NEW m \in Managers, StartProcess(m) PROVE SandboxInv'
  <2>1. /\ up = {} /\ up' = {m} /\ request[m].at = "idle" /\ \A n \in Names : ~Tracked(m, n)
        /\ UNCHANGED <<file, handle, guest, disk, tap, request>>
    BY <1>18 DEF StartProcess, SandboxInv, OneUp, NoHandles, Tracked, TypeInv, Recorded
  <2>2. \A g \in Guests : ~Live(g)
    BY <2>1 DEF SandboxInv, GuestsKnown, Known
  <2> QED
    BY <2>1, <2>2 DEF SandboxInv, OneUp, GuestsKnown, Live, DisksKept, Tracked, Phases, PhaseOK
<1>19. ASSUME NEW m \in Managers, ProcessEnds(m) PROVE SandboxInv'
  <2>1. m \in up /\ up' = {}
    BY <1>19 DEF ProcessEnds, SandboxInv, OneUp
  <2>2. \A k \in Managers : handle'[k] = NoHandles
    BY <1>19, <2>1 DEF ProcessEnds, SandboxInv, OneUp, TypeInv, TypeOK
  <2>3. \A g \in Guests : ~Live(g)'
    <3> SUFFICES ASSUME NEW g \in Guests, Live(g)' PROVE FALSE
      OBVIOUS
    <3>1. guest'[g] = guest[g] /\ ~(guest[g] # NoVM /\ guest[g].owner = m) /\ Live(g)
      BY <1>19 DEF ProcessEnds, Live, TypeInv, TypeOK
    <3> QED
      BY <2>1, <3>1 DEF SandboxInv, GuestsKnown, Known, OneUp, Live
  <2> QED
    BY <2>1, <2>2, <2>3 DEF SandboxInv, OneUp, GuestsKnown, DisksKept, Phases
<1>20. CASE UNCHANGED vars
  BY <1>20 DEF vars, SandboxInv, OneUp, GuestsKnown, Known, Live, DisksKept, Phases, PhaseOK,
       Quiet, AtRest, HasStatus, Tracked, VM, At, Target
<1> QED
  BY <1>1, <1>2, <1>3, <1>4, <1>5, <1>6, <1>7, <1>8, <1>9, <1>10, <1>11, <1>12, <1>13,
     <1>15, <1>16, <1>17, <1>18, <1>19, <1>20 DEF Next

\* With one process at a time that can write and whose loops return, the safety invariant holds in every state.
THEOREM SandboxInvariance == ASSUME Exclusive, Faults \subseteq {"rm"} PROVE Spec => []SandboxInv
<1>1. Init => SandboxInv
  BY DEF Init, SandboxInv, OneUp, GuestsKnown, Live, DisksKept, Phases
<1>2. TypeInv /\ TypeInv' /\ SandboxInv /\ [Next]_vars => SandboxInv'
  BY StepSafe
<1> QED
  BY <1>1, <1>2, TypesHold, PTL DEF Spec

(***************************************************************************)
(* With one process at a time whose writes of state.json succeed, and a    *)
(* run loop that returns before the next unpause: no guest executes that   *)
(* its manager does not track and have on record as running.  What becomes *)
(* of a removal does not matter.                                           *)
(***************************************************************************)
THEOREM NoGuestLeaks ==
  ASSUME Exclusive, Faults \subseteq {"rm"} PROVE Spec => []GuestIsTracked
<1>1. SandboxInv => GuestIsTracked
  BY DEF SandboxInv, GuestsKnown, Known, GuestIsTracked
<1> QED
  BY <1>1, SandboxInvariance, PTL

(***************************************************************************)
(* If also a removal leaves the disk when it fails, no request removes the *)
(* disk of a guest that executes.                                          *)
(***************************************************************************)
THEOREM DisksOutliveGuests == ASSUME Exclusive, Faults = {} PROVE Spec => []GuestHasDisk
<1>0. Faults \subseteq {"rm"} /\ "rm" \notin Faults
  OBVIOUS
<1>1. SandboxInv => GuestHasDisk
  BY <1>0 DEF SandboxInv, GuestsKnown, Known, HasDisk, GuestHasDisk
<1> QED
  BY <1>0, <1>1, SandboxInvariance, PTL

-----------------------------------------------------------------------------
(***************************************************************************)
(* Orphans.  Here late run loops and failing removals may do what they     *)
(* like: a late loop leaks a guest, but it leaks it under a record that is *)
(* at rest, and a record becomes running only together with a handle.  So  *)
(* of a name that is on record as running and has no handle, no guest      *)
(* executes.                                                               *)
(***************************************************************************)
OneProcess == \A m, k \in up : m = k

GuestsOwned == \A g \in Guests : Live(g) => guest[g].owner \in up

Orphaned(m, n) == HasStatus(m, n, "running") /\ ~Tracked(m, n)

OrphansKnown ==
  /\ OneProcess
  /\ GuestsOwned
  /\ \A m \in up : request[m].at = "orphan" => Orphaned(m, Target(m))
  /\ \A m \in up, n \in Names :
       Orphaned(m, n) => \A g \in Guests : ~(Live(g) /\ guest[g].of = n)

\* A step that brings no guest to life and makes no orphan.
LEMMA NoNewOrphan ==
  ASSUME OrphansKnown, UNCHANGED up,
         \A g \in Guests :
           Live(g)' => Live(g) /\ guest'[g].of = guest[g].of /\ guest'[g].owner = guest[g].owner,
         \A m \in up, n \in Names : Orphaned(m, n)' => Orphaned(m, n),
         \A m \in up : request'[m].at = "orphan" => Orphaned(m, Target(m))'
  PROVE  OrphansKnown'
  BY DEF OrphansKnown, OneProcess, GuestsOwned

\* A step that goes on with a request and leaves tables, handles and guests.
LEMMA OrphanRequest ==
  ASSUME OrphansKnown, NEW m \in up, UNCHANGED <<up, table, handle, guest>>,
         NEW op, NEW n \in Names, NEW at, RequestIs(m, op, n, at),
         at = "orphan" => Orphaned(m, n)
  PROVE  OrphansKnown'
<1>1. \A k \in up : k = m
  BY DEF OrphansKnown, OneProcess
<1>2. \A g \in Guests :
        Live(g)' => Live(g) /\ guest'[g].of = guest[g].of /\ guest'[g].owner = guest[g].owner
  BY DEF Live
<1>3. \A k \in up, o \in Names : Orphaned(k, o)' = Orphaned(k, o)
  BY DEF Orphaned, HasStatus, Tracked
<1>4. \A k \in up : request'[k].at = "orphan" => Orphaned(k, Target(k))'
  BY <1>1, <1>3 DEF RequestIs, Target
<1> QED
  BY <1>2, <1>3, <1>4, NoNewOrphan

\* A step that writes a table in which no other sandbox is running than before.
LEMMA OrphanTable ==
  ASSUME TypeInv, OrphansKnown, NEW m \in up, NEW t, TableIs(m, t), UNCHANGED <<up, guest>>,
         NEW o \in Names, HandleIs(m, o, NoGuest) \/ UNCHANGED handle,
         \A k \in Names :
           t[k] # NoRecord /\ t[k].status = "running" => HasStatus(m, k, "running") \/ Tracked(m, k),
         UNCHANGED handle \/ (t[o] # NoRecord => t[o].status # "running"),
         NEW op, NEW n \in Names, NEW at, at # "orphan", RequestIs(m, op, n, at)
  PROVE  OrphansKnown'
<1>1. \A k \in up : k = m
  BY DEF OrphansKnown, OneProcess
<1>2. \A g \in Guests :
        Live(g)' => Live(g) /\ guest'[g].of = guest[g].of /\ guest'[g].owner = guest[g].owner
  BY DEF Live
<1>3. \A k \in up, i \in Names : Orphaned(k, i)' => Orphaned(k, i)
  BY <1>1 DEF Orphaned, HasStatus, Tracked, TableIs, HandleIs
<1>4. \A k \in up : request'[k].at # "orphan"
  BY <1>1 DEF RequestIs
<1> QED
  BY <1>2, <1>3, <1>4, NoNewOrphan

\* A guest comes to life, or changes, under its handle.
LEMMA TrackedGuest ==
  ASSUME TypeInv, OrphansKnown, NEW m \in up, NEW n \in Names, NEW g \in Guests, NEW vm,
         GuestIs(g, vm), vm.of = n, vm.owner = m, UNCHANGED up,
         HandleIs(m, n, g) \/ (UNCHANGED handle /\ handle[m][n] = g),
         UNCHANGED table \/ \E s \in Statuses : TableIs(m, WithStatus(m, n, s)),
         NEW op, NEW o \in Names, NEW at, at # "orphan", RequestIs(m, op, o, at)
  PROVE  OrphansKnown'
<1>1. m \in Managers /\ \A k \in up : k = m
  BY DEF OrphansKnown, OneProcess, TypeInv, TypeOK
<1>2. Tracked(m, n)' /\ \A k \in Names \ {n} : Tracked(m, k)' = Tracked(m, k)
  BY DEF Tracked, HandleIs
<1>3. \A k \in Names \ {n} : table'[m][k] = table[m][k]
  <2>1. table[m] \in Tables
    BY <1>1 DEF TypeInv, TypeOK
  <2>2. \A s \in Statuses, k \in Names \ {n} : WithStatus(m, n, s)[k] = table[m][k]
    BY <2>1 DEF WithStatus, Tables
  <2> QED
    BY <2>2 DEF TableIs
<1>4. ASSUME NEW k \in Names, Orphaned(m, k)' PROVE k # n /\ Orphaned(m, k)
  BY <1>2, <1>3, <1>4 DEF Orphaned, HasStatus
<1>5. ASSUME NEW k \in Names, Orphaned(m, k)', NEW h \in Guests, Live(h)', guest'[h].of = k
      PROVE  FALSE
  <2>1. h # g
    BY <1>4, <1>5 DEF GuestIs
  <2>2. Live(h) /\ guest[h].of = k
    BY <1>5, <2>1 DEF GuestIs, Live
  <2> QED
    BY <1>4, <1>5, <2>2 DEF OrphansKnown
<1>6. GuestsOwned'
  BY DEF OrphansKnown, GuestsOwned, Live, GuestIs
<1>7. \A k \in up : request'[k].at # "orphan"
  BY <1>1 DEF RequestIs
<1> QED
  BY <1>1, <1>5, <1>6, <1>7 DEF OrphansKnown, OneProcess

\* No step makes an orphan of a sandbox whose guest executes.
LEMMA StepOrphans ==
  ASSUME Exclusive, "save" \notin Faults, TypeInv, TypeInv', OrphansKnown, [Next]_vars
  PROVE  OrphansKnown'
<1>0. TypeOK /\ \A m \in Managers : Target(m) \in Names /\ Resting(m) # "orphan"
  BY DEF TypeInv, TypeOK, Target, Requests, Resting
<1>1. ASSUME NEW m \in Managers, NEW n \in Names, NEW s \in Names, Create(m, n) \/ Clone(m, s, n)
      PROVE OrphansKnown'
  <2>1. PICK op \in {"create", "clone"}, at \in {"network", Resting(m)} : RequestIs(m, op, n, at)
    BY <1>0, <1>1, Rest, Starting DEF Create, Clone, Steps, Operations
  <2> QED
    BY <1>0, <1>1, <2>1, OrphanRequest DEF Create, Clone, Idle
<1>2. ASSUME NEW m \in Managers,
             \/ SetupNetwork(m) \/ SetupNetworkFails(m) \/ PreparingFails(m)
             \/ RemoveTap(m) \/ RemoveTapFails(m) \/ Untap(m) \/ Wipe(m)
      PROVE OrphansKnown'
  <2>1. m \in up /\ UNCHANGED <<up, table, handle, guest>>
    BY <1>2 DEF SetupNetwork, SetupNetworkFails, PreparingFails, RemoveTap, RemoveTapFails, Untap,
                Wipe, At
  <2>2. PICK at \in {"record", "stopped", "wipe", "forget", Resting(m)} :
          RequestIs(m, request[m].op, Target(m), at)
    BY <1>0, <1>2, Finishing, Moving
       DEF SetupNetwork, SetupNetworkFails, PreparingFails, RemoveTap, RemoveTapFails, Untap, Wipe,
           Steps
  <2> QED
    BY <1>0, <2>1, <2>2, OrphanRequest
<1>3. ASSUME NEW m \in Managers, StoreRecord(m) \/ Forget(m) PROVE OrphansKnown'
  <2> DEFINE n == Target(m)
  <2>1. m \in up /\ UNCHANGED <<up, handle, guest>>
    BY <1>3 DEF StoreRecord, Forget, At
  <2>2. PICK t \in {NewRecord(m, n), Without(m, n)} : TableIs(m, t)
    <3>1. NewRecord(m, n) \in Tables /\ Without(m, n) \in Tables
      BY <1>0 DEF TypeOK, NewRecord, Without, Tables, Records, Statuses
    <3> QED
      BY <1>0, <1>3, <3>1, Saving DEF StoreRecord, Forget
  <2>3. /\ t[n] # NoRecord => t[n].status = "created"
        /\ \A k \in Names \ {n} : t[k] = table[m][k]
    BY <1>0, <2>2 DEF NewRecord, Without, TypeOK, Tables
  <2>4. PICK at \in {"report", Resting(m)} : RequestIs(m, request[m].op, n, at)
    BY <1>0, <1>3, Finishing, Moving DEF StoreRecord, Forget, Steps
  <2> QED
    BY <1>0, <2>1, <2>2, <2>3, <2>4, OrphanTable DEF HasStatus
<1>4. ASSUME NEW m \in Managers, NEW n \in Names, Boot(m, n), m \in up, NEW op,
             RequestIs(m, op, n, "booted")
      PROVE OrphansKnown'
  <2>1. PICK g \in Guests : HandleIs(m, n, g) /\ GuestIs(g, Booted(m, n))
    BY <1>4, Booting
  <2>2. Booted(m, n).of = n /\ Booted(m, n).owner = m
    BY DEF Booted
  <2>3. UNCHANGED <<up, table>>
    BY <1>4 DEF Boot
  <2> QED
    BY <1>4, <2>1, <2>2, <2>3, TrackedGuest
<1>5. ASSUME NEW m \in Managers, NEW n \in Names, Start(m, n) PROVE OrphansKnown'
  <2>1. RequestIs(m, "start", n, "booted") /\ m \in up
    BY <1>0, <1>5, Starting DEF Start, Idle, Steps, Operations
  <2> QED
    BY <1>4, <1>5, <2>1 DEF Start
<1>6. ASSUME NEW m \in Managers, StartAgain(m) PROVE OrphansKnown'
  <2>1. m \in up
    BY <1>6 DEF StartAgain, At
  <2>2. CASE Boot(m, Target(m)) /\ Goes(m, "booted")
    <3>1. RequestIs(m, request[m].op, Target(m), "booted")
      BY <1>0, <2>2, Moving DEF Steps
    <3> QED
      BY <1>0, <1>4, <2>1, <2>2, <3>1
  <2>3. CASE Over(m) /\ UNCHANGED <<file, up, table, handle, guest, disk, tap>>
    <3>1. RequestIs(m, request[m].op, Target(m), Resting(m))
      BY <1>0, <2>3, Finishing
    <3> QED
      BY <1>0, <2>1, <2>3, <3>1, OrphanRequest
  <2> QED
    BY <1>6, <2>2, <2>3 DEF StartAgain
<1>7. ASSUME NEW m \in Managers, RecordStart(m) PROVE OrphansKnown'
  <2> DEFINE n == Target(m)
             t == WithStatus(m, n, "running")
  <2>1. m \in up /\ n \in Names /\ table[m][n] # NoRecord /\ Tracked(m, n)
    BY <1>0, <1>7 DEF RecordStart, At, TypeInv, Recorded
  <2>2. t \in Tables /\ \A k \in Names \ {n} : t[k] = table[m][k]
    BY <1>0, <2>1, StatusTypes DEF Statuses
  <2>3. TableIs(m, t) /\ UNCHANGED <<up, handle, guest>>
    BY <1>0, <1>7, <2>2, Saving DEF RecordStart, SaveFails
  <2>4. RequestIs(m, request[m].op, n, "report")
    BY <1>0, <1>7, Moving DEF RecordStart, SaveFails, Steps
  <2> QED
    BY <2>1, <2>2, <2>3, <2>4, OrphanTable DEF HasStatus
<1>8. ASSUME NEW m \in Managers, NEW n \in Names, NEW vm \in VMs, SetVM(m, n, vm), Tracked(m, n),
             vm.of = n, vm.owner = m, m \in up, UNCHANGED <<up, handle>>,
             UNCHANGED table \/ \E s \in Statuses : TableIs(m, WithStatus(m, n, s)),
             NEW op, NEW o \in Names, NEW at, at # "orphan", RequestIs(m, op, o, at)
      PROVE OrphansKnown'
  <2>1. GuestIs(handle[m][n], vm) /\ handle[m][n] \in Guests
    BY <1>8, Setting
  <2> QED
    BY <1>8, <2>1, TrackedGuest
<1>9. ASSUME NEW m \in Managers, NEW n \in Names, NEW op \in {"stop", "restart", "destroy"},
             Stop(m, op, n)
      PROVE OrphansKnown'
  <2>1. m \in up /\ Tracked(m, n) /\ UNCHANGED <<up, table, handle>>
        /\ SetVM(m, n, Halted(VM(m, n)))
    BY <1>9 DEF Stop, Idle
  <2>2. Halted(VM(m, n)) \in VMs /\ Halted(VM(m, n)).of = n /\ Halted(VM(m, n)).owner = m
    BY <2>1, TrackedTypes, VMTypes
  <2>3. RequestIs(m, op, n, "cleanup")
    BY <1>0, <1>9, Starting DEF Stop, Steps, Operations
  <2> QED
    BY <1>8, <2>1, <2>2, <2>3
<1>10. ASSUME NEW m \in Managers, NEW n \in Names, Pause(m, n) \/ Unpause(m, n) PROVE OrphansKnown'
  <2>1. PICK s \in {"paused", "running"} :
          /\ m \in up /\ Tracked(m, n) /\ UNCHANGED <<up, handle>> /\ Over(m)
          /\ HasStatus(m, n, "running") \/ HasStatus(m, n, "paused")
          /\ Saves(m, WithStatus(m, n, s))
          /\ SetVM(m, n, Cancelled(VM(m, n))) \/ SetVM(m, n, Resumed(VM(m, n)))
    BY <1>10 DEF Pause, Unpause, SaveFails, Idle
  <2>2. VM(m, n) \in VMs /\ VM(m, n).of = n /\ VM(m, n).owner = m
    BY <2>1, TrackedTypes
  <2>3. PICK vm \in VMs : SetVM(m, n, vm) /\ vm.of = n /\ vm.owner = m
    BY <2>1, <2>2, VMTypes
  <2>4. TableIs(m, WithStatus(m, n, s)) /\ s \in Statuses
    BY <1>0, <2>1, StatusTypes, Saving DEF HasStatus, Statuses
  <2>5. RequestIs(m, request[m].op, Target(m), Resting(m))
    BY <1>0, <2>1, Finishing
  <2> QED
    BY <1>0, <1>8, <2>1, <2>3, <2>4, <2>5
<1>11. ASSUME NEW m \in Managers, NEW n \in Names, table[m][n] # NoRecord, m \in up,
              Saves(m, WithStatus(m, n, "stopped")), Untrack(m, n), UNCHANGED <<up, guest>>,
              NEW at, at # "orphan", RequestIs(m, request[m].op, Target(m), at)
       PROVE OrphansKnown'
  <2> DEFINE t == WithStatus(m, n, "stopped")
  <2>1. /\ t \in Tables /\ t[n].status = "stopped"
        /\ \A k \in Names \ {n} : t[k] = table[m][k]
    BY <1>0, <1>11, StatusTypes DEF Statuses
  <2>2. TableIs(m, t) /\ HandleIs(m, n, NoGuest)
    BY <1>0, <1>11, <2>1, Saving, Handling DEF Untrack
  <2> QED
    BY <1>0, <1>11, <2>1, <2>2, OrphanTable DEF HasStatus
<1>12. ASSUME NEW m \in Managers, RecordStop(m) PROVE OrphansKnown'
  <2>1. /\ m \in up /\ table[m][Target(m)] # NoRecord /\ UNCHANGED <<up, guest>>
        /\ Saves(m, WithStatus(m, Target(m), "stopped")) /\ Untrack(m, Target(m))
    BY <1>12 DEF RecordStop, SaveFails, At, TypeInv, Recorded
  <2>2. PICK at \in {"boot", "wipe", "report"} : RequestIs(m, request[m].op, Target(m), at)
    BY <1>0, <1>12, Moving DEF RecordStop, SaveFails, Steps
  <2> QED
    BY <1>0, <1>11, <2>1, <2>2
<1>13. ASSUME NEW m \in Managers, NEW n \in Names, DestroyAtRest(m, n) \/ DestroyOrphan(m, n)
       PROVE OrphansKnown'
  <2>1. m \in up /\ UNCHANGED <<up, table, handle, guest>>
    BY <1>13 DEF DestroyAtRest, DestroyOrphan, Idle
  <2>2. PICK at \in {"untap", "orphan"} :
          RequestIs(m, "destroy", n, at) /\ (at = "orphan" => Orphaned(m, n))
    BY <1>0, <1>13, Starting DEF DestroyAtRest, DestroyOrphan, Steps, Operations, Orphaned
  <2> QED
    BY <2>1, <2>2, OrphanRequest
<1>14. ASSUME NEW m \in Managers, Report(m) \/ \E n \in Names : Status(m, n) PROVE OrphansKnown'
  <2>1. m \in up /\ UNCHANGED <<up, guest>> /\ RequestIs(m, request[m].op, Target(m), Resting(m))
    BY <1>0, <1>14, Finishing DEF Status, Report, Idle, At
  <2>2. CASE UNCHANGED <<file, table, handle>>
    BY <1>0, <2>1, <2>2, OrphanRequest
  <2>3. ASSUME NEW n \in Names, MarkStopped(m, n) PROVE OrphansKnown'
    <3>1. table[m][n] # NoRecord /\ Saves(m, WithStatus(m, n, "stopped")) /\ Untrack(m, n)
      BY <2>3 DEF MarkStopped, LooksDead, HasStatus, SaveFails
    <3> QED
      BY <1>0, <1>11, <2>1, <3>1
  <2> QED
    BY <1>0, <1>14, <2>2, <2>3 DEF Status, Report
<1>15. ASSUME NEW m \in Managers, NEW t \in Tables, Rewrites(m, t),
              \A k \in Names :
                t[k] # NoRecord /\ t[k].status = "running" => HasStatus(m, k, "running")
       PROVE OrphansKnown'
  <2>1. m \in up /\ UNCHANGED <<up, handle, guest>> /\ TableIs(m, t)
        /\ RequestIs(m, request[m].op, Target(m), Resting(m))
    BY <1>0, <1>15, Saving, Finishing DEF Rewrites, Idle
  <2> QED
    BY <1>0, <1>15, <2>1, OrphanTable
<1>16. ASSUME NEW m \in Managers, NEW n \in Names, NEW b \in BOOLEAN, table[m][n] # NoRecord,
              Rewrites(m, [table[m] EXCEPT ![n] = [@ EXCEPT !.locked = b]])
       PROVE OrphansKnown'
  <2> DEFINE t == [table[m] EXCEPT ![n] = [@ EXCEPT !.locked = b]]
  <2>1. t \in Tables
    BY <1>0, <1>16, LockTypes
  <2>2. table[m] \in Tables /\ table[m][n] \in Records
    BY <1>0, <1>16 DEF TypeOK, Tables
  <2>3. t[n].status = table[m][n].status /\ \A k \in Names \ {n} : t[k] = table[m][k]
    BY <2>2 DEF Tables, Records
  <2>4. \A k \in Names : t[k] # NoRecord /\ t[k].status = "running" => HasStatus(m, k, "running")
    BY <1>16, <2>3 DEF HasStatus
  <2>5. Rewrites(m, t)
    BY <1>16
  <2> HIDE DEF t
  <2> QED
    BY <1>15, <2>1, <2>4, <2>5
<1>17. ASSUME NEW m \in Managers, NEW n \in Names, NEW old \in Names, Rename(m, old, n)
       PROVE OrphansKnown'
  <2> DEFINE t == [table[m] EXCEPT ![n] = table[m][old], ![old] = NoRecord]
  <2>1. t \in Tables
    BY <1>0, RenameTypes
  <2>2. table[m][old].status # "running"
    BY <1>17 DEF Rename, AtRest
  <2>3. /\ t[n] \in {table[m][old], NoRecord} /\ t[old] \in {table[m][old], NoRecord}
        /\ \A k \in Names \ {n, old} : t[k] = table[m][k]
    BY <1>0 DEF TypeOK, Tables
  <2>4. \A k \in Names : t[k] # NoRecord /\ t[k].status = "running" => HasStatus(m, k, "running")
    BY <2>2, <2>3 DEF HasStatus
  <2>5. Rewrites(m, t)
    BY <1>17 DEF Rename
  <2> HIDE DEF t
  <2> QED
    BY <1>15, <2>1, <2>4, <2>5
<1>18. ASSUME NEW g \in Guests, GuestExits(g) \/ LoopReturns(g) PROVE OrphansKnown'
  <2>1. /\ guest[g] \in VMs /\ guest[g] # NoVM
        /\ UNCHANGED <<up, table, handle, request>>
    BY <1>18 DEF GuestExits, LoopReturns, TypeInv, TypeOK
  <2>2. PICK vm :
          /\ guest' = [guest EXCEPT ![g] = vm]
          /\ vm.of = guest[g].of /\ vm.owner = guest[g].owner /\ (vm.live => guest[g].live)
    <3>1. CASE GuestExits(g)
      <4>1. PICK r \in BOOLEAN :
              guest' = [guest EXCEPT ![g] = [guest[g] EXCEPT !.live = FALSE, !.running = r]]
        BY <3>1 DEF GuestExits
      <4>2. LET vm == [guest[g] EXCEPT !.live = FALSE, !.running = r]
            IN  vm.of = guest[g].of /\ vm.owner = guest[g].owner /\ ~vm.live
        BY <2>1 DEF VMs
      <4> QED
        BY <4>1, <4>2
    <3>2. CASE LoopReturns(g)
      <4>1. PICK r \in {FALSE, guest[g].running} :
              guest' = [guest EXCEPT ![g] = [guest[g] EXCEPT !.stale = FALSE, !.running = r]]
        BY <3>2 DEF LoopReturns
      <4>2. LET vm == [guest[g] EXCEPT !.stale = FALSE, !.running = r]
            IN  vm.of = guest[g].of /\ vm.owner = guest[g].owner /\ vm.live = guest[g].live
        BY <2>1 DEF VMs
      <4> QED
        BY <4>1, <4>2
    <3> QED
      BY <1>18, <3>1, <3>2
  <2>3. \A h \in Guests :
          Live(h)' => Live(h) /\ guest'[h].of = guest[h].of /\ guest'[h].owner = guest[h].owner
    BY <2>1, <2>2 DEF Live, TypeInv, TypeOK
  <2>4. \A m \in up, n \in Names : Orphaned(m, n)' = Orphaned(m, n)
    BY <2>1 DEF Orphaned, HasStatus, Tracked
  <2>5. \A m \in up : request'[m].at = "orphan" => Orphaned(m, Target(m))'
    BY <2>1 DEF OrphansKnown, Orphaned, HasStatus, Tracked, Target
  <2> QED
    BY <2>1, <2>3, <2>4, <2>5, NoNewOrphan
<1>19. ASSUME NEW m \in Managers, StartProcess(m) PROVE OrphansKnown'
  <2>1. up = {} /\ up' = {m} /\ request'[m].at = "idle" /\ UNCHANGED guest
    BY <1>19 DEF StartProcess, TypeInv, Recorded
  <2>2. \A g \in Guests : ~Live(g)'
    BY <2>1 DEF OrphansKnown, GuestsOwned, Live
  <2> QED
    BY <2>1, <2>2 DEF OrphansKnown, OneProcess, GuestsOwned
<1>20. ASSUME NEW m \in Managers, ProcessEnds(m) PROVE OrphansKnown'
  <2>1. up' = {} /\ \A k \in up : k = m
    BY <1>20 DEF ProcessEnds, OrphansKnown, OneProcess
  <2>2. ASSUME NEW g \in Guests, Live(g)' PROVE FALSE
    <3>1. Live(g) /\ guest[g].owner # m
      BY <1>20, <2>2 DEF ProcessEnds, Live, TypeInv, TypeOK
    <3> QED
      BY <2>1, <3>1 DEF OrphansKnown, GuestsOwned
  <2> QED
    BY <2>1, <2>2 DEF OrphansKnown, OneProcess, GuestsOwned
<1>21. CASE UNCHANGED vars
  BY <1>21 DEF vars, OrphansKnown, OneProcess, GuestsOwned, Orphaned, HasStatus, Tracked, Target, Live
<1> QED
  BY <1>1, <1>2, <1>3, <1>5, <1>6, <1>7, <1>9, <1>10, <1>12, <1>13, <1>14, <1>16, <1>17, <1>18,
     <1>19, <1>20, <1>21 DEF Next, Lock, Unlock

(***************************************************************************)
(* With one process at a time whose writes of state.json succeed, what     *)
(* Destroy takes for an orphan is gone, however late a cancelled run loop  *)
(* returns and however a removal fails.                                    *)
(***************************************************************************)
THEOREM OrphansAreGone ==
  ASSUME Exclusive, "save" \notin Faults PROVE Spec => []OrphanIsGone
<1>1. Init => OrphansKnown
  BY DEF Init, OrphansKnown, OneProcess, GuestsOwned, Live
<1>2. TypeInv /\ TypeInv' /\ OrphansKnown /\ [Next]_vars => OrphansKnown'
  BY StepOrphans
<1>3. TypeInv /\ OrphansKnown => OrphanIsGone
  BY DEF OrphansKnown, OrphanIsGone, At, TypeInv, TypeOK, Target, Requests
<1> QED
  BY <1>1, <1>2, <1>3, TypesHold, PTL DEF Spec
-----------------------------------------------------------------------------
(***************************************************************************)
(* Locks.  With one process at a time the locks that the process knows are *)
(* those in the file, until a command is done, even if a write of the rest *)
(* fails; and a request that is going to stop or destroy a sandbox, which  *)
(* looked at its lock when it began, would find it unlocked still.         *)
(***************************************************************************)
Ending == {"cleanup", "stopped", "orphan", "untap", "wipe", "forget"}

Locked(m, n) == n \in LockedIn(table[m])

LocksKnown ==
  /\ OneProcess
  /\ \A m \in up :
       /\ request[m].at # "done" => LockedIn(file) = LockedIn(table[m])
       /\ request[m].at \in Ending => ~Locked(m, Target(m))
       /\ request[m].at \in {"network", "record"} => table[m][Target(m)] = NoRecord

\* What a request that goes on has to respect.
LockPhase(m, n, at) ==
  /\ at \in Ending => ~Locked(m, n)
  /\ at \in {"network", "record"} => table[m][n] = NoRecord

\* A step that goes on with a request and rewrites no table.
LEMMA LocksLeft ==
  ASSUME TypeOK, LocksKnown, NEW m \in up, UNCHANGED <<file, up, table>>,
         NEW op, NEW n \in Names, NEW at, RequestIs(m, op, n, at), request[m].at # "done",
         LockPhase(m, n, at)
  PROVE  LocksKnown' /\ \A k \in LockedIn(file) : LockStays(k)
<1>1. \A k \in up : k = m
  BY DEF LocksKnown, OneProcess
<1>2. m \in Managers
  BY DEF TypeOK
<1> QED
  BY <1>1, <1>2 DEF LocksKnown, OneProcess, LockPhase, Locked, RequestIs, Target, LockStays

\* A step that writes a table with the same locks, or fails to.
LEMMA LocksWritten ==
  ASSUME TypeOK, LocksKnown, NEW m \in up, UNCHANGED up, NEW t \in Tables,
         Saves(m, t) \/ SaveFails(m, t), LockedIn(t) = LockedIn(table[m]),
         NEW op, NEW n \in Names, NEW at, RequestIs(m, op, n, at), request[m].at # "done",
         at \in Ending => ~Locked(m, n), at \notin {"network", "record"}
  PROVE  LocksKnown' /\ \A k \in LockedIn(file) : LockStays(k)
<1>1. \A k \in up : k = m
  BY DEF LocksKnown, OneProcess
<1>2. TableIs(m, t) /\ m \in Managers
  BY Saving DEF TypeOK
<1>3. LockedIn(file) = LockedIn(t) /\ (file' = file \/ file' = t)
  BY <1>2 DEF LocksKnown, TableIs
<1> QED
  BY <1>1, <1>2, <1>3 DEF LocksKnown, OneProcess, TableIs, Locked, RequestIs, Target, LockStays

\* A new status leaves the locks alone.
LEMMA StatusLocks ==
  ASSUME TypeOK, NEW m \in Managers, NEW n \in Names, NEW s \in Statuses, table[m][n] # NoRecord
  PROVE  WithStatus(m, n, s) \in Tables /\ LockedIn(WithStatus(m, n, s)) = LockedIn(table[m])
<1>1. table[m] \in Tables /\ table[m][n] \in Records
  BY DEF TypeOK, Tables
<1>2. /\ WithStatus(m, n, s)[n].locked = table[m][n].locked
      /\ WithStatus(m, n, s)[n] # NoRecord
      /\ \A k \in Names \ {n} : WithStatus(m, n, s)[k] = table[m][k]
  BY <1>1, StatusTypes DEF WithStatus, Tables, Records
<1> QED
  BY <1>2, StatusTypes DEF LockedIn

\* A step that records a status.
LEMMA LocksUnderStatus ==
  ASSUME TypeOK, LocksKnown, NEW m \in up, UNCHANGED up,
         NEW o \in Names, NEW s \in Statuses, table[m][o] # NoRecord,
         Saves(m, WithStatus(m, o, s)) \/ SaveFails(m, WithStatus(m, o, s)),
         NEW op, NEW n \in Names, NEW at, RequestIs(m, op, n, at), request[m].at # "done",
         at \in Ending => ~Locked(m, n), at \notin {"network", "record"}
  PROVE  LocksKnown' /\ \A k \in LockedIn(file) : LockStays(k)
<1>1. m \in Managers
  BY DEF TypeOK
<1> QED
  BY <1>1, StatusLocks, LocksWritten

\* A command that rewrites the table is done afterwards, whatever it wrote.
LEMMA LocksRewritten ==
  ASSUME TypeInv, LocksKnown, NEW m \in Managers, NEW t, Rewrites(m, t)
  PROVE  /\ LocksKnown'
         /\ LockedIn(file) = LockedIn(table[m])
         /\ file' = file \/ file' = t
<1>1. /\ m \in up /\ m \notin Servers /\ UNCHANGED up /\ request[m].at = "idle"
      /\ file' = file \/ file' = t
  BY DEF Rewrites, Idle, Saves, SaveFails
<1>2. \A k \in up : k = m
  BY <1>1 DEF LocksKnown, OneProcess
<1>3. RequestIs(m, request[m].op, Target(m), "done")
  BY <1>1, Finishing DEF Rewrites, Resting, TypeInv
<1> QED
  BY <1>1, <1>2, <1>3 DEF LocksKnown, OneProcess, RequestIs, Ending

\* No step takes a lock but an unlock, and a rename takes it along.
LEMMA StepLocks ==
  ASSUME Exclusive, TypeInv, LocksKnown, [Next]_vars
  PROVE  /\ LocksKnown'
         /\ file # Torn /\ file' # Torn => \A n \in LockedIn(file) : LockStays(n)
<1> DEFINE Held == LocksKnown' /\ (file # Torn /\ file' # Torn => \A n \in LockedIn(file) : LockStays(n))
<1> SUFFICES Held
  OBVIOUS
<1>0. TypeOK /\ \A m \in Managers : Target(m) \in Names
  BY DEF TypeInv, TypeOK, Target, Requests
<1>a. \A m \in Managers : Resting(m) \notin Ending \cup {"network", "record"}
  BY DEF Resting, Ending
<1>1. ASSUME NEW m \in Managers, NEW n \in Names, NEW s \in Names, Create(m, n) \/ Clone(m, s, n)
      PROVE Held
  <2>1. PICK op \in {"create", "clone"}, at \in {"network", Resting(m)} : RequestIs(m, op, n, at)
    BY <1>0, <1>1, Rest, Starting DEF Create, Clone, Steps, Operations
  <2> QED
    BY <1>0, <1>a, <1>1, <2>1, LocksLeft DEF Create, Clone, Idle, Ending, LockPhase
<1>2. ASSUME NEW m \in Managers, SetupNetwork(m) \/ SetupNetworkFails(m) \/ PreparingFails(m)
      PROVE Held
  <2>1. PICK at \in {"record", Resting(m)} : RequestIs(m, request[m].op, Target(m), at)
    BY <1>0, <1>2, Finishing, Moving DEF SetupNetwork, SetupNetworkFails, PreparingFails, Steps
  <2>2. m \in up /\ request[m].at \in {"network", "record"} /\ UNCHANGED <<file, up, table>>
    BY <1>2 DEF SetupNetwork, SetupNetworkFails, PreparingFails, At
  <2> QED
    BY <1>0, <1>a, <2>1, <2>2, LocksLeft DEF Ending, LockPhase, LocksKnown
<1>3. ASSUME NEW m \in Managers, StoreRecord(m) \/ Forget(m) PROVE Held
  <2>1. /\ m \in up /\ UNCHANGED up /\ request[m].at \in {"record", "forget"}
        /\ Target(m) \notin LockedIn(table[m])
    BY <1>3 DEF StoreRecord, Forget, At, LocksKnown, Locked, LockedIn, Ending
  <2>2. PICK at \in {"report", Resting(m)} : RequestIs(m, request[m].op, Target(m), at)
    BY <1>0, <1>3, Finishing, Moving DEF StoreRecord, Forget, Steps
  <2>3. ASSUME NEW t \in {NewRecord(m, Target(m)), Without(m, Target(m))}
        PROVE  t \in Tables /\ LockedIn(t) = LockedIn(table[m])
    <3>1. table[m] \in Tables
      BY <1>0 DEF TypeOK
    <3>2. /\ t \in Tables
          /\ t[Target(m)] # NoRecord => ~t[Target(m)].locked
          /\ \A k \in Names \ {Target(m)} : t[k] = table[m][k]
      <4>1. CASE t = NewRecord(m, Target(m))
        BY <1>0, <3>1, <4>1 DEF NewRecord, Tables, Records, Statuses
      <4>2. CASE t = Without(m, Target(m))
        BY <1>0, <3>1, <4>2 DEF Without, Tables
      <4> QED
        BY <4>1, <4>2
    <3> QED
      BY <2>1, <3>2 DEF LockedIn
  <2>4. PICK t \in {NewRecord(m, Target(m)), Without(m, Target(m))} :
          Saves(m, t) \/ SaveFails(m, t)
    BY <1>3 DEF StoreRecord, Forget
  <2> QED
    BY <1>0, <1>a, <2>1, <2>2, <2>3, <2>4, LocksWritten DEF Ending
<1>4. ASSUME NEW m \in Managers, StartAgain(m) \/ \E n \in Names : Start(m, n) PROVE Held
  <2>1. m \in up /\ request[m].at \in {"idle", "boot"} /\ UNCHANGED <<file, up, table>>
    BY <1>4 DEF Start, StartAgain, Boot, Idle, At
  <2>2. ASSUME NEW op, NEW n \in Names, NEW at \in {"booted", Resting(m)}, RequestIs(m, op, n, at)
        PROVE  Held
    BY <1>0, <1>a, <2>1, <2>2, LocksLeft DEF Ending, LockPhase
  <2>3. ASSUME NEW n \in Names, Start(m, n) PROVE Held
    <3>1. RequestIs(m, "start", n, "booted")
      BY <1>0, <2>3, Starting DEF Start, Steps, Operations
    <3> QED
      BY <2>2, <3>1
  <2>4. CASE StartAgain(m)
    <3>1. \/ RequestIs(m, request[m].op, Target(m), "booted")
          \/ RequestIs(m, request[m].op, Target(m), Resting(m))
      BY <1>0, <2>4, Finishing, Moving DEF StartAgain, Steps
    <3> QED
      BY <1>0, <2>2, <3>1
  <2> QED
    BY <1>4, <2>3, <2>4
<1>5. ASSUME NEW m \in Managers, RecordStart(m) PROVE Held
  <2>1. /\ m \in up /\ table[m][Target(m)] # NoRecord /\ UNCHANGED up /\ request[m].at = "booted"
        /\ \/ Saves(m, WithStatus(m, Target(m), "running"))
           \/ SaveFails(m, WithStatus(m, Target(m), "running"))
    BY <1>5 DEF RecordStart, At, TypeInv, Recorded
  <2>2. PICK at \in {"report", Resting(m)} : RequestIs(m, request[m].op, Target(m), at)
    BY <1>0, <1>5, Finishing, Moving DEF RecordStart, Steps
  <2> QED
    BY <1>0, <1>a, <2>1, <2>2, LocksUnderStatus DEF Ending, Statuses
<1>6. ASSUME NEW m \in Managers, NEW n \in Names, NEW op \in {"stop", "restart", "destroy"},
             Stop(m, op, n)
      PROVE Held
  <2>1. RequestIs(m, op, n, "cleanup") /\ ~Locked(m, n)
    BY <1>0, <1>6, Starting DEF Stop, Steps, Operations, Unlocked, Locked, LockedIn
  <2> QED
    BY <1>0, <1>6, <2>1, LocksLeft DEF Stop, Idle, LockPhase
<1>7. ASSUME NEW m \in Managers, RemoveTap(m) \/ RemoveTapFails(m) \/ Untap(m) \/ Wipe(m) PROVE Held
  <2>1. /\ m \in up /\ request[m].at \in Ending /\ request[m].at # "done"
        /\ UNCHANGED <<file, up, table>>
    BY <1>7 DEF RemoveTap, RemoveTapFails, Untap, Wipe, At, Ending
  <2>2. PICK at \in {"stopped", "wipe", "forget", Resting(m)} :
          RequestIs(m, request[m].op, Target(m), at)
    BY <1>0, <1>7, Finishing, Moving DEF RemoveTap, RemoveTapFails, Untap, Wipe, Steps
  <2> QED
    BY <1>0, <1>a, <2>1, <2>2, LocksLeft DEF LocksKnown, LockPhase
<1>8. ASSUME NEW m \in Managers, RecordStop(m) PROVE Held
  <2>1. /\ m \in up /\ request[m].at = "stopped" /\ table[m][Target(m)] # NoRecord /\ UNCHANGED up
        /\ \/ Saves(m, WithStatus(m, Target(m), "stopped"))
           \/ SaveFails(m, WithStatus(m, Target(m), "stopped"))
    BY <1>8 DEF RecordStop, At, TypeInv, Recorded
  <2>2. PICK at \in {"boot", "wipe", "report", "orphan", Resting(m)} :
          RequestIs(m, request[m].op, Target(m), at)
    BY <1>0, <1>8, Finishing, Moving DEF RecordStop, Steps
  <2>3. ~Locked(m, Target(m))
    BY <2>1 DEF LocksKnown, Ending
  <2> QED
    BY <1>0, <1>a, <2>1, <2>2, <2>3, LocksUnderStatus DEF Statuses
<1>9. ASSUME NEW m \in Managers, NEW n \in Names, DestroyAtRest(m, n) \/ DestroyOrphan(m, n) PROVE Held
  <2>1. PICK at \in {"untap", "orphan"} : RequestIs(m, "destroy", n, at)
    BY <1>0, <1>9, Starting DEF DestroyAtRest, DestroyOrphan, Steps, Operations
  <2>2. ~Locked(m, n)
    BY <1>9 DEF DestroyAtRest, DestroyOrphan, Unlocked, Locked, LockedIn
  <2> QED
    BY <1>0, <1>9, <2>1, <2>2, LocksLeft DEF DestroyAtRest, DestroyOrphan, Idle, LockPhase
<1>10. ASSUME NEW m \in Managers, NEW n \in Names, Pause(m, n) \/ Unpause(m, n) PROVE Held
  <2>1. PICK s \in {"paused", "running"} :
          /\ m \in up /\ table[m][n] # NoRecord /\ UNCHANGED up /\ request[m].at = "idle"
          /\ Saves(m, WithStatus(m, n, s)) \/ SaveFails(m, WithStatus(m, n, s))
    BY <1>10 DEF Pause, Unpause, HasStatus, Idle
  <2>2. RequestIs(m, request[m].op, Target(m), Resting(m))
    BY <1>0, <1>10, Finishing DEF Pause, Unpause
  <2> QED
    BY <1>0, <1>a, <2>1, <2>2, LocksUnderStatus DEF Statuses
<1>11. ASSUME NEW m \in Managers, Report(m) \/ \E n \in Names : Status(m, n) PROVE Held
  <2>1. /\ m \in up /\ UNCHANGED up /\ RequestIs(m, request[m].op, Target(m), Resting(m))
        /\ request[m].at # "done"
    BY <1>0, <1>11, Finishing DEF Status, Report, Idle, At
  <2>2. CASE UNCHANGED <<file, table>>
    BY <1>0, <1>a, <2>1, <2>2, LocksLeft DEF LockPhase
  <2>3. ASSUME NEW n \in Names, MarkStopped(m, n) PROVE Held
    <3>1. /\ table[m][n] # NoRecord
          /\ Saves(m, WithStatus(m, n, "stopped")) \/ SaveFails(m, WithStatus(m, n, "stopped"))
      BY <2>3 DEF MarkStopped, LooksDead, HasStatus
    <3> QED
      BY <1>0, <1>a, <2>1, <3>1, LocksUnderStatus DEF Statuses
  <2> QED
    BY <1>0, <1>11, <2>2, <2>3 DEF Status, Report
<1>12. ASSUME NEW m \in Managers, NEW n \in Names, Lock(m, n) PROVE Held
  <2> DEFINE t == [table[m] EXCEPT ![n] = [@ EXCEPT !.locked = TRUE]]
  <2>1. LocksKnown' /\ LockedIn(file) = LockedIn(table[m]) /\ (file' = file \/ file' = t)
    BY <1>12, LocksRewritten DEF Lock
  <2>2. ~table[m][n].locked /\ \A k \in Names \ {n} : t[k] = table[m][k]
    BY <1>0, <1>12 DEF Lock, TypeOK, Tables
  <2>3. LockedIn(table[m]) \subseteq LockedIn(t)
    BY <2>2 DEF LockedIn
  <2> QED
    BY <2>1, <2>3 DEF LockStays
<1>13. ASSUME NEW m \in Managers, NEW n \in Names, Unlock(m, n) PROVE Held
  <2> DEFINE t == [table[m] EXCEPT ![n] = [@ EXCEPT !.locked = FALSE]]
  <2>1. LocksKnown' /\ LockedIn(file) = LockedIn(table[m]) /\ (file' = file \/ file' = t)
    BY <1>13, LocksRewritten DEF Unlock
  <2>2. \A k \in Names \ {n} : t[k] = table[m][k]
    BY <1>0 DEF TypeOK, Tables
  <2> QED
    BY <1>13, <2>1, <2>2 DEF LockedIn, LockStays
<1>14. ASSUME NEW m \in Managers, NEW n \in Names, NEW old \in Names, Rename(m, old, n) PROVE Held
  <2> DEFINE t == [table[m] EXCEPT ![n] = table[m][old], ![old] = NoRecord]
  <2>1. /\ LocksKnown' /\ LockedIn(file) = LockedIn(table[m]) /\ (file' = file \/ file' = t)
        /\ table[m][n] = NoRecord /\ table[m][old] # NoRecord
    BY <1>14, LocksRewritten DEF Rename, AtRest
  <2>2. t[n] = table[m][old] /\ \A k \in Names \ {n, old} : t[k] = table[m][k]
    BY <1>0, <2>1 DEF TypeOK, Tables
  <2>3. old \in LockedIn(file) => LockStays(old)
    BY <1>14, <2>1, <2>2 DEF LockedIn, LockStays
  <2>4. \A k \in LockedIn(table[m]) \ {old} : k # n /\ k \in LockedIn(t)
    BY <2>1, <2>2 DEF LockedIn
  <2> QED
    BY <2>1, <2>3, <2>4 DEF LockStays
<1>15. ASSUME NEW g \in Guests, GuestExits(g) \/ LoopReturns(g) PROVE Held
  BY <1>15 DEF GuestExits, LoopReturns, LocksKnown, OneProcess, Locked, Target, LockStays
<1>16. ASSUME NEW m \in Managers, StartProcess(m) PROVE Held
  <2>1. up' = {m} /\ table'[m] = file /\ UNCHANGED <<file, request>> /\ request[m].at = "idle"
    BY <1>0, <1>16 DEF StartProcess, TypeOK, TypeInv, Recorded
  <2> QED
    BY <2>1 DEF LocksKnown, OneProcess, Ending, LockStays
<1>17. ASSUME NEW m \in Managers, ProcessEnds(m) PROVE Held
  <2>1. up' = {} /\ (file' = file \/ file' = Torn)
    BY <1>17, <1>0 DEF ProcessEnds, LocksKnown, OneProcess
  <2> QED
    BY <2>1 DEF LocksKnown, OneProcess, LockStays
<1>18. CASE UNCHANGED vars
  BY <1>18 DEF vars, LocksKnown, OneProcess, Locked, Target, LockStays
<1> QED
  BY <1>1, <1>2, <1>3, <1>4, <1>5, <1>6, <1>7, <1>8, <1>9, <1>10, <1>11, <1>12, <1>13, <1>14,
     <1>15, <1>16, <1>17, <1>18 DEF Next

(***************************************************************************)
(* With one process at a time a lock leaves the file only by an unlock of  *)
(* its sandbox, or along with it to a new name, whatever else fails.       *)
(***************************************************************************)
THEOREM LocksAreKept == ASSUME Exclusive PROVE Spec => LocksHold
<1>1. Init => LocksKnown
  BY DEF Init, LocksKnown, OneProcess
<1>2. TypeInv /\ LocksKnown /\ [Next]_vars =>
        LocksKnown' /\ (file # Torn /\ file' # Torn => \A n \in LockedIn(file) : LockStays(n))
  BY StepLocks
<1> QED
  BY <1>1, <1>2, TypesHold, PTL DEF Spec, LocksHold
=============================================================================
