------------------------- MODULE MetricsWriterProofs --------------------------
(***************************************************************************)
(* Proofs about MetricsWriter: with a disk that is not slower than the     *)
(* join of stop(), metrics.json is a register, for any number of inodes,   *)
(* updates, failed writes, crashes and restarts.                           *)
(***************************************************************************)
EXTENDS MetricsWriter, TLAPS

USE MetricsWriterAssumption DEF MetricsWriterAssumption

(***************************************************************************)
(* Types hold with a slow disk as well.                                    *)
(***************************************************************************)
THEOREM WriterTypes == Spec => []TypeOK
<1>1. Init => TypeOK
  <2> SUFFICES ASSUME Init PROVE TypeOK
    OBVIOUS
  <2>1. content \in [Inodes -> Contents]
    BY DEF Init, Contents
  <2>2. step \in [Flushers -> Steps] /\ snapshot \in [Flushers -> Nat]
    BY DEF Init, Steps
  <2>3. fd \in [Flushers -> Inodes \cup {NoInode}]
    BY DEF Init
  <2> QED
    BY <2>1, <2>2, <2>3 DEF Init, TypeOK, Phases
<1>2. TypeOK /\ [Next]_vars => TypeOK'
  <2> SUFFICES ASSUME TypeOK, [Next]_vars PROVE TypeOK'
    OBVIOUS
  <2> USE DEF TypeOK, Phases, Steps, counters, files
  <2>0. Loaded \in Nat
    BY DEF Loaded
  <2>1. CASE Update \/ MarkDirty \/ Stop \/ Join \/ JoinTimesOut \/ NothingToFlush
    <3>1. CASE Update
      BY <3>1 DEF Update
    <3>2. CASE MarkDirty \/ Stop
      BY <3>2 DEF MarkDirty, Stop
    <3>3. CASE Join \/ JoinTimesOut \/ NothingToFlush
      BY <3>3 DEF Join, JoinTimesOut, NothingToFlush
    <3> QED
      BY <2>1, <3>1, <3>2, <3>3
  <2>2. CASE Exit \/ Crash
    <3>1. ProcessGone
      BY <2>2 DEF Exit, Crash
    <3>2. /\ step' \in [Flushers -> Steps] /\ snapshot' \in [Flushers -> Nat]
          /\ fd' \in [Flushers -> Inodes \cup {NoInode}]
      BY <3>1 DEF ProcessGone
    <3> QED
      BY <3>1, <3>2 DEF ProcessGone
  <2>3. CASE Restart
    BY <2>0, <2>3 DEF Restart
  <2>4. CASE WriterEnds
    BY <2>4 DEF WriterEnds
  <2>5. ASSUME NEW f \in Flushers, TakeSnapshot(f) PROVE TypeOK'
    BY <2>5 DEF TakeSnapshot
  <2>6. ASSUME NEW f \in Flushers, Open(f) PROVE TypeOK'
    BY <2>6 DEF Open, Contents, Empty
  <2>7. ASSUME NEW f \in Flushers, Write(f) PROVE TypeOK'
    BY <2>7 DEF Write, Overwritten, Contents, Mixed
  <2>8. ASSUME NEW f \in Flushers, Replace(f) PROVE TypeOK'
    BY <2>8 DEF Replace, Finish
  <2>9. ASSUME NEW f \in Flushers, FlushFails(f) PROVE TypeOK'
    <3>1. content' \in [Inodes -> Contents]
      BY <2>9 DEF FlushFails, Contents, Mixed
    <3> QED
      BY <2>9, <3>1 DEF FlushFails, Finish
  <2>10. CASE UNCHANGED vars
    BY <2>10 DEF vars
  <2> QED
    BY <2>1, <2>2, <2>3, <2>4, <2>5, <2>6, <2>7, <2>8, <2>9, <2>10 DEF Next, Flush
<1> QED
  BY <1>1, <1>2, PTL DEF Spec

-----------------------------------------------------------------------------
(***************************************************************************)
(* The inductive invariant.  The two flushers exclude each other by the    *)
(* join; the one at work has metrics.tmp to itself; and versions only grow *)
(* along metrics.json, its snapshot and the counters in memory.            *)
(***************************************************************************)
JoinSeparates ==
  /\ step["writer"] # "idle" => writing
  /\ phase \in {"final", "flushed", "unflushed", "gone"} => ~writing
  /\ step["main"] # "idle" => phase = "final"

TmpIsPrivate ==
  /\ tmp # NoInode => tmp # published
  /\ \A f \in Flushers :
       /\ step[f] \in {"opened", "written"} => tmp # NoInode /\ fd[f] = tmp
       /\ step[f] = "opened" => content[tmp] = Empty
       /\ step[f] = "written" => content[tmp] = snapshot[f]

VersionsGrow ==
  /\ phase # "gone" => Loaded <= memory
  /\ \A f \in Flushers :
       step[f] # "idle" => Loaded <= snapshot[f] /\ snapshot[f] <= memory
  /\ step["main"] # "idle" => snapshot["main"] = memory

WriterInv ==
  /\ TypeOK
  /\ JoinSeparates
  /\ TmpIsPrivate
  /\ PublishedIsWhole
  /\ VersionsGrow
  /\ LastFlushIsLatest

(***************************************************************************)
(* A step that leaves both flushers, their files and the counters alone    *)
(* keeps everything but what it says of the main thread.                   *)
(***************************************************************************)
LEMMA QuietStep ==
  ASSUME WriterInv, TypeOK', JoinSeparates',
         UNCHANGED <<step, snapshot, fd, content, tmp, published, memory>>,
         phase # "gone", phase' # "flushed"
  PROVE  WriterInv'
  BY DEF WriterInv, TmpIsPrivate, PublishedIsWhole, VersionsGrow, Loaded,
         LastFlushIsLatest

\* With file I/O faster than the join of stop(), the invariant holds in every state.
THEOREM WriterInvariance == ASSUME ~SlowDisk PROVE Spec => []WriterInv
<1>1. Init /\ TypeOK => WriterInv
  BY DEF Init, WriterInv, Flushers, JoinSeparates, TmpIsPrivate, PublishedIsWhole,
         VersionsGrow, Loaded, LastFlushIsLatest
<1>2. WriterInv /\ TypeOK' /\ [Next]_vars => WriterInv'
  <2> SUFFICES ASSUME WriterInv, TypeOK', [Next]_vars PROVE WriterInv'
    OBVIOUS
  <2> DEFINE Parts == /\ JoinSeparates' /\ TmpIsPrivate' /\ PublishedIsWhole'
                      /\ VersionsGrow' /\ LastFlushIsLatest'
  <2>0. Loaded \in Nat /\ memory \in Nat
    BY DEF Loaded, WriterInv, TypeOK
  <2>1. CASE MarkDirty \/ Stop \/ Join \/ NothingToFlush \/ WriterEnds
    <3>1. JoinSeparates'
      BY <2>1 DEF MarkDirty, Stop, Join, NothingToFlush, WriterEnds, StopEvent,
                  WriterInv, JoinSeparates
    <3>2. /\ UNCHANGED <<step, snapshot, fd, content, tmp, published, memory>>
          /\ phase # "gone"
      BY <2>1 DEF MarkDirty, Stop, Join, NothingToFlush, WriterEnds, StopEvent,
                  counters, files
    <3>3. CASE phase' # "flushed"
      BY <3>1, <3>2, <3>3, QuietStep
    <3>4. CASE phase' = "flushed"
      <4>1. phase' = phase
        BY <2>1, <3>4 DEF MarkDirty, Stop, Join, NothingToFlush, WriterEnds
      <4> QED
        BY <3>1, <3>2, <4>1 DEF WriterInv, TmpIsPrivate, PublishedIsWhole,
           VersionsGrow, Loaded, LastFlushIsLatest
    <3> QED
      BY <3>3, <3>4
  <2>2. CASE Update
    BY <2>0, <2>2 DEF Update, files, WriterInv, TypeOK, JoinSeparates, TmpIsPrivate,
       PublishedIsWhole, VersionsGrow, Loaded, LastFlushIsLatest, Flushers
  <2>3. CASE JoinTimesOut
    BY <2>3 DEF JoinTimesOut
  <2>4. CASE Exit \/ Crash
    <3>1. ProcessGone
      BY <2>4 DEF Exit, Crash
    <3> QED
      BY <3>1 DEF ProcessGone, files, WriterInv, JoinSeparates, TmpIsPrivate,
         PublishedIsWhole, VersionsGrow, LastFlushIsLatest, Flushers
  <2>5. CASE Restart
    BY <2>0, <2>5 DEF Restart, files, Loaded, WriterInv, JoinSeparates, TmpIsPrivate,
       PublishedIsWhole, VersionsGrow, LastFlushIsLatest, Flushers
  <2>6. ASSUME NEW f \in Flushers, Flush(f) PROVE WriterInv'
    <3> DEFINE g == IF f = "main" THEN "writer" ELSE "main"
    <3>0. /\ f \in {"main", "writer"} /\ g \in {"main", "writer"} /\ f # g
          /\ Flushers = {f, g}
      BY DEF Flushers
    <3>1. CASE TakeSnapshot(f)
      <4>1. step'[f] = "taken" /\ snapshot'[f] = memory /\ step'[g] = step[g]
            /\ snapshot'[g] = snapshot[g]
        BY <3>0, <3>1 DEF TakeSnapshot, WriterInv, TypeOK
      <4>2. JoinSeparates' /\ phase # "gone"
        BY <3>0, <3>1, <4>1 DEF TakeSnapshot, MayFlush, WriterInv, JoinSeparates
      <4>3. TmpIsPrivate'
        BY <3>0, <3>1, <4>1 DEF TakeSnapshot, files, WriterInv, TmpIsPrivate
      <4>4. PublishedIsWhole' /\ Loaded' = Loaded
        BY <3>1 DEF TakeSnapshot, files, WriterInv, PublishedIsWhole, Loaded
      <4>5. VersionsGrow' /\ LastFlushIsLatest'
        BY <2>0, <3>0, <3>1, <4>1, <4>2, <4>4
        DEF TakeSnapshot, counters, WriterInv, VersionsGrow, LastFlushIsLatest
      <4> QED
        BY <4>2, <4>3, <4>4, <4>5 DEF WriterInv
    <3>2. step[f] # "idle" => step[g] = "idle" /\ phase \notin {"flushed", "gone"}
      BY <3>0 DEF WriterInv, JoinSeparates
    <3>3. CASE Open(f)
      <4>1. PICK n \in Inodes :
              /\ IF tmp = NoInode THEN Free(n) ELSE n = tmp
              /\ tmp' = n
              /\ fd' = [fd EXCEPT ![f] = n]
              /\ content' = [content EXCEPT ![n] = Empty]
        BY <3>3 DEF Open
      <4>2. step[f] = "taken" /\ step'[f] = "opened" /\ step'[g] = "idle"
            /\ step[g] = "idle"
        BY <3>0, <3>2, <3>3 DEF Open, WriterInv, TypeOK
      <4>3. n # published
        BY <4>1 DEF Free, WriterInv, TmpIsPrivate
      <4>4. JoinSeparates'
        BY <3>0, <3>3, <4>2 DEF Open, WriterInv, JoinSeparates
      <4>5. fd'[f] = n /\ content'[n] = Empty /\ n # NoInode
        BY <4>1 DEF WriterInv, TypeOK
      <4>6. TmpIsPrivate'
        BY <3>0, <3>3, <4>1, <4>2, <4>3, <4>5 DEF Open, WriterInv, TmpIsPrivate
      <4>7. PublishedIsWhole' /\ Loaded' = Loaded
        BY <3>3, <4>1, <4>3
        DEF Open, WriterInv, TypeOK, PublishedIsWhole, Loaded
      <4>8. VersionsGrow' /\ LastFlushIsLatest'
        BY <3>0, <3>3, <4>2, <4>7
        DEF Open, counters, WriterInv, VersionsGrow, LastFlushIsLatest
      <4> QED
        BY <4>4, <4>6, <4>7, <4>8 DEF WriterInv
    <3>4. CASE Write(f)
      <4>1. step[f] = "opened" /\ step'[f] = "written" /\ step[g] = "idle"
            /\ step'[g] = "idle"
        BY <3>0, <3>2, <3>4 DEF Write, WriterInv, TypeOK
      <4>2. fd[f] = tmp /\ tmp \in Inodes /\ content[tmp] = Empty /\ tmp # published
        BY <3>0, <4>1 DEF WriterInv, TypeOK, TmpIsPrivate
      <4>3. content' = [content EXCEPT ![tmp] = snapshot[f]]
        BY <3>4, <4>2 DEF Write, Overwritten
      <4>4. content'[tmp] = snapshot[f]
        BY <4>2, <4>3 DEF WriterInv, TypeOK
      <4>5. JoinSeparates'
        BY <3>0, <3>4, <4>1 DEF Write, WriterInv, JoinSeparates
      <4>6. TmpIsPrivate'
        BY <3>0, <3>4, <4>1, <4>2, <4>4 DEF Write, WriterInv, TmpIsPrivate
      <4>7. PublishedIsWhole' /\ Loaded' = Loaded
        BY <3>4, <4>2, <4>3 DEF Write, WriterInv, TypeOK, PublishedIsWhole, Loaded
      <4>8. VersionsGrow' /\ LastFlushIsLatest'
        BY <3>0, <3>4, <4>1, <4>7
        DEF Write, counters, WriterInv, VersionsGrow, LastFlushIsLatest
      <4> QED
        BY <4>5, <4>6, <4>7, <4>8 DEF WriterInv
    <3>5. CASE Replace(f)
      <4>1. step[f] = "written" /\ step'[f] = "idle" /\ step[g] = "idle"
            /\ step'[g] = "idle"
        BY <3>0, <3>2, <3>5 DEF Replace, Finish, WriterInv, TypeOK
      <4>2. /\ tmp \in Inodes /\ content[tmp] = snapshot[f] /\ snapshot[f] \in Nat
            /\ published' = tmp /\ tmp' = NoInode /\ content' = content
        BY <3>0, <3>5, <4>1 DEF Replace, WriterInv, TypeOK, TmpIsPrivate
      <4>3. Loaded' = snapshot[f] /\ PublishedIsWhole'
        BY <4>2 DEF Loaded, PublishedIsWhole
      <4>4. JoinSeparates' /\ TmpIsPrivate'
        BY <3>0, <3>2, <3>5, <4>1, <4>2
        DEF Replace, Finish, StopEvent, WriterInv, JoinSeparates, TmpIsPrivate
      <4>5. VersionsGrow'
        BY <3>0, <3>5, <4>1, <4>3
        DEF Replace, Finish, counters, WriterInv, VersionsGrow
      <4>6. LastFlushIsLatest'
        BY <3>0, <3>2, <3>5, <4>1, <4>3
        DEF Replace, Finish, counters, WriterInv, VersionsGrow, LastFlushIsLatest
      <4> QED
        BY <4>3, <4>4, <4>5, <4>6 DEF WriterInv
    <3>6. CASE FlushFails(f)
      <4>1. step[f] # "idle" /\ step'[f] = "idle" /\ step[g] = "idle"
            /\ step'[g] = "idle"
        BY <3>0, <3>2, <3>6 DEF FlushFails, Finish, WriterInv, TypeOK
      <4>2. published # NoInode => content'[published] = content[published]
        <5>1. CASE step[f] = "opened"
          <6>1. fd[f] = tmp /\ tmp # published
            BY <3>0, <5>1 DEF WriterInv, TmpIsPrivate
          <6> QED
            BY <3>6, <5>1, <6>1 DEF FlushFails, WriterInv, TypeOK
        <5>2. CASE step[f] # "opened"
          BY <3>6, <5>2 DEF FlushFails
        <5> QED
          BY <5>1, <5>2
      <4>3. Loaded' = Loaded /\ PublishedIsWhole'
        BY <3>6, <4>2 DEF FlushFails, Loaded, WriterInv, PublishedIsWhole
      <4>4. JoinSeparates' /\ TmpIsPrivate'
        BY <3>0, <3>2, <3>6, <4>1
        DEF FlushFails, Finish, StopEvent, WriterInv, JoinSeparates, TmpIsPrivate
      <4>5. VersionsGrow' /\ LastFlushIsLatest'
        BY <3>0, <3>2, <3>6, <4>1, <4>3
        DEF FlushFails, Finish, counters, WriterInv, VersionsGrow, LastFlushIsLatest
      <4> QED
        BY <4>3, <4>4, <4>5 DEF WriterInv
    <3> QED
      BY <2>6, <3>1, <3>3, <3>4, <3>5, <3>6 DEF Flush
  <2>7. CASE UNCHANGED vars
    BY <2>7 DEF vars, WriterInv, JoinSeparates, TmpIsPrivate, PublishedIsWhole,
       VersionsGrow, Loaded, LastFlushIsLatest
  <2> QED
    BY <2>1, <2>2, <2>3, <2>4, <2>5, <2>6, <2>7 DEF Next
<1> QED
  BY <1>1, <1>2, WriterTypes, PTL DEF Spec

-----------------------------------------------------------------------------
(***************************************************************************)
(* metrics.json is never empty, mixed or partial.                          *)
(***************************************************************************)
THEOREM AlwaysWhole == ASSUME ~SlowDisk PROVE Spec => []PublishedIsWhole
<1>1. WriterInv => PublishedIsWhole
  BY DEF WriterInv
<1> QED
  BY <1>1, WriterInvariance, PTL

(***************************************************************************)
(* What stop() flushes by itself are the last counters.                    *)
(***************************************************************************)
THEOREM StopFlushesAll == ASSUME ~SlowDisk PROVE Spec => []LastFlushIsLatest
<1>1. WriterInv => LastFlushIsLatest
  BY DEF WriterInv
<1> QED
  BY <1>1, WriterInvariance, PTL

(***************************************************************************)
(* The writer implements the register, so that the loop may see a flush as *)
(* one step.  Only Update, a successful rename and the end of a process    *)
(* are steps of the register.                                              *)
(***************************************************************************)
THEOREM WriterIsRegister == ASSUME ~SlowDisk PROVE Spec => IsRegister
<1> DEFINE mem  == IF phase = "gone" THEN Loaded ELSE memory
           file == IF published = NoInode THEN 0 ELSE content[published]
<1>1. Init => Register!Init
  BY DEF Init, Register!Init
<1>2. WriterInv /\ WriterInv' /\ [Next]_vars => [Register!Next]_Register!vars
  <2> SUFFICES ASSUME WriterInv, WriterInv', [Next]_vars
               PROVE  [Register!Next]_Register!vars
    OBVIOUS
  <2>1. file = Loaded /\ file' = Loaded' /\ Loaded \in Nat /\ Loaded' \in Nat
    BY DEF WriterInv, PublishedIsWhole, Loaded
  <2> HIDE DEF mem, file
  <2>2. ASSUME UNCHANGED <<mem, file>> PROVE [Register!Next]_Register!vars
    BY <2>2 DEF Register!vars, mem, file
  <2>3. ASSUME UNCHANGED <<content, published>>, memory' = memory,
               phase # "gone", phase' # "gone"
        PROVE  [Register!Next]_Register!vars
    BY <2>2, <2>3 DEF mem, file
  <2>4. CASE Update
    <3>1. mem' = mem + 1 /\ file' = file
      BY <2>4 DEF Update, files, mem, file
    <3> QED
      BY <3>1 DEF Register!Next, Register!Count, mem, file
  <2>5. CASE MarkDirty \/ Stop \/ Join \/ JoinTimesOut \/ NothingToFlush \/ WriterEnds
    BY <2>3, <2>5 DEF MarkDirty, Stop, Join, JoinTimesOut, NothingToFlush, WriterEnds,
       StopEvent, counters, files
  <2>6. CASE Exit \/ Crash
    <3>1. ProcessGone
      BY <2>6 DEF Exit, Crash
    <3>2. file' = file /\ mem' = Loaded'
      BY <3>1 DEF ProcessGone, files, mem, file
    <3> QED
      BY <2>1, <3>2 DEF Register!Next, Register!Reload, mem, file
  <2>7. CASE Restart
    <3>1. UNCHANGED <<mem, file>>
      BY <2>7 DEF Restart, files, mem, file, Loaded
    <3> QED
      BY <2>2, <3>1
  <2>8. ASSUME NEW f \in Flushers, Flush(f) PROVE [Register!Next]_Register!vars
    <3>0. /\ step[f] \in {"taken", "opened", "written"} => phase # "gone"
          /\ f \in {"main", "writer"}
      BY DEF WriterInv, JoinSeparates, Flushers
    <3>1. CASE TakeSnapshot(f)
      BY <2>3, <3>0, <3>1 DEF TakeSnapshot, MayFlush, counters, files
    <3>2. ASSUME Open(f) \/ Write(f) \/ FlushFails(f)
          PROVE  Loaded' = Loaded /\ phase # "gone" /\ phase' # "gone" /\ memory' = memory
      <4>1. phase # "gone" /\ phase' # "gone" /\ memory' = memory /\ published' = published
        BY <3>0, <3>2 DEF Open, Write, FlushFails, Finish, counters, WriterInv, TypeOK, Steps
      <4>2. published # NoInode => content'[published] = content[published]
        <5>1. CASE Open(f)
          BY <5>1 DEF Open, Free, WriterInv, TypeOK, TmpIsPrivate
        <5>2. CASE step[f] = "opened" /\ (Write(f) \/ FlushFails(f))
          <6>1. fd[f] = tmp /\ tmp # published
            BY <5>2 DEF WriterInv, TmpIsPrivate
          <6> QED
            BY <5>2, <6>1 DEF Write, FlushFails, WriterInv, TypeOK
        <5>3. CASE step[f] # "opened" /\ FlushFails(f)
          BY <5>3 DEF FlushFails
        <5> QED
          BY <3>2, <5>1, <5>2, <5>3 DEF Write
      <4> QED
        BY <4>1, <4>2 DEF Loaded
    <3>3. CASE Open(f) \/ Write(f) \/ FlushFails(f)
      <4>1. UNCHANGED <<mem, file>>
        BY <2>1, <3>2, <3>3 DEF mem
      <4> QED
        BY <2>2, <4>1
    <3>4. CASE Replace(f)
      <4>1. /\ phase # "gone" /\ phase' # "gone" /\ memory' = memory
            /\ step[f] = "written" /\ published' = tmp /\ content' = content
            /\ tmp # NoInode
        BY <3>0, <3>4 DEF Replace, Finish, counters
      <4>2. content[tmp] = snapshot[f] /\ Loaded <= snapshot[f] /\ snapshot[f] <= memory
        BY <4>1 DEF WriterInv, TmpIsPrivate, VersionsGrow
      <4>3. snapshot[f] \in Nat /\ memory \in Nat
        BY DEF WriterInv, TypeOK
      <4>4. mem = memory /\ mem' = mem /\ file' = snapshot[f]
        BY <4>1, <4>2 DEF mem, file
      <4>5. file' \in file .. mem
        BY <2>1, <4>2, <4>3, <4>4
      <4> QED
        BY <4>4, <4>5 DEF Register!Next, Register!Publish, mem, file
    <3> QED
      BY <2>8, <3>1, <3>3, <3>4 DEF Flush
  <2>9. CASE UNCHANGED vars
    <3>1. UNCHANGED <<mem, file>>
      BY <2>9 DEF vars, mem, file, Loaded
    <3> QED
      BY <2>2, <3>1
  <2> QED
    BY <2>4, <2>5, <2>6, <2>7, <2>8, <2>9 DEF Next
<1> QED
  BY <1>1, <1>2, WriterInvariance, PTL DEF Spec, IsRegister, Register!Spec

-----------------------------------------------------------------------------
(***************************************************************************)
(* With any disk: until stop() goes on by itself the writer thread is      *)
(* alone with metrics.tmp, which is never the file that is published.      *)
(***************************************************************************)
Waiting == phase \in {"running", "joining"}

WriterAlone ==
  /\ phase = "gone" => \A f \in Flushers : step[f] = "idle"
  /\ tmp # NoInode => tmp # published
  /\ Waiting =>
       /\ step["main"] = "idle"
       /\ step["writer"] \in {"opened", "written"} => tmp # NoInode /\ fd["writer"] = tmp
       /\ step["writer"] = "opened" => content[tmp] = Empty
       /\ step["writer"] = "written" => content[tmp] \in Nat

\* Every step keeps it.
LEMMA AloneStep ==
  ASSUME TypeOK, WriterAlone, [Next]_vars
  PROVE  WriterAlone'
<1> USE DEF WriterAlone, Waiting, counters, files
<1>1. CASE UNCHANGED vars
  BY <1>1 DEF vars
<1>2. CASE \/ Update \/ MarkDirty \/ Stop \/ Join \/ JoinTimesOut
           \/ NothingToFlush \/ WriterEnds
  <2>1. /\ UNCHANGED <<step, fd, content, tmp, published>>
        /\ phase' # "gone" /\ (Waiting' => Waiting)
    BY <1>2 DEF Update, MarkDirty, Stop, Join, JoinTimesOut, NothingToFlush,
                WriterEnds, StopEvent
  <2> QED
    BY <2>1
<1>3. CASE Exit \/ Crash
  BY <1>3 DEF Exit, Crash, ProcessGone
<1>4. CASE Restart
  BY <1>4 DEF Restart, Flushers
<1>5. ASSUME NEW f \in Flushers, TakeSnapshot(f)
      PROVE  WriterAlone'
  BY <1>5 DEF TakeSnapshot, MayFlush, TypeOK, Flushers
<1>6. ASSUME NEW f \in Flushers, Open(f)
      PROVE  WriterAlone'
  <2>1. PICK n \in Inodes :
          /\ IF tmp = NoInode THEN Free(n) ELSE n = tmp
          /\ tmp' = n
          /\ fd' = [fd EXCEPT ![f] = n]
          /\ content' = [content EXCEPT ![n] = Empty]
    BY <1>6 DEF Open
  <2>2. tmp' # NoInode /\ tmp' # published /\ UNCHANGED <<phase, published>>
    BY <1>6, <2>1 DEF Open, Free
  <2>3. step' = [step EXCEPT ![f] = "opened"] /\ phase # "gone"
    BY <1>6 DEF Open
  <2>4. Waiting => f = "writer"
    BY <1>6 DEF Open, Flushers
  <2> QED
    BY <2>1, <2>2, <2>3, <2>4 DEF TypeOK, Flushers
<1>7. ASSUME NEW f \in Flushers, Write(f)
      PROVE  WriterAlone'
  <2>1. /\ step[f] = "opened" /\ step' = [step EXCEPT ![f] = "written"]
        /\ UNCHANGED <<phase, fd, tmp, published>> /\ phase # "gone"
        /\ Waiting => f = "writer"
    BY <1>7 DEF Write, Flushers
  <2>2. ASSUME Waiting
        PROVE  content'[tmp] \in Nat
    <3>1. fd[f] = tmp /\ content[tmp] = Empty /\ tmp \in Inodes
      BY <2>1, <2>2 DEF TypeOK
    <3> QED
      BY <1>7, <3>1 DEF Write, Overwritten, TypeOK
  <2> QED
    BY <2>1, <2>2 DEF TypeOK, Flushers
<1>8. ASSUME NEW f \in Flushers, Replace(f) \/ FlushFails(f)
      PROVE  WriterAlone'
  <2>1. /\ step[f] # "idle" /\ step' = [step EXCEPT ![f] = "idle"]
        /\ tmp' # NoInode => UNCHANGED <<tmp, published>>
        /\ phase' # "gone" /\ (Waiting' => Waiting)
    BY <1>8 DEF Replace, FlushFails, Finish
  <2>2. Waiting => f = "writer"
    BY <2>1 DEF Flushers
  <2> QED
    BY <2>1, <2>2 DEF TypeOK, Flushers
<1> QED
  BY <1>1, <1>2, <1>3, <1>4, <1>5, <1>6, <1>7, <1>8 DEF Next, Flush

(***************************************************************************)
(* Whatever the speed of the disk, only a stop() that gave up on the       *)
(* writer thread breaks a file that was whole.                             *)
(***************************************************************************)
THEOREM OnlyStopTearsIt == Spec => OnlyStopTears
<1>1. Init => WriterAlone
  BY DEF Init, WriterAlone, Waiting, Flushers
<1>2. TypeOK /\ WriterAlone /\ [Next]_vars => WriterAlone'
  BY AloneStep
<1>3. ASSUME TypeOK, WriterAlone, [Next]_vars, Waiting, PublishedIsWhole
      PROVE  PublishedIsWhole'
  <2> USE DEF PublishedIsWhole, WriterAlone, Waiting, files
  <2>1. CASE UNCHANGED <<content, published>>
    BY <1>3, <2>1
  <2>2. ASSUME NEW f \in Flushers, Open(f)
        PROVE  PublishedIsWhole'
    BY <1>3, <2>2 DEF Open, Free, TypeOK
  <2>3. ASSUME NEW f \in Flushers, Write(f) \/ Replace(f) \/ FlushFails(f)
        PROVE  PublishedIsWhole'
    <3>1. f = "writer"
      BY <1>3, <2>3 DEF Flushers, Write, Replace, FlushFails
    <3> QED
      BY <1>3, <2>3, <3>1 DEF Write, Replace, FlushFails, TypeOK, Flushers
  <2> QED
    BY <1>3, <2>1, <2>2, <2>3 DEF Next, Flush, Update, MarkDirty, Stop, Join,
         JoinTimesOut, NothingToFlush, Exit, Crash, ProcessGone, Restart,
         WriterEnds, TakeSnapshot, vars
<1>4. TypeOK /\ WriterAlone /\ [Next]_vars
        => [(phase \in {"running", "joining"} /\ PublishedIsWhole) => (PublishedIsWhole')]_vars
  BY <1>3 DEF Waiting
<1> QED
  BY <1>1, <1>2, <1>4, WriterTypes, PTL DEF Spec, OnlyStopTears

-----------------------------------------------------------------------------
(***************************************************************************)
(* stop() returns.  The two threads take turns on a way that leads nowhere *)
(* back: the writer, which may be anywhere in a flush, is out of its loop  *)
(* within four steps of its own, or is given up; then the main thread      *)
(* flushes or finds nothing to flush, and the process exits.               *)
(***************************************************************************)
Placed ==
  /\ step["writer"] # "idle" => writing
  /\ step["main"] # "idle" => phase = "final"

\* The main thread is in its join, the writer still in its loop.
Joining(where) == phase = "joining" /\ writing /\ step["writer"] = where

Joined == phase = "joining" /\ ~writing

\* After the join, in the flush of stop() itself.
Final(where) == phase = "final" /\ step["main"] = where

Returned == phase \in {"flushed", "unflushed"}

Gone == phase = "gone"

\* The prover does not look into ENABLED: that neither thread is blocked when
\* it is its turn is taken as a hypothesis, which TLC checks.
NeverBlocked ==
  /\ phase = "joining" /\ writing => ENABLED <<Writing>>_vars
  /\ Joined \/ phase = "final" \/ Returned => ENABLED <<Stopping>>_vars

\* The places of the threads, for any disk.
LEMMA PlacedStep == TypeOK /\ Placed /\ [Next]_vars => Placed'
<1> SUFFICES ASSUME TypeOK, Placed, [Next]_vars PROVE Placed'
  OBVIOUS
<1>1. CASE \/ Update \/ MarkDirty \/ Stop \/ Join \/ JoinTimesOut \/ NothingToFlush
           \/ Restart \/ WriterEnds \/ UNCHANGED vars
  BY <1>1 DEF Placed, Update, MarkDirty, Stop, Join, JoinTimesOut, NothingToFlush, Restart,
       WriterEnds, vars
<1>2. CASE Exit \/ Crash
  BY <1>2 DEF Placed, Exit, Crash, ProcessGone, Flushers
<1>3. ASSUME NEW f \in Flushers, Flush(f) PROVE Placed'
  <2>1. CASE f = "writer"
    BY <1>3, <2>1 DEF Placed, Flush, TakeSnapshot, MayFlush, Open, Write, Replace, FlushFails,
         Finish, TypeOK, Flushers
  <2>2. CASE f = "main"
    BY <1>3, <2>2 DEF Placed, Flush, TakeSnapshot, MayFlush, Open, Write, Replace, FlushFails,
         Finish, TypeOK, Flushers
  <2> QED
    BY <2>1, <2>2 DEF Flushers
<1> QED
  BY <1>1, <1>2, <1>3 DEF Next

\* What a step of a flusher does to its place, and to that of the other.
LEMMA FlushMoves ==
  ASSUME TypeOK, NEW f \in Flushers, Flush(f)
  PROVE  /\ \A g \in Flushers \ {f} : step'[g] = step[g]
         /\ step[f] = "idle" => step'[f] = "taken" /\ UNCHANGED <<phase, writing>> /\ MayFlush(f)
         /\ step[f] = "taken" => step'[f] = "opened" \/ step'[f] = "idle"
         /\ step[f] = "opened" => step'[f] = "written" \/ step'[f] = "idle"
         /\ step[f] = "written" => step'[f] = "idle"
         /\ step'[f] # "idle" => UNCHANGED <<phase, writing>>
         /\ step[f] # "idle" /\ step'[f] = "idle" =>
              /\ f = "main" => phase' \in {"flushed", "unflushed"}
              /\ f = "writer" => phase' = phase /\ writing' = (writing /\ ~StopEvent)
  BY DEF Flush, TakeSnapshot, MayFlush, Open, Write, Replace, FlushFails, Finish, TypeOK, Flushers, Steps

\* While the main thread joins a writer in its loop.
LEMMA JoiningMoves ==
  ASSUME TypeOK, Placed, NEW where \in Steps, Joining(where), [Next]_vars
  PROVE  /\ Joining(where)' \/ Writing \/ Final("idle")' \/ Gone'
         /\ Writing =>
              \/ Joined'
              \/ where = "idle" /\ Joining("taken")'
              \/ where = "taken" /\ Joining("opened")'
              \/ where = "opened" /\ Joining("written")'
<1>0. phase = "joining" /\ writing /\ step["writer"] = where /\ step["main"] = "idle"
  BY DEF Joining, Placed, TypeOK, Steps, Flushers
<1>1. Joining(where)' \/ Writing \/ Final("idle")' \/ Gone'
  <2>1. CASE JoinTimesOut \/ Join
    BY <1>0, <2>1 DEF JoinTimesOut, Join, Final
  <2>2. CASE Exit \/ Crash
    BY <2>2 DEF Exit, Crash, ProcessGone, Gone
  <2>3. ~Flush("main")
    BY <1>0 DEF Flush, TakeSnapshot, MayFlush, Open, Write, Replace, FlushFails
  <2>4. CASE UNCHANGED vars
    BY <1>0, <2>4 DEF vars, Joining
  <2> QED
    BY <1>0, <2>1, <2>2, <2>3, <2>4
       DEF Next, Update, MarkDirty, Stop, NothingToFlush, Restart, Writing, Flushers
<1>2. ASSUME Writing
      PROVE  \/ Joined'
             \/ where = "idle" /\ Joining("taken")'
             \/ where = "taken" /\ Joining("opened")'
             \/ where = "opened" /\ Joining("written")'
  <2>1. CASE WriterEnds
    BY <1>0, <2>1 DEF WriterEnds, Joined
  <2>2. CASE Flush("writer")
    <3>1. StopEvent
      BY <1>0 DEF StopEvent
    <3> QED
      BY <1>0, <2>2, <3>1, FlushMoves DEF Flushers, Joined, Joining, Steps, TypeOK
  <2> QED
    BY <1>2, <2>1, <2>2 DEF Writing
<1> QED
  BY <1>1, <1>2

\* After the join, whatever the writer does.
LEMMA FinalMoves ==
  ASSUME TypeOK, Placed, NEW where \in Steps, Final(where), [Next]_vars
  PROVE  /\ Final(where)' \/ Stopping \/ Gone'
         /\ Stopping =>
              \/ Returned'
              \/ where = "idle" /\ Final("taken")'
              \/ where = "taken" /\ Final("opened")'
              \/ where = "opened" /\ Final("written")'
<1>0. phase = "final" /\ step["main"] = where
  BY DEF Final
<1>1. Final(where)' \/ Stopping \/ Gone'
  <2>1. CASE Exit \/ Crash
    BY <2>1 DEF Exit, Crash, ProcessGone, Gone
  <2>2. CASE Flush("writer")
    <3>1. phase' = phase /\ step'["main"] = step["main"]
      BY <2>2, FlushMoves DEF Flushers, TypeOK, Steps
    <3> QED
      BY <1>0, <3>1 DEF Final
  <2>3. CASE WriterEnds \/ UNCHANGED vars
    BY <1>0, <2>3 DEF WriterEnds, Final, vars
  <2> QED
    BY <1>0, <2>1, <2>2, <2>3 DEF Next, Update, MarkDirty, Stop, Restart, Stopping, Flushers
<1>2. ASSUME Stopping
      PROVE  \/ Returned'
             \/ where = "idle" /\ Final("taken")'
             \/ where = "taken" /\ Final("opened")'
             \/ where = "opened" /\ Final("written")'
  <2>1. CASE NothingToFlush
    BY <2>1 DEF NothingToFlush, Returned
  <2>2. CASE Flush("main")
    BY <1>0, <2>2, FlushMoves DEF Flushers, Final, Returned, Steps, TypeOK
  <2> QED
    BY <1>0, <1>2, <2>1, <2>2 DEF Stopping, MarkDirty, Join, JoinTimesOut, Exit
<1> QED
  BY <1>1, <1>2

\* A join of a writer that has left its loop, and the exit after stop().
LEMMA OtherMoves ==
  ASSUME TypeOK, Placed, [Next]_vars
  PROVE  /\ Joined => Joined' \/ Final("idle")' \/ Gone'
         /\ Joined /\ Stopping => Final("idle")'
         /\ Returned => Returned' \/ Gone'
         /\ Returned /\ Stopping => Gone'
<1>1. Joined => ~Flush("writer") /\ ~Flush("main")
  BY DEF Joined, Placed, Flush, TakeSnapshot, MayFlush, Open, Write, Replace, FlushFails
<1>2. Returned => ~Flush("main")
  BY DEF Returned, Placed, Flush, TakeSnapshot, MayFlush, Open, Write, Replace, FlushFails
<1>3. Returned /\ Flush("writer") => phase' = phase
  BY FlushMoves DEF Flushers, TypeOK, Steps
<1>4. Joined => step["main"] = "idle"
  BY DEF Joined, Placed
<1>5. Joined => Joined' \/ Final("idle")' \/ Gone'
  BY <1>1, <1>4 DEF Next, Flushers, Joined, Final, Gone, Update, MarkDirty, Stop, Join,
       JoinTimesOut, NothingToFlush, Exit, Crash, ProcessGone, Restart, WriterEnds, vars
<1>6. Joined /\ Stopping => Final("idle")'
  BY <1>1, <1>4 DEF Stopping, Joined, Final, MarkDirty, Join, JoinTimesOut, NothingToFlush, Exit
<1>7. Returned => Returned' \/ Gone'
  BY <1>2, <1>3 DEF Next, Flushers, Returned, Gone, Update, MarkDirty, Stop, Join,
       JoinTimesOut, NothingToFlush, Exit, Crash, ProcessGone, Restart, WriterEnds, vars
<1>8. Returned /\ Stopping => Gone'
  BY <1>2 DEF Stopping, Returned, Gone, MarkDirty, Join, JoinTimesOut, NothingToFlush, Exit,
       ProcessGone
<1> QED
  BY <1>5, <1>6, <1>7, <1>8

(***************************************************************************)
(* If both threads are scheduled and neither is blocked out of turn, every *)
(* stop() returns, whatever the speed of the disk and whichever of the     *)
(* writes fail: no thread waits for the other for ever.                    *)
(***************************************************************************)
THEOREM StopsReturn == FairSpec /\ []NeverBlocked => StopReturns
<1>1. Init => Placed
  BY DEF Init, Placed, Flushers
<1>2. Spec => [](TypeOK /\ Placed)
  BY <1>1, PlacedStep, WriterTypes, PTL DEF Spec
<1>3. FairSpec /\ []NeverBlocked => (Returned ~> Gone)
  <2>1. /\ TypeOK /\ Placed /\ Returned /\ [Next]_vars => Returned' \/ Gone'
        /\ TypeOK /\ Placed /\ Returned /\ <<Next /\ Stopping>>_vars => Gone'
    BY OtherMoves
  <2>2. Returned => Joined \/ phase = "final" \/ Returned
    BY DEF Returned
  <2> QED
    BY <1>2, <2>1, <2>2, PTL DEF FairSpec, Spec, NeverBlocked
<1>4. FairSpec /\ []NeverBlocked => (Final("written") ~> Gone)
  <2>1. /\ TypeOK /\ Placed /\ Final("written") /\ [Next]_vars => Final("written")' \/ Returned' \/ Gone'
        /\ TypeOK /\ Placed /\ Final("written") /\ <<Next /\ Stopping>>_vars => Returned' \/ Gone'
    BY FinalMoves DEF Steps
  <2>2. Final("written") => Joined \/ phase = "final" \/ Returned
    BY DEF Final
  <2> QED
    BY <1>2, <2>1, <2>2, <1>3, PTL DEF FairSpec, Spec, NeverBlocked
<1>5. FairSpec /\ []NeverBlocked => (Final("opened") ~> Gone)
  <2>1. /\ TypeOK /\ Placed /\ Final("opened") /\ [Next]_vars => Final("opened")' \/ Returned' \/ Gone' \/ Final("written")'
        /\ TypeOK /\ Placed /\ Final("opened") /\ <<Next /\ Stopping>>_vars => Returned' \/ Gone' \/ Final("written")'
    BY FinalMoves DEF Steps
  <2>2. Final("opened") => Joined \/ phase = "final" \/ Returned
    BY DEF Final
  <2> QED
    BY <1>2, <2>1, <2>2, <1>3, <1>4, PTL DEF FairSpec, Spec, NeverBlocked
<1>6. FairSpec /\ []NeverBlocked => (Final("taken") ~> Gone)
  <2>1. /\ TypeOK /\ Placed /\ Final("taken") /\ [Next]_vars => Final("taken")' \/ Returned' \/ Gone' \/ Final("opened")'
        /\ TypeOK /\ Placed /\ Final("taken") /\ <<Next /\ Stopping>>_vars => Returned' \/ Gone' \/ Final("opened")'
    BY FinalMoves DEF Steps
  <2>2. Final("taken") => Joined \/ phase = "final" \/ Returned
    BY DEF Final
  <2> QED
    BY <1>2, <2>1, <2>2, <1>3, <1>5, PTL DEF FairSpec, Spec, NeverBlocked
<1>7. FairSpec /\ []NeverBlocked => (Final("idle") ~> Gone)
  <2>1. /\ TypeOK /\ Placed /\ Final("idle") /\ [Next]_vars => Final("idle")' \/ Returned' \/ Gone' \/ Final("taken")'
        /\ TypeOK /\ Placed /\ Final("idle") /\ <<Next /\ Stopping>>_vars => Returned' \/ Gone' \/ Final("taken")'
    BY FinalMoves DEF Steps
  <2>2. Final("idle") => Joined \/ phase = "final" \/ Returned
    BY DEF Final
  <2> QED
    BY <1>2, <2>1, <2>2, <1>3, <1>6, PTL DEF FairSpec, Spec, NeverBlocked
<1>8. FairSpec /\ []NeverBlocked => (Joined ~> Gone)
  <2>1. /\ TypeOK /\ Placed /\ Joined /\ [Next]_vars => Joined' \/ Final("idle")' \/ Gone'
        /\ TypeOK /\ Placed /\ Joined /\ <<Next /\ Stopping>>_vars => Final("idle")' \/ Gone'
    BY OtherMoves
  <2>2. Joined => Joined \/ phase = "final" \/ Returned
    BY DEF Joined
  <2> QED
    BY <1>2, <2>1, <2>2, <1>7, PTL DEF FairSpec, Spec, NeverBlocked
<1>9. FairSpec /\ []NeverBlocked => (Joining("written") ~> Gone)
  <2>1. /\ TypeOK /\ Placed /\ Joining("written") /\ [Next]_vars => Joining("written")' \/ Joined' \/ Final("idle")' \/ Gone'
        /\ TypeOK /\ Placed /\ Joining("written") /\ <<Next /\ Writing>>_vars => Joined' \/ Final("idle")' \/ Gone'
    BY JoiningMoves DEF Steps
  <2>2. Joining("written") => phase = "joining" /\ writing
    BY DEF Joining
  <2> QED
    BY <1>2, <2>1, <2>2, <1>8, <1>7, PTL DEF FairSpec, Spec, NeverBlocked
<1>10. FairSpec /\ []NeverBlocked => (Joining("opened") ~> Gone)
  <2>1. /\ TypeOK /\ Placed /\ Joining("opened") /\ [Next]_vars => Joining("opened")' \/ Joined' \/ Final("idle")' \/ Gone' \/ Joining("written")'
        /\ TypeOK /\ Placed /\ Joining("opened") /\ <<Next /\ Writing>>_vars => Joined' \/ Final("idle")' \/ Gone' \/ Joining("written")'
    BY JoiningMoves DEF Steps
  <2>2. Joining("opened") => phase = "joining" /\ writing
    BY DEF Joining
  <2> QED
    BY <1>2, <2>1, <2>2, <1>8, <1>7, <1>9, PTL DEF FairSpec, Spec, NeverBlocked
<1>11. FairSpec /\ []NeverBlocked => (Joining("taken") ~> Gone)
  <2>1. /\ TypeOK /\ Placed /\ Joining("taken") /\ [Next]_vars => Joining("taken")' \/ Joined' \/ Final("idle")' \/ Gone' \/ Joining("opened")'
        /\ TypeOK /\ Placed /\ Joining("taken") /\ <<Next /\ Writing>>_vars => Joined' \/ Final("idle")' \/ Gone' \/ Joining("opened")'
    BY JoiningMoves DEF Steps
  <2>2. Joining("taken") => phase = "joining" /\ writing
    BY DEF Joining
  <2> QED
    BY <1>2, <2>1, <2>2, <1>8, <1>7, <1>10, PTL DEF FairSpec, Spec, NeverBlocked
<1>12. FairSpec /\ []NeverBlocked => (Joining("idle") ~> Gone)
  <2>1. /\ TypeOK /\ Placed /\ Joining("idle") /\ [Next]_vars => Joining("idle")' \/ Joined' \/ Final("idle")' \/ Gone' \/ Joining("taken")'
        /\ TypeOK /\ Placed /\ Joining("idle") /\ <<Next /\ Writing>>_vars => Joined' \/ Final("idle")' \/ Gone' \/ Joining("taken")'
    BY JoiningMoves DEF Steps
  <2>2. Joining("idle") => phase = "joining" /\ writing
    BY DEF Joining
  <2> QED
    BY <1>2, <2>1, <2>2, <1>8, <1>7, <1>11, PTL DEF FairSpec, Spec, NeverBlocked
<1>13. TypeOK => (phase = "joining" =>
        \/ Joined \/ Joining("idle") \/ Joining("taken") \/ Joining("opened")
        \/ Joining("written"))
  BY DEF TypeOK, Flushers, Steps, Joined, Joining
<1> QED
  BY <1>2, <1>8, <1>9, <1>10, <1>11, <1>12, <1>13, PTL
     DEF StopReturns, Gone, FairSpec
=============================================================================
