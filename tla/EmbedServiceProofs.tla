-------------------------- MODULE EmbedServiceProofs --------------------------
(***************************************************************************)
(* Proofs about EmbedService, for any descriptors, workers and limits.     *)
(***************************************************************************)
EXTENDS EmbedService, FiniteSetTheorems, TLAPS

USE EmbedAssumption DEF EmbedAssumption

-----------------------------------------------------------------------------
(* Who has a descriptor depends on what the threads do. *)
WorkersFit ==
  \A w \in Workers :
    /\ worker[w].conn # NoConn <=> worker[w].at \in {"serve", "close"}
    /\ worker[w].at = "serve" => worker[w].served < MaxRequests

Shape == (held # NoConn <=> main = "push") /\ WorkersFit

SameConns == \A w \in Workers : worker'[w].conn = worker[w].conn

NoDuplicates == \A i, k \in DOMAIN queue : queue[i] = queue[k] => i = k

EmbedInv == TypeOK /\ Shape /\ OneHolder /\ NobodySleepsOverWork

-----------------------------------------------------------------------------
(* The queue. *)

\* A descriptor is put at its end.
LEMMA Pushing ==
  ASSUME queue \in Seq(Conns), NEW c \in Conns, queue' = Append(queue, c),
         NoDuplicates, ~Queued(c)
  PROVE  /\ queue' \in Seq(Conns) /\ Len(queue') = Len(queue) + 1
         /\ NoDuplicates'
         /\ \A d \in Conns : Queued(d)' <=> Queued(d) \/ d = c
<1>1. /\ queue' \in Seq(Conns) /\ Len(queue') = Len(queue) + 1
      /\ DOMAIN queue = 1..Len(queue) /\ DOMAIN queue' = 1..(Len(queue) + 1)
      /\ Len(queue) \in Nat
      /\ \A i \in 1..Len(queue) : queue'[i] = queue[i]
      /\ queue'[Len(queue) + 1] = c
  OBVIOUS
<1>2. NoDuplicates'
  BY <1>1 DEF NoDuplicates, Queued
<1>3. \A d \in Conns : Queued(d)' <=> Queued(d) \/ d = c
  BY <1>1 DEF Queued
<1> QED
  BY <1>1, <1>2, <1>3

\* The descriptor at its head is taken.
LEMMA Popped ==
  ASSUME queue \in Seq(Conns), queue # <<>>, queue' = Tail(queue), NoDuplicates
  PROVE  /\ queue' \in Seq(Conns) /\ Len(queue') = Len(queue) - 1
         /\ Head(queue) \in Conns /\ Queued(Head(queue))
         /\ NoDuplicates'
         /\ \A d \in Conns : Queued(d)' <=> Queued(d) /\ d # Head(queue)
<1>1. /\ queue' \in Seq(Conns) /\ Len(queue') = Len(queue) - 1
      /\ DOMAIN queue = 1..Len(queue) /\ DOMAIN queue' = 1..(Len(queue) - 1)
      /\ Len(queue) \in Nat \ {0}
      /\ \A i \in 1..(Len(queue) - 1) : queue'[i] = queue[i + 1]
      /\ Head(queue) = queue[1] /\ Head(queue) \in Conns
  OBVIOUS
<1>2. NoDuplicates'
  BY <1>1 DEF NoDuplicates
<1>3. \A d \in Conns : Queued(d)' => Queued(d) /\ d # Head(queue)
  BY <1>1 DEF Queued, NoDuplicates
<1>4. ASSUME NEW d \in Conns, Queued(d), d # Head(queue)
      PROVE  Queued(d)'
  <2>1. PICK i \in 1..Len(queue) : queue[i] = d
    BY <1>1, <1>4 DEF Queued
  <2>2. i # 1 /\ i - 1 \in 1..(Len(queue) - 1)
    BY <1>1, <1>4, <2>1
  <2>3. queue'[i - 1] = d
    BY <1>1, <2>1, <2>2
  <2> QED
    BY <1>1, <2>2, <2>3 DEF Queued
<1>5. Queued(Head(queue))
  BY <1>1 DEF Queued
<1> QED
  BY <1>1, <1>2, <1>3, <1>4, <1>5

-----------------------------------------------------------------------------
(* The workers. *)

\* One worker goes on.
WorkerIs(w, t) ==
  /\ worker' \in [Workers -> Threads]
  /\ worker'[w] = t
  /\ \A v \in Workers \ {w} : worker'[v] = worker[v]

\* Some are woken.
LEMMA Waking ==
  ASSUME TypeOK, NEW W \in SUBSET Workers, Wake(W)
  PROVE  /\ worker' \in [Workers -> Threads]
         /\ \A w \in W : worker'[w] = Popping
         /\ \A w \in Workers \ W : worker'[w] = worker[w]
<1>1. Popping \in Threads
  BY DEF Popping, Threads, WorkerSteps
<1> QED
  BY <1>1 DEF Wake, TypeOK

\* To be awake is to be counted.
LEMMA Counting ==
  /\ IsFiniteSet(Awake) /\ Cardinality(Awake) \in Nat
  /\ IsFiniteSet(Awake') /\ Cardinality(Awake') \in Nat
  /\ Awake \subseteq Awake' => Cardinality(Awake) <= Cardinality(Awake')
<1>1. Awake \subseteq Workers /\ Awake' \subseteq Workers
  BY DEF Awake
<1>2. IsFiniteSet(Awake) /\ IsFiniteSet(Awake')
  BY <1>1, FS_Subset
<1> QED
  BY <1>2, FS_CardinalityType, FS_Subset

\* More are awake for no more work.
LEMMA StillAwake ==
  ASSUME TypeOK, NobodySleepsOverWork, queue' = queue, Awake \subseteq Awake',
         Waiting' \subseteq Waiting
  PROVE  NobodySleepsOverWork'
<1>1. Len(queue) \in Nat
  BY DEF TypeOK
<1> QED
  BY <1>1, Counting DEF NobodySleepsOverWork

\* No descriptor changes hands.
LEMMA SameHolders ==
  ASSUME TypeOK, OneHolder, held' = held, queue' = queue,
         \A w \in Workers : worker'[w].conn = worker[w].conn,
         \A c \in Conns : client'[c] = "open" <=> client[c] = "open"
  PROVE  OneHolder'
  BY DEF OneHolder, Queued, TypeOK

\* A worker that waits has no descriptor, and a woken one neither.
LEMMA WakingWaiters ==
  ASSUME TypeOK, Shape, NEW W \in SUBSET Waiting, Wake(W)
  PROVE  /\ worker' \in [Workers -> Threads]
         /\ SameConns /\ WorkersFit'
         /\ Awake' = Awake \cup W /\ Waiting' = Waiting \ W
<1>1. /\ W \in SUBSET Workers /\ \A w \in W : worker[w].at = "wait"
      /\ Waiting \subseteq Workers
  BY DEF Waiting, At
<1>2. /\ worker' \in [Workers -> Threads]
      /\ \A w \in W : worker'[w] = Popping
      /\ \A w \in Workers \ W : worker'[w] = worker[w]
  BY <1>1, Waking
<1>3. /\ Popping.at = "pop" /\ Popping.conn = NoConn
      /\ \A w \in W : worker[w].conn = NoConn
  BY <1>1 DEF Popping, Shape, WorkersFit
<1>4. Awake' = Awake \cup W
  BY <1>1, <1>2, <1>3 DEF Awake, At
<1>5. Waiting' = Waiting \ W
  BY <1>1, <1>2, <1>3 DEF Waiting, At
<1>6. SameConns
  BY <1>1, <1>2, <1>3 DEF SameConns
<1>7. WorkersFit'
  BY <1>1, <1>2, <1>3 DEF Shape, WorkersFit
<1> QED
  BY <1>2, <1>4, <1>5, <1>6, <1>7

\* One worker changes, the others do not.
LEMMA One ==
  ASSUME TypeOK, NEW w \in Workers, NEW t \in Threads,
         worker' = [worker EXCEPT ![w] = t]
  PROVE  WorkerIs(w, t)
  BY DEF TypeOK, WorkerIs

-----------------------------------------------------------------------------
(* Every step keeps the invariant. *)

\* Steps of the main thread and of clients that move no open descriptor.
LEMMA QuietStep ==
  ASSUME EmbedInv,
         \/ Test \/ AcceptFails \/ Signal
         \/ \E c \in Conns : Connect(c) \/ Quit(c)
         \/ UNCHANGED vars
  PROVE  EmbedInv'
<1>1. UNCHANGED <<held, queue, shutdown, worker>>
  BY DEF Test, AcceptFails, Signal, Connect, Quit, vars
<1>2. TypeOK'
  BY DEF EmbedInv, TypeOK, MainSteps, Test, AcceptFails, Signal, Connect, Quit, vars
<1>3. main' = "push" <=> main = "push"
  BY DEF Test, AcceptFails, Signal, Connect, Quit, vars
<1>4. \A c \in Conns : client'[c] = "open" <=> client[c] = "open"
  BY DEF EmbedInv, TypeOK, Test, AcceptFails, Signal, Connect, Quit, vars
<1>5. Shape'
  BY <1>1, <1>3 DEF EmbedInv, Shape, WorkersFit
<1>6. OneHolder'
  BY <1>1, <1>4, SameHolders DEF EmbedInv
<1>7. NobodySleepsOverWork'
  BY <1>1 DEF EmbedInv, NobodySleepsOverWork, Waiting, Awake, At
<1> QED
  BY <1>2, <1>5, <1>6, <1>7 DEF EmbedInv

\* A descriptor is opened, and closed again if it cannot be queued.
LEMMA AcceptStep ==
  ASSUME EmbedInv, Accept \/ Reject
  PROVE  EmbedInv'
<1>1. UNCHANGED <<queue, shutdown, worker>>
  BY DEF Accept, Reject
<1>2. NobodySleepsOverWork'
  BY <1>1 DEF EmbedInv, NobodySleepsOverWork, Waiting, Awake, At
<1>3. CASE Accept
  <2>1. PICK c \in Conns : /\ client[c] = "pending" /\ held' = c
                           /\ client' = [client EXCEPT ![c] = "open"]
    BY <1>3 DEF Accept
  <2>2. held = NoConn /\ main' = "push"
    BY <1>3 DEF Accept, EmbedInv, Shape
  <2>3. TypeOK' /\ Shape'
    BY <1>1, <1>3, <2>1, <2>2 DEF Accept, EmbedInv, TypeOK, MainSteps, Shape, WorkersFit
  <2>4. ~Queued(c) /\ \A w \in Workers : worker[w].conn # c
    BY <2>1 DEF EmbedInv, OneHolder
  <2>5. \A d \in Conns : Queued(d)' <=> Queued(d)
    BY <1>1 DEF Queued
  <2>6. /\ client'[c] = "open"
        /\ \A d \in Conns \ {c} : client'[d] = client[d]
    BY <2>1 DEF EmbedInv, TypeOK
  <2>7. \A d \in Conns : client'[d] = "open" <=>
          held' = d \/ Queued(d)' \/ \E w \in Workers : worker'[w].conn = d
    BY <1>1, <2>1, <2>2, <2>5, <2>6 DEF EmbedInv, OneHolder
  <2>8. ~Queued(held')
    BY <2>1, <2>4
  <2>9. OneHolder'
    BY <1>1, <2>1, <2>4, <2>7 DEF EmbedInv, OneHolder, Queued
  <2> QED
    BY <1>2, <2>3, <2>9 DEF EmbedInv
<1>4. CASE Reject
  <2>1. held \in Conns /\ held' = NoConn /\ main' = "test"
    BY <1>4 DEF Reject, EmbedInv, TypeOK, Shape
  <2>2. TypeOK' /\ Shape'
    BY <1>1, <1>4, <2>1 DEF Reject, EmbedInv, TypeOK, MainSteps, Shape, WorkersFit
  <2>3. /\ client'[held] = "none"
        /\ \A d \in Conns \ {held} : client'[d] = client[d]
    BY <1>4, <2>1 DEF Reject, EmbedInv, TypeOK
  <2>4. ~Queued(held) /\ \A w \in Workers : worker[w].conn # held
    BY <2>1 DEF EmbedInv, OneHolder
  <2>5. \A d \in Conns : Queued(d)' <=> Queued(d)
    BY <1>1 DEF Queued
  <2>6. \A d \in Conns : client'[d] = "open" <=>
          held' = d \/ Queued(d)' \/ \E w \in Workers : worker'[w].conn = d
    BY <1>1, <2>1, <2>3, <2>4, <2>5 DEF EmbedInv, OneHolder
  <2>7. OneHolder'
    BY <1>1, <2>1, <2>6, <2>5 DEF EmbedInv, OneHolder, Queued, TypeOK, Threads
  <2> QED
    BY <1>2, <2>2, <2>7 DEF EmbedInv
<1> QED
  BY <1>3, <1>4

\* A descriptor is queued, and somebody is woken for it.
LEMMA PushStep ==
  ASSUME EmbedInv, Push
  PROVE  EmbedInv'
<1>1. /\ held \in Conns /\ held' = NoConn /\ main' = "test"
      /\ queue' = Append(queue, held) /\ Len(queue) < MaxQueueDepth
      /\ UNCHANGED <<client, talks, running, shutdown>> /\ WakeOne
  BY DEF Push, HasRoom, EmbedInv, TypeOK, Shape
<1>2. NoDuplicates /\ ~Queued(held) /\ queue \in Seq(Conns) /\ Len(queue) \in Nat
  BY <1>1 DEF EmbedInv, OneHolder, NoDuplicates, TypeOK
<1>3. /\ queue' \in Seq(Conns) /\ Len(queue') = Len(queue) + 1 /\ NoDuplicates'
      /\ \A d \in Conns : Queued(d)' <=> Queued(d) \/ d = held
  BY <1>1, <1>2, Pushing
<1>4. PICK W \in SUBSET Waiting :
        /\ Waiting = {} \/ \E w \in Waiting : W = {w}
        /\ worker' \in [Workers -> Threads] /\ SameConns /\ WorkersFit'
        /\ Awake' = Awake \cup W /\ Waiting' = Waiting \ W
  <2>1. CASE \E w \in Waiting : Wake({w})
    <3>1. PICK w \in Waiting : Wake({w})
      BY <2>1
    <3>2. {w} \in SUBSET Waiting
      BY <3>1
    <3> QED
      BY <3>1, <3>2, WakingWaiters DEF EmbedInv
  <2>2. CASE Waiting = {} /\ UNCHANGED worker
    <3>1. worker' \in [Workers -> Threads] /\ SameConns /\ WorkersFit'
      BY <2>2 DEF EmbedInv, TypeOK, Shape, WorkersFit, SameConns
    <3>2. Awake' = Awake \cup {} /\ Waiting' = Waiting \ {}
      BY <2>2 DEF Awake, Waiting, At
    <3>3. {} \in SUBSET Waiting
      OBVIOUS
    <3> QED
      BY <2>2, <3>1, <3>2, <3>3
  <2> QED
    BY <1>1, <2>1, <2>2 DEF WakeOne
<1>5. TypeOK'
  <2>1. Len(queue') <= MaxQueueDepth
    BY <1>1, <1>2, <1>3
  <2> QED
    BY <1>1, <1>3, <1>4, <2>1 DEF EmbedInv, TypeOK, MainSteps
<1>6. Shape'
  BY <1>1, <1>4 DEF Shape
<1>7. OneHolder'
  <2>1. \A w \in Workers : worker'[w].conn = worker[w].conn
    BY <1>4 DEF SameConns
  <2>2. \A w \in Workers : worker[w].conn \in Conns \cup {NoConn}
    BY DEF EmbedInv, TypeOK, Threads
  <2>3. \A d \in Conns : client'[d] = "open" <=>
          held' = d \/ Queued(d)' \/ \E w \in Workers : worker'[w].conn = d
    BY <1>1, <1>3, <2>1 DEF EmbedInv, OneHolder
  <2>4. \A w \in Workers : worker'[w].conn # NoConn =>
          /\ worker'[w].conn # held' /\ ~Queued(worker[w].conn)'
          /\ \A v \in Workers : worker'[v].conn = worker'[w].conn => v = w
    BY <1>1, <1>3, <2>1, <2>2 DEF EmbedInv, OneHolder
  <2> QED
    BY <1>1, <1>3, <2>3, <2>4 DEF OneHolder, NoDuplicates
<1>8. NobodySleepsOverWork'
  <2>2. CASE Waiting = {}
    BY <1>4, <2>2 DEF NobodySleepsOverWork
  <2>3. CASE Waiting # {}
    <3>1. PICK w \in Waiting : Awake' = Awake \cup {w}
      BY <1>4, <2>3
    <3>2. w \notin Awake
      BY <3>1 DEF Awake, Waiting, At
    <3>3. Cardinality(Awake') = Cardinality(Awake) + 1
      BY <3>1, <3>2, Counting, FS_AddElement
    <3> QED
      BY <1>2, <1>3, <2>3, <3>3, Counting DEF EmbedInv, NobodySleepsOverWork
  <2> QED
    BY <2>2, <2>3
<1> QED
  BY <1>5, <1>6, <1>7, <1>8 DEF EmbedInv

\* The shutdown begins, or a wait ends by itself.
LEMMA WakeStep ==
  ASSUME EmbedInv, Stop \/ \E w \in Workers : WakesUp(w)
  PROVE  EmbedInv'
<1>1. PICK W \in SUBSET Waiting : Wake(W)
  <2>1. CASE Stop
    BY <2>1 DEF Stop
  <2>2. CASE \E w \in Workers : WakesUp(w)
    <3>1. PICK w \in Workers : At(w, "wait") /\ Wake({w})
      BY <2>2 DEF WakesUp
    <3>2. {w} \in SUBSET Waiting
      BY <3>1 DEF Waiting
    <3> QED
      BY <3>1, <3>2
  <2> QED
    BY <2>1, <2>2
<1>2. /\ worker' \in [Workers -> Threads] /\ SameConns /\ WorkersFit'
      /\ Awake' = Awake \cup W /\ Waiting' = Waiting \ W
  BY <1>1, WakingWaiters DEF EmbedInv
<1>3. /\ UNCHANGED <<client, talks, running, held, queue>>
      /\ main' = "push" <=> main = "push"
      /\ main' \in MainSteps /\ shutdown' \in BOOLEAN
  BY DEF Stop, WakesUp, EmbedInv, TypeOK, MainSteps
<1>4. TypeOK' /\ Shape'
  BY <1>2, <1>3 DEF EmbedInv, TypeOK, Shape
<1>5. OneHolder'
  BY <1>2, <1>3, SameHolders DEF SameConns, EmbedInv
<1>6. NobodySleepsOverWork'
  BY <1>2, <1>3, StillAwake DEF EmbedInv
<1> QED
  BY <1>4, <1>5, <1>6 DEF EmbedInv

\* Everything is over: what was queued is closed.
LEMMA FinishStep ==
  ASSUME EmbedInv, Finish
  PROVE  EmbedInv'
<1>1. /\ main = "join" /\ main' = "ended" /\ queue' = <<>>
      /\ UNCHANGED <<talks, running, held, shutdown, worker>>
      /\ client' = [c \in Conns |-> IF Queued(c) \/ client[c] = "pending"
                                    THEN "none" ELSE client[c]]
  BY DEF Finish
<1>2. <<>> \in Seq(Conns) /\ Len(<<>>) = 0 /\ DOMAIN <<>> = {}
  OBVIOUS
<1>3. TypeOK'
  BY <1>1, <1>2 DEF EmbedInv, TypeOK, MainSteps
<1>4. Shape'
  BY <1>1 DEF EmbedInv, Shape, WorkersFit
<1>5. \A c \in Conns : ~Queued(c)'
  BY <1>1, <1>2 DEF Queued
<1>6. \A c \in Conns : client'[c] = "open" <=> client[c] = "open" /\ ~Queued(c)
  BY <1>1
<1>7. OneHolder'
  <2>1. \A c \in Conns : client'[c] = "open" <=>
          held' = c \/ Queued(c)' \/ \E w \in Workers : worker'[w].conn = c
    BY <1>1, <1>5, <1>6 DEF EmbedInv, OneHolder
  <2>2. \A w \in Workers : worker'[w].conn # NoConn =>
          /\ worker'[w].conn # held' /\ ~Queued(worker[w].conn)'
          /\ \A v \in Workers : worker'[v].conn = worker'[w].conn => v = w
    BY <1>1, <1>5 DEF EmbedInv, OneHolder, TypeOK, Threads
  <2>3. held' # NoConn => ~Queued(held)'
    BY <1>1, <1>5 DEF EmbedInv, TypeOK
  <2> QED
    BY <1>1, <1>2, <2>1, <2>2, <2>3 DEF OneHolder
<1>8. NobodySleepsOverWork'
  BY <1>1, <1>2, Counting DEF NobodySleepsOverWork
<1> QED
  BY <1>3, <1>4, <1>7, <1>8 DEF EmbedInv

\* A worker takes the descriptor at the head of the queue.
LEMMA TakeStep ==
  ASSUME EmbedInv, NEW w \in Workers, Take(w)
  PROVE  EmbedInv'
<1>0. PICK h \in Conns : h = Head(queue)
  <2>1. queue \in Seq(Conns) /\ queue # <<>>
    BY DEF EmbedInv, TypeOK, Take
  <2> QED
    BY <2>1
<1> DEFINE t == [at |-> "serve", conn |-> h, served |-> 0]
<1>1. /\ worker[w].at = "pop" /\ queue # <<>> /\ queue' = Tail(queue)
      /\ worker' = [worker EXCEPT ![w] = t]
      /\ UNCHANGED <<client, talks, running, main, held, shutdown>>
  BY <1>0 DEF Take, At
<1>2. queue \in Seq(Conns) /\ NoDuplicates /\ Len(queue) \in Nat
      /\ Len(queue) <= MaxQueueDepth
  BY DEF EmbedInv, TypeOK, OneHolder, NoDuplicates
<1>3. /\ queue' \in Seq(Conns) /\ Len(queue') = Len(queue) - 1 /\ NoDuplicates'
      /\ h \in Conns /\ Queued(h)
      /\ \A d \in Conns : Queued(d)' <=> Queued(d) /\ d # h
  BY <1>0, <1>1, <1>2, Popped
<1>4. t \in Threads /\ t.at = "serve" /\ t.conn = h /\ t.served = 0
  BY <1>3 DEF Threads, WorkerSteps
<1> HIDE DEF t
<1>5. WorkerIs(w, t)
  BY <1>1, <1>4, One DEF EmbedInv
<1>6. h # NoConn
  BY <1>3
<1>7. TypeOK'
  <2>1. Len(queue') <= MaxQueueDepth
    BY <1>2, <1>3
  <2> QED
    BY <1>1, <1>3, <1>5, <2>1 DEF WorkerIs, EmbedInv, TypeOK
<1>8. Shape'
  BY <1>1, <1>4, <1>5, <1>6 DEF WorkerIs, EmbedInv, Shape, WorkersFit
<1>9. OneHolder'
  <2>1. worker[w].conn = NoConn
    BY <1>1 DEF EmbedInv, Shape, WorkersFit
  <2>2. worker'[w].conn = h /\ \A v \in Workers \ {w} : worker'[v] = worker[v]
    BY <1>4, <1>5 DEF WorkerIs
  <2>3. \A d \in Conns : client'[d] = "open" <=>
          held' = d \/ Queued(d)' \/ \E v \in Workers : worker'[v].conn = d
    BY <1>1, <1>3, <2>1, <2>2 DEF EmbedInv, OneHolder
  <2>4. \A v \in Workers : worker[v].conn \in Conns \cup {NoConn}
    BY DEF EmbedInv, TypeOK, Threads
  <2>5. \A v \in Workers : worker[v].conn # h
    BY <1>3, <1>6 DEF EmbedInv, OneHolder
  <2>6. h # held /\ ~Queued(h)'
    BY <1>3, <1>6 DEF EmbedInv, OneHolder, TypeOK
  <2>7. \A u \in Workers : worker'[u].conn # NoConn =>
          /\ worker'[u].conn # held' /\ ~Queued(worker[u].conn)'
          /\ \A v \in Workers : worker'[v].conn = worker'[u].conn => v = u
    <3>1. ASSUME NEW u \in Workers \ {w}, worker[u].conn # NoConn
          PROVE  /\ worker[u].conn # held' /\ ~Queued(worker[u].conn)'
                 /\ \A v \in Workers : worker'[v].conn = worker[u].conn => v = u
      BY <1>1, <1>3, <2>2, <2>4, <2>5, <3>1 DEF EmbedInv, OneHolder
    <3>2. /\ h # held' /\ ~Queued(h)'
          /\ \A v \in Workers : worker'[v].conn = h => v = w
      BY <1>1, <2>2, <2>5, <2>6
    <3> QED
      BY <1>4, <2>2, <3>1, <3>2
  <2>8. held' # NoConn => ~Queued(held)'
    BY <1>1, <1>3 DEF EmbedInv, OneHolder, TypeOK
  <2> QED
    BY <1>3, <2>3, <2>7, <2>8 DEF OneHolder, NoDuplicates
<1>10. NobodySleepsOverWork'
  <2>1. Awake' = Awake \ {w} /\ w \in Awake
    BY <1>1, <1>4, <1>5 DEF WorkerIs, Awake, At
  <2>2. Waiting' = Waiting
    BY <1>1, <1>4, <1>5 DEF WorkerIs, Waiting, At
  <2>3. Cardinality(Awake') = Cardinality(Awake) - 1
    BY <2>1, Counting, FS_RemoveElement
  <2> QED
    BY <1>2, <1>3, <2>2, <2>3, Counting DEF EmbedInv, NobodySleepsOverWork
<1> QED
  BY <1>7, <1>8, <1>9, <1>10 DEF EmbedInv

\* A worker finds nothing, or goes on with the descriptor it has.
LEMMA WorkStep ==
  ASSUME EmbedInv, NEW w \in Workers, FindsNone(w) \/ Serve(w) \/ Hangup(w)
  PROVE  EmbedInv'
<1>1. UNCHANGED <<client, talks, running, main, held, queue, shutdown>>
  BY DEF FindsNone, Serve, Hangup
<1>2. worker[w] \in Threads /\ Len(queue) \in Nat
  BY DEF EmbedInv, TypeOK
<1>3. PICK t \in Threads :
        /\ worker' = [worker EXCEPT ![w] = t]
        /\ t.conn = worker[w].conn
        /\ t.conn # NoConn <=> t.at \in {"serve", "close"}
        /\ t.at = "serve" => t.served < MaxRequests
        /\ worker[w].at = "pop" => queue = <<>>
        /\ t.at = "wait" => queue = <<>>
  <2>1. CASE FindsNone(w)
    <3> DEFINE t == [worker[w] EXCEPT !.at = IF shutdown THEN "ended" ELSE "wait"]
    <3>1. worker' = [worker EXCEPT ![w] = t] /\ worker[w].at = "pop" /\ queue = <<>>
      BY <2>1 DEF FindsNone, EmbedInv, TypeOK, At
    <3>2. t \in Threads /\ t.conn = worker[w].conn /\ t.at \in {"ended", "wait"}
      BY <1>2 DEF Threads, WorkerSteps
    <3>3. t.conn = NoConn
      BY <3>1, <3>2 DEF EmbedInv, Shape, WorkersFit
    <3> QED
      BY <3>1, <3>2, <3>3
  <2>2. CASE Serve(w)
    <3> DEFINE n == worker[w].served + 1
               t == [worker[w] EXCEPT !.served = n,
                       !.at = IF n < MaxRequests THEN "serve" ELSE "close"]
    <3>1. worker' = [worker EXCEPT ![w] = t] /\ worker[w].at = "serve"
      BY <2>2 DEF Serve, EmbedInv, TypeOK, At
    <3>2. worker[w].served < MaxRequests /\ worker[w].conn # NoConn
      BY <3>1 DEF EmbedInv, Shape, WorkersFit
    <3>3. n \in 0..MaxRequests
      BY <1>2, <3>2 DEF Threads
    <3>4. /\ t \in Threads /\ t.conn = worker[w].conn /\ t.served = n
          /\ t.at = IF n < MaxRequests THEN "serve" ELSE "close"
      BY <1>2, <3>3 DEF Threads, WorkerSteps
    <3> HIDE DEF t
    <3>5. /\ t.at \in {"serve", "close"} /\ t.at = "serve" => t.served < MaxRequests
      BY <3>4
    <3> QED
      BY <3>1, <3>2, <3>4, <3>5
  <2>3. CASE Hangup(w)
    <3> DEFINE t == [worker[w] EXCEPT !.at = "close"]
    <3>1. worker' = [worker EXCEPT ![w] = t] /\ worker[w].at = "serve"
      BY <2>3 DEF Hangup, EmbedInv, TypeOK, At
    <3>2. t \in Threads /\ t.conn = worker[w].conn /\ t.at = "close"
      BY <1>2 DEF Threads, WorkerSteps
    <3> QED
      BY <3>1, <3>2 DEF EmbedInv, Shape, WorkersFit
  <2> QED
    BY <2>1, <2>2, <2>3
<1>4. WorkerIs(w, t)
  BY <1>3, One DEF EmbedInv
<1>5. TypeOK' /\ Shape'
  BY <1>1, <1>3, <1>4 DEF WorkerIs, EmbedInv, TypeOK, Shape, WorkersFit
<1>6. OneHolder'
  BY <1>1, <1>3, <1>4, SameHolders DEF WorkerIs, EmbedInv
<1>7. NobodySleepsOverWork'
  <2>1. CASE queue = <<>>
    <3>1. Len(queue') = 0
      BY <1>1, <2>1
    <3> QED
      BY <3>1, Counting DEF NobodySleepsOverWork
  <2>2. CASE queue # <<>>
    <3>1. worker[w].at # "pop" /\ t.at # "wait"
      BY <1>3, <2>2
    <3>2. Awake \subseteq Awake' /\ Waiting' \subseteq Waiting
      BY <1>4, <3>1 DEF WorkerIs, Awake, Waiting, At
    <3> QED
      BY <1>1, <3>2, StillAwake DEF EmbedInv
  <2> QED
    BY <2>1, <2>2
<1> QED
  BY <1>5, <1>6, <1>7 DEF EmbedInv

\* A worker closes its descriptor.
LEMMA CloseStep ==
  ASSUME EmbedInv, NEW w \in Workers, Close(w) \/ CloseEarly(w)
  PROVE  EmbedInv'
<1>1. /\ worker[w].at = "close" /\ Wake({w})
      /\ client' = [client EXCEPT ![worker[w].conn] = "none"]
      /\ UNCHANGED <<talks, running, main, held, queue, shutdown>>
  BY DEF Close, CloseEarly, Closes, At
<1>2. /\ worker' \in [Workers -> Threads] /\ worker'[w] = Popping
      /\ \A v \in Workers \ {w} : worker'[v] = worker[v]
  BY <1>1, Waking DEF EmbedInv
<1>3. Popping.at = "pop" /\ Popping.conn = NoConn
  BY DEF Popping
<1>4. PICK c \in Conns : c = worker[w].conn
  BY <1>1 DEF EmbedInv, Shape, WorkersFit, TypeOK, Threads
<1>5. TypeOK' /\ Shape'
  BY <1>1, <1>2, <1>3, <1>4 DEF EmbedInv, TypeOK, Shape, WorkersFit
<1>6. OneHolder'
  <2>1. client'[c] = "none" /\ \A d \in Conns \ {c} : client'[d] = client[d]
    BY <1>1, <1>4 DEF EmbedInv, TypeOK
  <2>2. /\ c # held /\ ~Queued(c)
        /\ \A v \in Workers : worker[v].conn = c => v = w
    BY <1>4 DEF EmbedInv, OneHolder
  <2>3. \A d \in Conns : Queued(d)' <=> Queued(d)
    BY <1>1 DEF Queued
  <2>4. \A d \in Conns : client'[d] = "open" <=>
          held' = d \/ Queued(d)' \/ \E v \in Workers : worker'[v].conn = d
    BY <1>1, <1>2, <1>3, <1>4, <2>1, <2>2, <2>3 DEF EmbedInv, OneHolder
  <2>5. \A u \in Workers : worker'[u].conn # NoConn =>
          /\ worker'[u].conn # held' /\ ~Queued(worker[u].conn)'
          /\ \A v \in Workers : worker'[v].conn = worker'[u].conn => v = u
    BY <1>1, <1>2, <1>3 DEF EmbedInv, OneHolder, Queued
  <2>6. /\ held' # NoConn => ~Queued(held)'
        /\ \A i, k \in DOMAIN queue' : queue'[i] = queue'[k] => i = k
    BY <1>1 DEF EmbedInv, OneHolder, Queued
  <2> QED
    BY <2>4, <2>5, <2>6 DEF OneHolder
<1>7. NobodySleepsOverWork'
  <2>1. Awake \subseteq Awake' /\ Waiting' \subseteq Waiting
    BY <1>1, <1>2, <1>3 DEF Awake, Waiting, At
  <2> QED
    BY <1>1, <2>1, StillAwake DEF EmbedInv
<1> QED
  BY <1>5, <1>6, <1>7 DEF EmbedInv

-----------------------------------------------------------------------------
\* The invariant of the service.
THEOREM EmbedInvariance == Spec => []EmbedInv
<1>1. Init => EmbedInv
  <2> SUFFICES ASSUME Init PROVE EmbedInv
    OBVIOUS
  <2>1. <<>> \in Seq(Conns) /\ Len(<<>>) = 0 /\ DOMAIN <<>> = {}
    OBVIOUS
  <2>2. Popping \in Threads /\ Popping.at = "pop" /\ Popping.conn = NoConn
    BY DEF Popping, Threads, WorkerSteps
  <2>3. TypeOK
    <3>1. client \in [Conns -> {"none", "pending", "open"}] /\ talks \in [Conns -> BOOLEAN]
      BY DEF Init
    <3>2. worker \in [Workers -> Threads]
      BY <2>2 DEF Init
    <3>3. queue \in Seq(Conns) /\ Len(queue) <= MaxQueueDepth
      BY <2>1 DEF Init
    <3> QED
      BY <3>1, <3>2, <3>3 DEF Init, TypeOK, MainSteps
  <2>4. Shape
    BY <2>2 DEF Init, Shape, WorkersFit
  <2>5. OneHolder
    BY <2>1, <2>2 DEF Init, OneHolder, Queued
  <2>6. NobodySleepsOverWork
    BY <2>1, Counting DEF Init, NobodySleepsOverWork
  <2> QED
    BY <2>3, <2>4, <2>5, <2>6 DEF EmbedInv
<1>2. ASSUME EmbedInv, [Next]_vars
      PROVE  EmbedInv'
  <2>1. CASE Test \/ AcceptFails \/ Signal \/ Ended \/ UNCHANGED vars
    BY <1>2, <2>1, QuietStep DEF Ended
  <2>2. ASSUME NEW c \in Conns, Connect(c) \/ Quit(c)
        PROVE  EmbedInv'
    BY <1>2, <2>2, QuietStep
  <2>3. CASE Accept \/ Reject
    BY <1>2, <2>3, AcceptStep
  <2>4. CASE Push
    BY <1>2, <2>4, PushStep
  <2>5. CASE Stop \/ Finish
    BY <1>2, <2>5, WakeStep, FinishStep
  <2>6. ASSUME NEW w \in Workers, Worker(w) \/ WakesUp(w) \/ CloseEarly(w)
        PROVE  EmbedInv'
    BY <1>2, <2>6, TakeStep, WorkStep, CloseStep, WakeStep DEF Worker
  <2> QED
    BY <1>2, <2>1, <2>2, <2>3, <2>4, <2>5, <2>6 DEF Next, Main
<1> QED
  BY <1>1, <1>2, PTL DEF Spec

\* Every variable keeps its type, and the queue its limit.
THEOREM EmbedTypes == Spec => []TypeOK
<1>1. EmbedInv => TypeOK
  BY DEF EmbedInv
<1> QED
  BY <1>1, EmbedInvariance, PTL

\* An open descriptor is with one thread or once in the queue.
THEOREM DescriptorsHaveOneHolder == Spec => []OneHolder
<1>1. EmbedInv => OneHolder
  BY DEF EmbedInv
<1> QED
  BY <1>1, EmbedInvariance, PTL

\* No worker sleeps while there is more in the queue than others will take.
THEOREM NoWakeupIsLost == Spec => []NobodySleepsOverWork
<1>1. EmbedInv => NobodySleepsOverWork
  BY DEF EmbedInv
<1> QED
  BY <1>1, EmbedInvariance, PTL

-----------------------------------------------------------------------------
(* The shutdown. *)

\* Once the flag is set nobody waits and nothing is pushed, so a worker that
\* ends has found the queue empty for good.
Ending ==
  /\ shutdown <=> main \in {"join", "ended"}
  /\ shutdown => Waiting = {}
  /\ \A w \in Workers : At(w, "ended") => shutdown /\ queue = <<>>

AllEnded ==
  main = "ended" =>
    /\ \A c \in Conns : client[c] = "none"
    /\ \A w \in Workers : At(w, "ended")

\* The main thread outside of the shutdown changes neither the flag nor a
\* worker, except that a push wakes one.
LEMMA MainEnding ==
  ASSUME EmbedInv, Ending, AllEnded, Test \/ Accept \/ AcceptFails \/ Push \/ Reject
  PROVE  Ending' /\ AllEnded'
<1>1. /\ main \in {"test", "accept", "push"} /\ ~shutdown /\ shutdown' = shutdown
      /\ main' \in {"test", "accept", "push", "stop"}
  BY DEF Test, Accept, AcceptFails, Push, Reject, Ending
<1>2. \A w \in Workers : ~At(w, "ended")'
  <2>1. CASE Push
    <3>1. worker' = worker \/ \E w \in Waiting : Wake({w})
      BY <2>1 DEF Push, WakeOne
    <3> QED
      BY <1>1, <3>1 DEF Ending, At, Wake, Popping
  <2>2. CASE Test \/ Accept \/ AcceptFails \/ Reject
    BY <1>1, <2>2 DEF Test, Accept, AcceptFails, Reject, Ending, At
  <2> QED
    BY <2>1, <2>2
<1> QED
  BY <1>1, <1>2 DEF Ending, AllEnded

\* The broadcast leaves no worker waiting.
LEMMA StopEnding ==
  ASSUME EmbedInv, Ending, AllEnded, Stop
  PROVE  Ending' /\ AllEnded'
<1>1. main' = "join" /\ shutdown' /\ ~shutdown /\ Wake(Waiting)
  BY DEF Stop, Ending
<1>2. Waiting' = {} /\ \A w \in Workers : ~At(w, "ended")'
  BY <1>1 DEF Ending, At, Wake, Popping, Waiting
<1> QED
  BY <1>1, <1>2 DEF Ending, AllEnded

\* When all workers have ended no descriptor is with a thread, so the queue and
\* the backlog are all there is to close.
LEMMA FinishEnding ==
  ASSUME EmbedInv, Ending, AllEnded, Finish
  PROVE  Ending' /\ AllEnded'
<1>1. /\ main = "join" /\ main' = "ended" /\ shutdown' = shutdown /\ shutdown
      /\ worker' = worker /\ queue' = <<>>
      /\ \A w \in Workers : At(w, "ended")
  BY DEF Finish, Ending
<1>2. held = NoConn /\ \A w \in Workers : worker[w].conn = NoConn
  <2>1. \A w \in Workers : worker[w].conn \in Conns \cup {NoConn}
    BY DEF EmbedInv, TypeOK, Threads
  <2> QED
    BY <1>1, <2>1 DEF EmbedInv, Shape, WorkersFit, At
<1>3. \A c \in Conns : client[c] = "open" => Queued(c)
  BY <1>2 DEF EmbedInv, OneHolder
<1>4. \A c \in Conns : client'[c] = "none"
  <2>1. \A c \in Conns : client[c] \in {"none", "pending", "open"}
    BY DEF EmbedInv, TypeOK
  <2> QED
    BY <1>3, <2>1 DEF Finish
<1> QED
  BY <1>1, <1>4 DEF Ending, AllEnded, Waiting, At

\* A worker ends on an empty queue under the flag and waits only without it.
LEMMA WorkerEnding ==
  ASSUME EmbedInv, Ending, AllEnded, NEW w \in Workers,
         Worker(w) \/ WakesUp(w) \/ CloseEarly(w)
  PROVE  Ending' /\ AllEnded'
<1>1. UNCHANGED <<main, shutdown>> /\ ~At(w, "ended")
  BY DEF Worker, Take, FindsNone, Serve, Hangup, Close, Closes, WakesUp, CloseEarly, At
<1>2. main # "ended"
  BY <1>1 DEF AllEnded
<1>3. \A v \in Workers \ {w} : worker'[v] = worker[v]
  BY DEF Worker, Take, FindsNone, Serve, Hangup, Close, Closes, WakesUp, CloseEarly, Wake,
         EmbedInv, TypeOK
<1>4. queue = <<>> => queue' = <<>>
  BY DEF Worker, Take, FindsNone, Serve, Hangup, Close, Closes, WakesUp, CloseEarly
<1>5. /\ worker'[w].at = "ended" => shutdown /\ queue = <<>>
      /\ worker'[w].at = "wait" => ~shutdown
  <2>1. worker[w] \in Threads
    BY DEF EmbedInv, TypeOK
  <2>2. CASE FindsNone(w)
    BY <2>1, <2>2 DEF FindsNone, EmbedInv, TypeOK
  <2>3. CASE Take(w) \/ Serve(w) \/ Hangup(w)
    <3>1. worker'[w].at \in {"serve", "close"}
      BY <2>1, <2>3 DEF Take, Serve, Hangup, EmbedInv, TypeOK, Threads, WorkerSteps
    <3> QED
      BY <3>1
  <2>4. CASE Close(w) \/ WakesUp(w) \/ CloseEarly(w)
    BY <2>4 DEF Close, CloseEarly, Closes, WakesUp, Wake, Popping
  <2> QED
    BY <2>2, <2>3, <2>4 DEF Worker
<1> QED
  BY <1>1, <1>2, <1>3, <1>4, <1>5 DEF Ending, AllEnded, Waiting, At

\* Clients do not come once main has returned.
LEMMA ClientEnding ==
  ASSUME EmbedInv, Ending, AllEnded,
         \/ \E c \in Conns : Connect(c) \/ Quit(c)
         \/ Signal \/ UNCHANGED vars
  PROVE  Ending' /\ AllEnded'
<1>1. UNCHANGED <<queue, shutdown, worker>>
  BY DEF Connect, Quit, Signal, vars
<1>2. /\ main' = "ended" => main = "ended" /\ client' = client
      /\ main' \in {"join", "ended"} <=> main \in {"join", "ended"}
  BY DEF Connect, Quit, Signal, vars
<1> QED
  BY <1>1, <1>2 DEF Ending, AllEnded, Waiting, At

\* A worker ends only when all that was accepted has been served, and when main
\* returns no descriptor is left, whenever the signal came.
ShutdownIsClean ==
  /\ \A w \in Workers : At(w, "ended") => queue = <<>>
  /\ main = "ended" => \A c \in Conns : client[c] = "none"

\* A shutdown of the service (main.c, queue_shutdown and queue_destroy) drops no
\* accepted connection and leaks no descriptor.
THEOREM ShutdownsAreClean == Spec => []ShutdownIsClean
<1>1. Init => Ending /\ AllEnded
  BY DEF Init, Ending, AllEnded, Waiting, At, Popping
<1>2. EmbedInv /\ Ending /\ AllEnded /\ [Next]_vars => Ending' /\ AllEnded'
  BY MainEnding, StopEnding, FinishEnding, WorkerEnding, ClientEnding
     DEF Next, Main, Ended
<1>3. Ending /\ AllEnded => ShutdownIsClean
  BY DEF Ending, AllEnded, ShutdownIsClean
<1> QED
  BY <1>1, <1>2, <1>3, EmbedInvariance, PTL DEF Spec
=============================================================================
