----------------------------- MODULE EmbedService ------------------------------
(***************************************************************************)
(* The connections of the embed-service (embed-service/main.c): the main   *)
(* thread accepts them and puts them in a bounded queue, worker threads    *)
(* take them out and serve them, and a signal ends it all.  What is done   *)
(* under the mutex of the queue is one step; to wait for the condition     *)
(* variable releases it.                                                   *)
(*                                                                         *)
(* A client stays until it hangs up, which stands for a silence as long as *)
(* the timeout of recv as well.  Descriptors are used again.               *)
(***************************************************************************)
EXTENDS Naturals, Sequences, FiniteSets

CONSTANTS
  Conns,         \* client_fd, with the client at its other end
  NoConn,
  Workers,
  MaxQueueDepth, \* MAX_QUEUE_DEPTH
  MaxRequests    \* KEEPALIVE_MAX_REQUESTS

ASSUME EmbedAssumption ==
  /\ NoConn \notin Conns
  /\ IsFiniteSet(Workers)
  /\ MaxQueueDepth \in Nat
  /\ MaxRequests \in Nat \ {0}

VARIABLES
  client,    \* of each descriptor: there is none, it is in the backlog, or open
  talks,     \* whether the client may still send
  running,   \* g_running
  main,      \* what the main thread does next
  held,      \* the descriptor it has just accepted, or NoConn
  queue,     \* the descriptors in g_queue
  shutdown,  \* its shutdown flag
  worker     \* what the workers do

vars == <<client, talks, running, main, held, queue, shutdown, worker>>

MainSteps == {"test", "accept", "push", "stop", "join", "ended"}

\* pop: it is about to look at the queue.  wait: for the condition variable.
WorkerSteps == {"pop", "wait", "serve", "close", "ended"}

Threads == [at : WorkerSteps, conn : Conns \cup {NoConn}, served : 0..MaxRequests]

Popping == [at |-> "pop", conn |-> NoConn, served |-> 0]

Init ==
  /\ client = [c \in Conns |-> "none"]
  /\ talks = [c \in Conns |-> FALSE]
  /\ running = TRUE
  /\ main = "test"
  /\ held = NoConn
  /\ queue = <<>>
  /\ shutdown = FALSE
  /\ worker = [w \in Workers |-> Popping]

-----------------------------------------------------------------------------
At(w, step) == worker[w].at = step

Waiting == {w \in Workers : At(w, "wait")}

Awake == {w \in Workers : At(w, "pop")}

Queued(c) == \E i \in DOMAIN queue : queue[i] = c

Wake(W) == worker' = [w \in Workers |-> IF w \in W THEN Popping ELSE worker[w]]

\* pthread_cond_signal.
WakeOne ==
  \/ \E w \in Waiting : Wake({w})
  \/ Waiting = {} /\ UNCHANGED worker

-----------------------------------------------------------------------------
(* The main thread. *)

Test ==
  /\ main = "test"
  /\ main' = IF running THEN "accept" ELSE "stop"
  /\ UNCHANGED <<client, talks, running, held, queue, shutdown, worker>>

Accept ==
  /\ main = "accept"
  /\ \E c \in Conns :
       /\ client[c] = "pending"
       /\ client' = [client EXCEPT ![c] = "open"]
       /\ held' = c
  /\ main' = "push"
  /\ UNCHANGED <<talks, running, queue, shutdown, worker>>

AcceptFails ==
  /\ main = "accept"
  /\ main' = "test"
  /\ UNCHANGED <<client, talks, running, held, queue, shutdown, worker>>

HasRoomForOneMore == Len(queue) <= MaxQueueDepth

HasRoom == Len(queue) < MaxQueueDepth

PushSignalsFirst ==
  /\ main = "push" /\ HasRoom
  /\ queue' = Append(queue, held)
  /\ IF queue = <<>> THEN WakeOne ELSE UNCHANGED worker
  /\ held' = NoConn
  /\ main' = "test"
  /\ UNCHANGED <<client, talks, running, shutdown>>

Push ==
  /\ main = "push" /\ HasRoom
  /\ queue' = Append(queue, held)
  /\ WakeOne
  /\ held' = NoConn
  /\ main' = "test"
  /\ UNCHANGED <<client, talks, running, shutdown>>

RejectUnclosed ==
  /\ main = "push"
  /\ held' = NoConn
  /\ main' = "test"
  /\ UNCHANGED <<client, talks, running, queue, shutdown, worker>>

\* The queue is full, or malloc failed: 503.
Reject ==
  /\ main = "push"
  /\ client' = [client EXCEPT ![held] = "none"]
  /\ held' = NoConn
  /\ main' = "test"
  /\ UNCHANGED <<talks, running, queue, shutdown, worker>>

StopSignals ==
  /\ main = "stop"
  /\ shutdown' = TRUE
  /\ WakeOne
  /\ main' = "join"
  /\ UNCHANGED <<client, talks, running, held, queue>>

\* queue_shutdown.
Stop ==
  /\ main = "stop"
  /\ shutdown' = TRUE
  /\ Wake(Waiting)
  /\ main' = "join"
  /\ UNCHANGED <<client, talks, running, held, queue>>

\* All workers are joined; queue_destroy closes what is left, and the backlog
\* goes with the socket.
Finish ==
  /\ main = "join"
  /\ \A w \in Workers : At(w, "ended")
  /\ client' = [c \in Conns |-> IF Queued(c) \/ client[c] = "pending"
                                THEN "none" ELSE client[c]]
  /\ queue' = <<>>
  /\ main' = "ended"
  /\ UNCHANGED <<talks, running, held, shutdown, worker>>

Main ==
  Test \/ Accept \/ AcceptFails \/ Push \/ Reject \/ Stop \/ Finish

-----------------------------------------------------------------------------
(* A worker. *)

\* queue_pop, from the lock or from a wakeup on.
Take(w) ==
  /\ At(w, "pop") /\ queue # <<>>
  /\ worker' = [worker EXCEPT ![w] =
                  [at |-> "serve", conn |-> Head(queue), served |-> 0]]
  /\ queue' = Tail(queue)
  /\ UNCHANGED <<client, talks, running, main, held, shutdown>>

FindsNone(w) ==
  /\ At(w, "pop") /\ queue = <<>>
  /\ worker' = [worker EXCEPT ![w].at = IF shutdown THEN "ended" ELSE "wait"]
  /\ UNCHANGED <<client, talks, running, main, held, queue, shutdown>>

\* pthread_cond_wait may return without a signal.
WakesUp(w) ==
  /\ At(w, "wait")
  /\ Wake({w})
  /\ UNCHANGED <<client, talks, running, main, held, queue, shutdown>>

\* handle_connection: a request is answered.
Serve(w) ==
  /\ At(w, "serve") /\ talks[worker[w].conn]
  /\ worker' = [worker EXCEPT
                 ![w].served = @ + 1,
                 ![w].at = IF worker[w].served + 1 < MaxRequests
                           THEN "serve" ELSE "close"]
  /\ UNCHANGED <<client, talks, running, main, held, queue, shutdown>>

\* recv ends, or what it got is no request.
Hangup(w) ==
  /\ At(w, "serve")
  /\ worker' = [worker EXCEPT ![w].at = "close"]
  /\ UNCHANGED <<client, talks, running, main, held, queue, shutdown>>

Closes(w) ==
  /\ client' = [client EXCEPT ![worker[w].conn] = "none"]
  /\ Wake({w})
  /\ UNCHANGED <<talks, running, main, held, queue, shutdown>>

\* What the client still sends is read before the descriptor is closed.
Close(w) == At(w, "close") /\ ~talks[worker[w].conn] /\ Closes(w)

\* A signal that the worker handles ends that.
CloseEarly(w) == At(w, "close") /\ ~running /\ Closes(w)

Worker(w) == Take(w) \/ FindsNone(w) \/ Serve(w) \/ Hangup(w) \/ Close(w)

-----------------------------------------------------------------------------
(* Clients and signals. *)

Connect(c) ==
  /\ client[c] = "none" /\ main # "ended"
  /\ client' = [client EXCEPT ![c] = "pending"]
  /\ talks' = [talks EXCEPT ![c] = TRUE]
  /\ UNCHANGED <<running, main, held, queue, shutdown, worker>>

Quit(c) ==
  /\ talks[c]
  /\ talks' = [talks EXCEPT ![c] = FALSE]
  /\ UNCHANGED <<client, running, main, held, queue, shutdown, worker>>

\* The handler runs in any thread; only in the main thread it ends accept.
Signal ==
  /\ main # "ended"
  /\ running' = FALSE
  /\ main' \in IF main = "accept" THEN {"accept", "test"} ELSE {main}
  /\ UNCHANGED <<client, talks, held, queue, shutdown, worker>>

Ended == main = "ended" /\ UNCHANGED vars

Next ==
  \/ Main
  \/ \E w \in Workers : Worker(w) \/ WakesUp(w) \/ CloseEarly(w)
  \/ \E c \in Conns : Connect(c) \/ Quit(c)
  \/ Signal
  \/ Ended

Spec == Init /\ [][Next]_vars

(***************************************************************************)
(* Threads are scheduled, and no client sends for ever.  Nothing makes     *)
(* accept fail, a wait end without a signal, or a client connect.          *)
(***************************************************************************)
Fairness ==
  /\ WF_vars(Test \/ Accept \/ Push \/ Reject \/ Stop \/ Finish)
  /\ \A w \in Workers : WF_vars(Worker(w))
  /\ \A c \in Conns : WF_vars(Quit(c))

FairSpec == Spec /\ Fairness

-----------------------------------------------------------------------------
TypeOK ==
  /\ client \in [Conns -> {"none", "pending", "open"}]
  /\ talks \in [Conns -> BOOLEAN]
  /\ running \in BOOLEAN
  /\ main \in MainSteps
  /\ held \in Conns \cup {NoConn}
  /\ queue \in Seq(Conns) /\ Len(queue) <= MaxQueueDepth
  /\ shutdown \in BOOLEAN
  /\ worker \in [Workers -> Threads]

(***************************************************************************)
(* An open descriptor is in one place: with the main thread, once in the   *)
(* queue, or with one worker.  So none is leaked, whatever fails, and none *)
(* is served by two threads or closed twice, after it was used again.      *)
(***************************************************************************)
OneHolder ==
  /\ \A c \in Conns :
       client[c] = "open" <=>
         held = c \/ Queued(c) \/ \E w \in Workers : worker[w].conn = c
  /\ \A i, k \in DOMAIN queue : queue[i] = queue[k] => i = k
  /\ held # NoConn => ~Queued(held)
  /\ \A w \in Workers :
       worker[w].conn # NoConn =>
         /\ worker[w].conn # held /\ ~Queued(worker[w].conn)
         /\ \A v \in Workers : worker[v].conn = worker[w].conn => v = w

(***************************************************************************)
(* No wakeup is lost: while a worker waits, each descriptor in the queue   *)
(* has a worker that is about to look at it, though workers that were not  *)
(* signalled may take it first and waits may end by themselves.            *)
(***************************************************************************)
NobodySleepsOverWork == Waiting # {} => Len(queue) <= Cardinality(Awake)

(***************************************************************************)
(* A descriptor in the queue is served and closed in the end, during a     *)
(* shutdown as well, and a shutdown that has begun ends.                   *)
(***************************************************************************)
WorkEnds ==
  /\ \A c \in Conns : Queued(c) ~> client[c] # "open"
  /\ main = "join" ~> main = "ended"
=============================================================================
