------------------------------ MODULE TenantPool ------------------------------
(***************************************************************************)
(* The pool of tenant databases of the memory server                       *)
(* (internal/tenant/pool.go) and those who ask it for a handle: requests   *)
(* that the middleware resolves to a tenant, tasks of the upload worker,   *)
(* and Provision (internal/service/tenant.go), which makes the tenants.    *)
(*                                                                         *)
(* Get is cut where it waits: for a ping, for the lock, for Close.  Only   *)
(* the first ping of a new handle is made under the lock, so the lock is   *)
(* taken exactly while some caller is at "open"; the other critical        *)
(* sections are one step.  A handle (an sql.DB) is shared by all callers   *)
(* of its tenant and does not know who uses it.                            *)
(***************************************************************************)
EXTENDS Naturals, FiniteSets

CONSTANTS
  Tenants,
  Zero,         \* the tenants whose provider is tidb_zero
  Existing,     \* the tenants from before this server started
  Callers,      \* goroutines that call Get: requests and tasks
  Handles,      \* bound: handles in memory at a time
  NoHandle,
  TotalLimit,   \* PoolConfig.TotalLimit
  IdleTimeout,  \* PoolConfig.IdleTimeout
  Horizon       \* bound: the clock stops here

ASSUME PoolAssumption ==
  /\ Zero \subseteq Tenants /\ Existing \subseteq Tenants
  /\ Tenants # {}
  /\ IsFiniteSet(Tenants)
  /\ NoHandle \notin Handles
  /\ TotalLimit \in Nat /\ IdleTimeout \in Nat /\ Horizon \in Nat

VARIABLES
  now,
  conns,     \* the pool's map
  open,      \* the handles that are open
  sweep,     \* evictIdle: where it is, and the time it works with
  evicted,   \* its toClose
  server,    \* "up"; "ending": told to shut down; "down": Close has the map
  drained,   \* what Close has left to close
  record,    \* the tenants table of the control database
  schema,    \* the tables in a tenant's own database
  request    \* what a caller is doing

vars == <<now, conns, open, sweep, evicted, server, drained, record, schema,
          request>>

pool == <<conns, open, evicted, drained>>

Waits == {"lookup", "ping", "touch", "remove", "close", "lock", "open"}

\* "stray": Get has returned a handle that the map did not hold any more.
Steps == Waits \cup {"idle", "register", "use", "stray", "version", "activate"}

Requests == [op : {"serve", "provision"}, tenant : Tenants, at : Steps,
             handle : Handles \cup {NoHandle}, since : 0..Horizon]

Records == [status : {"none", "provisioning", "active"}, version : 0..1]

Conns == [db : Handles \cup {NoHandle}, lastUsed : 0..Horizon]

NoConn == [db |-> NoHandle, lastUsed |-> 0]

NoRequest == [op |-> "serve", tenant |-> CHOOSE t \in Tenants : TRUE,
              at |-> "idle", handle |-> NoHandle, since |-> 0]

Init ==
  /\ now = 0
  /\ conns = [t \in Tenants |-> NoConn]
  /\ open = {}
  /\ sweep = [at |-> "idle", time |-> 0]
  /\ evicted = {}
  /\ server = "up"
  /\ drained = {}
  /\ record = [t \in Tenants |->
                IF t \in Existing THEN [status |-> "active", version |-> 1]
                                  ELSE [status |-> "none", version |-> 0]]
  /\ schema = [t \in Tenants |-> IF t \in Existing THEN "whole" ELSE "none"]
  /\ request = [c \in Callers |-> NoRequest]

-----------------------------------------------------------------------------
At(c, step) == request[c].at = step

Tenant(c) == request[c].tenant

Handle(c) == request[c].handle

InUse(c) == request[c].at \in {"use", "stray"}

LockedByAsking == \E c \in Callers : request[c].at \in {"open", "lock"}

Locked == \E c \in Callers : At(c, "open")

DB(t) == conns[t].db

Cached(t) == DB(t) # NoHandle

Pooled == {DB(t) : t \in Tenants} \ {NoHandle}

Size == Cardinality({t \in Tenants : Cached(t)})

Free(h) == h \notin open /\ \A c \in Callers : Handle(c) # h

Goes(c, at, h) == request' = [request EXCEPT ![c].at = at, ![c].handle = h]

\* Get returns h, or an error.
Returns(c, at, h) ==
  request' = [request EXCEPT ![c].at = at, ![c].handle = h, ![c].since = now]

\* It returns h, which the map holds with a new time.
Uses(c, h) ==
  /\ conns' = [conns EXCEPT ![Tenant(c)] = [db |-> h, lastUsed |-> now]]
  /\ Returns(c, "use", h)

Over(c) == request' = [request EXCEPT ![c] = NoRequest]

Asks(c, op, t, at) ==
  request' = [request EXCEPT ![c] = [op |-> op, tenant |-> t, at |-> at,
                                     handle |-> NoHandle, since |-> 0]]

-----------------------------------------------------------------------------
(* Get. *)

Lookup(c) ==
  /\ At(c, "lookup") /\ ~Locked
  /\ Goes(c, IF Cached(Tenant(c)) THEN "ping" ELSE "lock", DB(Tenant(c)))
  /\ UNCHANGED <<now, pool, sweep, server, record, schema>>

\* A ping fails on a closed handle, on a tenant that is out of reach and for a
\* caller whose own context is over.
Ping(c) ==
  /\ At(c, "ping")
  /\ \/ Handle(c) \in open /\ Goes(c, "touch", Handle(c))
     \/ Goes(c, "remove", NoHandle)
  /\ UNCHANGED <<now, pool, sweep, server, record, schema>>

Touch(c) ==
  /\ At(c, "touch") /\ ~Locked
  /\ \/ Cached(Tenant(c)) /\ Uses(c, DB(Tenant(c)))
     \/ ~Cached(Tenant(c)) /\ Returns(c, "stray", Handle(c)) /\ conns' = conns
  /\ UNCHANGED <<now, open, evicted, drained, sweep, server, record, schema>>

RemoveUnlinked(c) ==
  /\ At(c, "remove") /\ ~Locked
  /\ conns' = [conns EXCEPT ![Tenant(c)] = NoConn]
  /\ Goes(c, "lock", NoHandle)
  /\ UNCHANGED <<now, open, evicted, drained, sweep, server, record, schema>>

\* Whatever handle the map has by now, which need not be the one that failed.
Remove(c) ==
  /\ At(c, "remove") /\ ~Locked
  /\ conns' = [conns EXCEPT ![Tenant(c)] = NoConn]
  /\ Goes(c, IF Cached(Tenant(c)) THEN "close" ELSE "lock", DB(Tenant(c)))
  /\ UNCHANGED <<now, open, evicted, drained, sweep, server, record, schema>>

CloseRemoved(c) ==
  /\ At(c, "close")
  /\ open' = open \ {Handle(c)}
  /\ Goes(c, "lock", NoHandle)
  /\ UNCHANGED <<now, conns, evicted, drained, sweep, server, record, schema>>

HitUntouched(c) ==
  /\ Cached(Tenant(c))
  /\ Returns(c, "use", DB(Tenant(c)))
  /\ UNCHANGED <<conns, open>>

Hit(c) ==
  /\ Cached(Tenant(c))
  /\ Uses(c, DB(Tenant(c)))
  /\ open' = open

\* The limit is reached, or the DSN does not parse.
Refused(c) ==
  /\ ~Cached(Tenant(c))
  /\ Over(c)
  /\ UNCHANGED <<conns, open>>

HasRoomForOneMore == Size <= TotalLimit

HasRoom == Size < TotalLimit

Opens(c) ==
  /\ ~Cached(Tenant(c))
  /\ HasRoom
  /\ \E h \in Handles :
       /\ Free(h)
       /\ open' = open \cup {h}
       /\ Goes(c, "open", h)
  /\ conns' = conns

Lock(c) ==
  /\ At(c, "lock") /\ ~Locked
  /\ Hit(c) \/ Refused(c) \/ Opens(c)
  /\ UNCHANGED <<now, evicted, drained, sweep, server, record, schema>>

OpenSucceeds(c) ==
  /\ At(c, "open")
  /\ Uses(c, Handle(c))
  /\ UNCHANGED <<now, open, evicted, drained, sweep, server, record, schema>>

OpenFails(c) ==
  /\ At(c, "open")
  /\ open' = open \ {Handle(c)}
  /\ Over(c)
  /\ UNCHANGED <<now, conns, evicted, drained, sweep, server, record, schema>>

-----------------------------------------------------------------------------
(* Those who call Get. *)

AdmittedOnceRegistered(t) == record[t].status # "none"

Admitted(t) ==
  \/ record[t].status = "active"
  \/ record[t].status # "none" /\ t \notin Zero

\* A request that the middleware lets through, or a task.
Serve(c, t) ==
  /\ At(c, "idle") /\ server = "up"
  /\ Admitted(t)
  /\ Asks(c, "serve", t, "lookup")
  /\ UNCHANGED <<now, pool, sweep, server, record, schema>>

Served(c) ==
  /\ InUse(c) /\ request[c].op = "serve"
  /\ Over(c)
  /\ UNCHANGED <<now, pool, sweep, server, record, schema>>

\* The provisioner returns a new cluster.  The clusters of the other provider
\* come from a pool and have their tables.
Provision(c, t) ==
  /\ At(c, "idle") /\ server = "up"
  /\ record[t].status = "none" /\ schema[t] = "none"
  /\ schema' = [schema EXCEPT ![t] = IF t \in Zero THEN "empty" ELSE "whole"]
  /\ Asks(c, "provision", t, "register")
  /\ UNCHANGED <<now, pool, sweep, server, record>>

\* An error may hide a statement that took effect.
Writes(c, t, r, next) ==
  \/ record' = [record EXCEPT ![t] = r] /\ next
  \/ record' \in {record, [record EXCEPT ![t] = r]} /\ Over(c)

Register(c) ==
  /\ At(c, "register")
  /\ Writes(c, Tenant(c), [status |-> "provisioning", version |-> 0],
            Goes(c, "lookup", NoHandle))
  /\ UNCHANGED <<now, pool, sweep, server, schema>>

\* Several statements, none of which can be taken back.
InitSchema(c) ==
  LET t == Tenant(c)
  IN
    /\ InUse(c) /\ request[c].op = "provision"
    /\ \/ /\ Handle(c) \in open \/ t \notin Zero
          /\ schema' = [schema EXCEPT ![t] = "whole"]
          /\ Goes(c, "version", NoHandle)
       \/ /\ t \in Zero
          /\ schema' \in {schema, [schema EXCEPT ![t] = "part"],
                          [schema EXCEPT ![t] = "whole"]}
          /\ Over(c)
    /\ UNCHANGED <<now, pool, sweep, server, record>>

SetVersion(c) ==
  /\ At(c, "version")
  /\ Writes(c, Tenant(c), [record[Tenant(c)] EXCEPT !.version = 1],
            Goes(c, "activate", NoHandle))
  /\ UNCHANGED <<now, pool, sweep, server, schema>>

Activate(c) ==
  /\ At(c, "activate")
  /\ Writes(c, Tenant(c), [record[Tenant(c)] EXCEPT !.status = "active"],
            Over(c))
  /\ UNCHANGED <<now, pool, sweep, server, schema>>

-----------------------------------------------------------------------------
(* evictIdle takes the time before it waits for the lock.  Close is what    *)
(* main defers: ListenAndServe returns as soon as Shutdown is called, and   *)
(* the requests that Shutdown waits for are still there.                    *)

SweepBegins ==
  /\ sweep.at = "idle"
  /\ sweep' = [at |-> "lock", time |-> now]
  /\ UNCHANGED <<now, pool, server, record, schema, request>>

IsIdleTooSoon(t) == conns[t].lastUsed + IdleTimeout <= sweep.time

IsIdle(t) == conns[t].lastUsed + IdleTimeout < sweep.time

SweepCollects ==
  LET idle == {t \in Tenants : Cached(t) /\ IsIdle(t)}
  IN
    /\ sweep.at = "lock" /\ ~Locked
    /\ conns' = [t \in Tenants |-> IF t \in idle THEN NoConn ELSE conns[t]]
    /\ evicted' = {DB(t) : t \in idle}
    /\ sweep' = [at |-> "close", time |-> 0]
    /\ UNCHANGED <<now, open, drained, server, record, schema, request>>

SweepCloses ==
  /\ sweep.at = "close"
  /\ \/ \E h \in evicted :
          /\ open' = open \ {h}
          /\ evicted' = evicted \ {h}
          /\ sweep' = sweep
     \/ /\ evicted = {}
        /\ sweep' = [at |-> "idle", time |-> 0]
        /\ UNCHANGED <<open, evicted>>
  /\ UNCHANGED <<now, conns, drained, server, record, schema, request>>

Shutdown ==
  /\ server = "up"
  /\ server' = "ending"
  /\ UNCHANGED <<now, pool, sweep, record, schema, request>>

CloseWithNil ==
  /\ server = "ending" /\ ~Locked
  /\ server' = "down"
  /\ conns' = [t \in Tenants |-> NoConn]
  /\ drained' = {DB(t) : t \in Tenants}
  /\ UNCHANGED <<now, open, evicted, sweep, record, schema, request>>

Close ==
  /\ server = "ending" /\ ~Locked
  /\ server' = "down"
  /\ conns' = [t \in Tenants |-> NoConn]
  /\ drained' = Pooled
  /\ UNCHANGED <<now, open, evicted, sweep, record, schema, request>>

CloseCloses ==
  /\ \E h \in drained : open' = open \ {h} /\ drained' = drained \ {h}
  /\ UNCHANGED <<now, conns, evicted, sweep, server, record, schema,
                 request>>

Tick ==
  /\ now < Horizon
  /\ now' = now + 1
  /\ UNCHANGED <<pool, sweep, server, record, schema, request>>

-----------------------------------------------------------------------------
Answers(c) == Ping(c) \/ CloseRemoved(c) \/ OpenSucceeds(c) \/ OpenFails(c)

Locks(c) == Lookup(c) \/ Touch(c) \/ Remove(c) \/ Lock(c)

Caller(c) ==
  \/ Answers(c)
  \/ Locks(c)
  \/ Served(c)
  \/ Register(c)
  \/ InitSchema(c)
  \/ SetVersion(c)
  \/ Activate(c)
  \/ \E t \in Tenants : Serve(c, t) \/ Provision(c, t)

Next ==
  \/ \E c \in Callers : Caller(c)
  \/ SweepBegins
  \/ SweepCollects
  \/ SweepCloses
  \/ Shutdown
  \/ Close
  \/ CloseCloses
  \/ Tick

Spec == Init /\ [][Next]_vars

\* A ping ends, if only by the end of its connection, and so does Close.  A
\* sync.RWMutex starves nobody.
FairSpec ==
  /\ Spec
  /\ \A c \in Callers : WF_vars(Answers(c)) /\ SF_vars(Locks(c))

-----------------------------------------------------------------------------
TypeOK ==
  /\ now \in 0..Horizon
  /\ conns \in [Tenants -> Conns]
  /\ open \subseteq Handles
  /\ sweep \in [at : {"idle", "lock", "close"}, time : 0..Horizon]
  /\ evicted \subseteq Handles
  /\ server \in {"up", "ending", "down"}
  /\ drained \subseteq Handles
  /\ record \in [Tenants -> Records]
  /\ schema \in [Tenants -> {"none", "empty", "part", "whole"}]
  /\ request \in [Callers -> Requests]

Owns(c) == IF request[c].at \in {"open", "close"} THEN {Handle(c)} ELSE {}

Closing == UNION {Owns(c) : c \in Callers}

\* Whatever pings fail and whoever comes in between the steps of Get, an open
\* handle is in the map or is one goroutine's to close, never both and never
\* two goroutines', and nothing else is open: no connection pool is leaked or
\* closed twice.
OneOwner ==
  /\ open = Pooled \cup evicted \cup drained \cup Closing
  /\ Pooled \cap (evicted \cup drained) = {} /\ evicted \cap drained = {}
  /\ \A c \in Callers :
       /\ Owns(c) \cap (Pooled \cup evicted \cup drained) = {}
       /\ \A d \in Callers \ {c} : Owns(c) \cap Owns(d) = {}
  /\ \A t, u \in Tenants : Cached(t) /\ DB(t) = DB(u) => t = u

\* The limit counts the handle that is being opened as well: it is tested and
\* the handle inserted in one hold of the lock, however long the ping takes.
LimitHolds ==
  /\ Size <= TotalLimit
  /\ Locked => Size < TotalLimit

\* A handle that Get has returned out of the map is not taken by evictIdle
\* before the idle timeout is over, whatever the sweep and others do.
EvictedIsIdle ==
  \A c \in Callers :
    At(c, "use") /\ Handle(c) \in evicted
      => request[c].since + IdleTimeout < now

\* No request is served from a database without its tables: Provision
\* activates a tenant last, and what fails halfway stays closed.
ServedHasSchema ==
  \A c \in Callers :
    request[c].op = "serve" /\ ~At(c, "idle") => schema[Tenant(c)] = "whole"

\* Get returns, with a handle or an error: nobody waits for a lock for ever,
\* though one caller pings a new handle under it.
GetReturns ==
  \A c \in Callers : request[c].at \in Waits ~> request[c].at \notin Waits
=============================================================================
