--------------------------- MODULE TenantPoolProofs ---------------------------
(***************************************************************************)
(* Proofs about TenantPool, for any tenants, callers, handles and limits.  *)
(***************************************************************************)
EXTENDS TenantPool, FiniteSetTheorems, TLAPS

USE PoolAssumption DEF PoolAssumption

-----------------------------------------------------------------------------
(* What the helpers of TenantPool do, as facts about every caller. *)

RequestIs(c, op, t, at, h, time) ==
  /\ request' \in [Callers -> Requests]
  /\ request'[c].op = op /\ request'[c].tenant = t /\ request'[c].at = at
  /\ request'[c].handle = h /\ request'[c].since = time
  /\ \A d \in Callers \ {c} : request'[d] = request[d]

MaybeHandles == Handles \cup {NoHandle}

\* Goes changes where a caller is and its handle.
LEMMA Going ==
  ASSUME TypeOK, NEW c \in Callers, NEW at \in Steps, NEW h \in MaybeHandles,
         Goes(c, at, h)
  PROVE  RequestIs(c, request[c].op, Tenant(c), at, h, request[c].since)
<1>1. request[c] \in Requests /\ request \in [Callers -> Requests]
  BY DEF TypeOK
<1>2. [request[c] EXCEPT !.at = at, !.handle = h] \in Requests
  BY <1>1 DEF Requests, MaybeHandles
<1>3. request' = [request EXCEPT ![c] = [request[c] EXCEPT !.at = at, !.handle = h]]
  BY <1>1 DEF Goes, Requests
<1> QED
  BY <1>1, <1>2, <1>3 DEF RequestIs, Tenant, Requests

\* Returns sets the time as well.
LEMMA Returning ==
  ASSUME TypeOK, NEW c \in Callers, NEW at \in Steps, NEW h \in MaybeHandles,
         Returns(c, at, h)
  PROVE  RequestIs(c, request[c].op, Tenant(c), at, h, now)
<1>1. request[c] \in Requests /\ request \in [Callers -> Requests] /\ now \in 0..Horizon
  BY DEF TypeOK
<1>2. [request[c] EXCEPT !.at = at, !.handle = h, !.since = now] \in Requests
  BY <1>1 DEF Requests, MaybeHandles
<1>3. request' = [request EXCEPT ![c] =
                    [request[c] EXCEPT !.at = at, !.handle = h, !.since = now]]
  BY <1>1 DEF Returns, Requests
<1> QED
  BY <1>1, <1>2, <1>3 DEF RequestIs, Tenant, Requests

\* The blank request is one.
LEMMA Blank == NoRequest \in Requests
  BY DEF NoRequest, Requests, Steps

\* Over leaves a caller with the blank request.
LEMMA Finishing ==
  ASSUME TypeOK, NEW c \in Callers, Over(c)
  PROVE  RequestIs(c, "serve", NoRequest.tenant, "idle", NoHandle, 0)
  BY Blank DEF TypeOK, Over, RequestIs, NoRequest

\* Asks begins a request.
LEMMA Asking ==
  ASSUME TypeOK, NEW c \in Callers, NEW op \in {"serve", "provision"},
         NEW t \in Tenants, NEW at \in Steps, Asks(c, op, t, at)
  PROVE  RequestIs(c, op, t, at, NoHandle, 0)
<1>1. [op |-> op, tenant |-> t, at |-> at, handle |-> NoHandle, since |-> 0] \in Requests
  BY DEF Requests
<1> QED
  BY <1>1 DEF TypeOK, Asks, RequestIs

\* Uses gives a handle to the map and to the caller.
LEMMA Using ==
  ASSUME TypeOK, NEW c \in Callers, NEW h \in Handles, Uses(c, h)
  PROVE  /\ RequestIs(c, request[c].op, Tenant(c), "use", h, now)
         /\ conns' \in [Tenants -> Conns]
         /\ conns'[Tenant(c)].db = h /\ conns'[Tenant(c)].lastUsed = now
         /\ \A t \in Tenants \ {Tenant(c)} : conns'[t] = conns[t]
<1>1. Tenant(c) \in Tenants /\ now \in 0..Horizon
  BY DEF TypeOK, Tenant, Requests
<1>2. [db |-> h, lastUsed |-> now] \in Conns
  BY <1>1 DEF Conns
<1>3. RequestIs(c, request[c].op, Tenant(c), "use", h, now)
  BY Returning DEF Uses, MaybeHandles, Steps
<1> QED
  BY <1>1, <1>2, <1>3 DEF TypeOK, Uses, DB, RequestIs, Tenant

\* A map without one tenant is a map.
LEMMA Dropping ==
  ASSUME TypeOK, NEW t \in Tenants
  PROVE  [conns EXCEPT ![t] = NoConn] \in [Tenants -> Conns]
  BY DEF TypeOK, NoConn, Conns

\* An entry has a handle, and the blank entry has none.
LEMMA Entries ==
  ASSUME TypeOK, NEW t \in Tenants
  PROVE  /\ conns[t] \in Conns
         /\ DB(t) \in MaybeHandles
         /\ Cached(t) => DB(t) \in Handles
         /\ NoConn \in Conns /\ NoConn.db = NoHandle
  BY DEF TypeOK, DB, Cached, Conns, NoConn, MaybeHandles

\* The fields of a request.
LEMMA Fields ==
  ASSUME TypeOK, NEW c \in Callers
  PROVE  /\ request[c] \in Requests
         /\ Tenant(c) \in Tenants /\ Handle(c) \in MaybeHandles
         /\ request[c].op \in {"serve", "provision"} /\ request[c].at \in Steps
         /\ request[c].since \in 0..Horizon /\ now \in 0..Horizon
  BY DEF TypeOK, Tenant, Handle, Requests, MaybeHandles

\* What a write to the tenants table leaves.
LEMMA Writing ==
  ASSUME TypeOK, NEW c \in Callers, NEW t \in Tenants, NEW r \in Records,
         NEW at \in Steps, Writes(c, t, r, Goes(c, at, NoHandle))
  PROVE  /\ record' \in [Tenants -> Records]
         /\ record'[t] \in {record[t], r}
         /\ \A u \in Tenants \ {t} : record'[u] = record[u]
         /\ \/ /\ record'[t] = r
               /\ RequestIs(c, request[c].op, Tenant(c), at, NoHandle, request[c].since)
            \/ RequestIs(c, "serve", NoRequest.tenant, "idle", NoHandle, 0)
<1>1. CASE record' = [record EXCEPT ![t] = r] /\ Goes(c, at, NoHandle)
  BY <1>1, Going DEF TypeOK, MaybeHandles
<1>2. CASE record' \in {record, [record EXCEPT ![t] = r]} /\ Over(c)
  BY <1>2, Finishing DEF TypeOK
<1> QED
  BY <1>1, <1>2 DEF Writes

-----------------------------------------------------------------------------
(* Types. *)

\* The initial states are typed.
LEMMA InitTypes == Init => TypeOK
<1> SUFFICES ASSUME Init PROVE TypeOK
  OBVIOUS
<1>1. [t \in Tenants |-> NoConn] \in [Tenants -> Conns]
  BY DEF Conns, NoConn
<1>2. record \in [Tenants -> Records]
  BY DEF Init, Records
<1> QED
  BY <1>1, <1>2, Blank DEF Init, TypeOK

\* The steps of Get keep the types.
LEMMA GetTypes ==
  ASSUME TypeOK, NEW c \in Callers, Answers(c) \/ Locks(c)
  PROVE  TypeOK'
<1> USE Fields, Entries DEF MaybeHandles, Steps, Waits
<1> DEFINE t == Tenant(c)
<1>1. CASE Lookup(c)
  <2>1. request' \in [Callers -> Requests]
    BY <1>1, Going DEF Lookup, RequestIs, DB
  <2> QED
    BY <1>1, <2>1 DEF Lookup, TypeOK, pool
<1>2. CASE Ping(c)
  <2>1. request' \in [Callers -> Requests]
    BY <1>2, Going DEF Ping, RequestIs
  <2> QED
    BY <1>2, <2>1 DEF Ping, TypeOK, pool
<1>3. CASE Touch(c)
  <2>1. request' \in [Callers -> Requests] /\ conns' \in [Tenants -> Conns]
    BY <1>3, Using, Returning DEF Touch, RequestIs, TypeOK
  <2> QED
    BY <1>3, <2>1 DEF Touch, TypeOK
<1>4. CASE Remove(c)
  <2>1. request' \in [Callers -> Requests]
    BY <1>4, Going DEF Remove, RequestIs
  <2> QED
    BY <1>4, <2>1, Dropping DEF Remove, TypeOK
<1>5. CASE CloseRemoved(c)
  <2>1. request' \in [Callers -> Requests]
    BY <1>5, Going DEF CloseRemoved, RequestIs
  <2> QED
    BY <1>5, <2>1 DEF CloseRemoved, TypeOK
<1>6. CASE Lock(c)
  <2>1. CASE Hit(c)
    <3>1. request' \in [Callers -> Requests] /\ conns' \in [Tenants -> Conns]
      BY <2>1, Using DEF Hit, RequestIs
    <3> QED
      BY <1>6, <2>1, <3>1 DEF Lock, Hit, TypeOK
  <2>2. CASE Refused(c)
    <3>1. request' \in [Callers -> Requests]
      BY <2>2, Finishing DEF Refused, RequestIs
    <3> QED
      BY <1>6, <2>2, <3>1 DEF Lock, Refused, TypeOK
  <2>3. CASE Opens(c)
    <3>1. request' \in [Callers -> Requests]
      BY <2>3, Going DEF Opens, RequestIs
    <3> QED
      BY <1>6, <2>3, <3>1 DEF Lock, Opens, TypeOK
  <2> QED
    BY <1>6, <2>1, <2>2, <2>3 DEF Lock
<1>7. CASE OpenSucceeds(c)
  <2>1. CASE Handle(c) \in Handles
    BY <1>7, <2>1, Using DEF OpenSucceeds, RequestIs, TypeOK
  <2>2. CASE Handle(c) = NoHandle
    <3>1. [db |-> Handle(c), lastUsed |-> now] \in Conns
      BY <2>2 DEF Conns
    <3>2. request' \in [Callers -> Requests]
      BY <1>7, Returning DEF OpenSucceeds, Uses, RequestIs
    <3> QED
      BY <1>7, <3>1, <3>2 DEF OpenSucceeds, Uses, TypeOK
  <2> QED
    BY <2>1, <2>2
<1>8. CASE OpenFails(c)
  <2>1. request' \in [Callers -> Requests]
    BY <1>8, Finishing DEF OpenFails, RequestIs
  <2> QED
    BY <1>8, <2>1 DEF OpenFails, TypeOK
<1> QED
  BY <1>1, <1>2, <1>3, <1>4, <1>5, <1>6, <1>7, <1>8 DEF Answers, Locks

\* So do the steps of those who call it.
LEMMA CallerTypes ==
  ASSUME TypeOK, NEW c \in Callers, Caller(c)
  PROVE  TypeOK'
<1> USE Fields DEF Steps, Waits
<1> DEFINE t == Tenant(c)
<1>1. CASE Served(c)
  BY <1>1, Finishing DEF Served, RequestIs, TypeOK, pool
<1>2. CASE Register(c)
  <2>1. [status |-> "provisioning", version |-> 0] \in Records
    BY DEF Records
  <2>2. request' \in [Callers -> Requests] /\ record' \in [Tenants -> Records]
    BY <1>2, <2>1, Writing DEF Register, RequestIs
  <2> QED
    BY <1>2, <2>2 DEF Register, TypeOK, pool
<1>3. CASE InitSchema(c)
  <2>1. request' \in [Callers -> Requests]
    BY <1>3, Going, Finishing DEF InitSchema, RequestIs, MaybeHandles
  <2>2. schema' \in [Tenants -> {"none", "empty", "part", "whole"}]
    BY <1>3 DEF InitSchema, TypeOK
  <2> QED
    BY <1>3, <2>1, <2>2 DEF InitSchema, TypeOK, pool
<1>4. CASE SetVersion(c)
  <2>1. [record[t] EXCEPT !.version = 1] \in Records
    BY DEF Records, TypeOK
  <2>2. request' \in [Callers -> Requests] /\ record' \in [Tenants -> Records]
    BY <1>4, <2>1, Writing DEF SetVersion, RequestIs
  <2> QED
    BY <1>4, <2>2 DEF SetVersion, TypeOK, pool
<1>5. CASE Activate(c)
  <2>1. [record[t] EXCEPT !.status = "active"] \in Records
    BY DEF Records, TypeOK
  <2>2. request' \in [Callers -> Requests] /\ record' \in [Tenants -> Records]
    BY <1>5, <2>1, Finishing DEF Activate, Writes, RequestIs, TypeOK
  <2> QED
    BY <1>5, <2>2 DEF Activate, TypeOK, pool
<1>6. ASSUME NEW u \in Tenants, Serve(c, u)
      PROVE  TypeOK'
  <2>1. request' \in [Callers -> Requests]
    BY <1>6, Asking DEF Serve, RequestIs
  <2> QED
    BY <1>6, <2>1 DEF Serve, TypeOK, pool
<1>7. ASSUME NEW u \in Tenants, Provision(c, u)
      PROVE  TypeOK'
  <2>1. request' \in [Callers -> Requests]
    BY <1>7, Asking DEF Provision, RequestIs
  <2> QED
    BY <1>7, <2>1 DEF Provision, TypeOK, pool
<1> QED
  BY GetTypes, <1>1, <1>2, <1>3, <1>4, <1>5, <1>6, <1>7 DEF Caller

\* Every step keeps the types.
LEMMA NextTypes == TypeOK /\ [Next]_vars => TypeOK'
<1> SUFFICES ASSUME TypeOK, [Next]_vars PROVE TypeOK'
  OBVIOUS
<1>1. CASE UNCHANGED vars
  BY <1>1 DEF vars, TypeOK
<1>2. CASE SweepBegins
  BY <1>2 DEF SweepBegins, TypeOK, pool
<1>3. CASE SweepCollects
  <2>1. conns' \in [Tenants -> Conns]
    BY <1>3, Entries DEF SweepCollects, TypeOK
  <2>2. evicted' \subseteq Handles
    BY <1>3, Entries DEF SweepCollects
  <2> QED
    BY <1>3, <2>1, <2>2 DEF SweepCollects, TypeOK
<1>4. CASE SweepCloses
  BY <1>4 DEF SweepCloses, TypeOK
<1>5. CASE Shutdown
  BY <1>5 DEF Shutdown, TypeOK, pool
<1>6. CASE Close
  <2>1. conns' \in [Tenants -> Conns]
    BY <1>6 DEF Close, Conns, NoConn
  <2>2. drained' \subseteq Handles
    BY <1>6, Entries DEF Close, Pooled, Cached, MaybeHandles
  <2> QED
    BY <1>6, <2>1, <2>2 DEF Close, TypeOK
<1>7. CASE CloseCloses
  BY <1>7 DEF CloseCloses, TypeOK
<1>8. CASE Tick
  <2>1. now' \in 0..Horizon
    BY <1>8 DEF Tick, TypeOK
  <2> QED
    BY <1>8, <2>1 DEF Tick, TypeOK, pool
<1> QED
  BY CallerTypes, <1>1, <1>2, <1>3, <1>4, <1>5, <1>6, <1>7, <1>8 DEF Next

\* TypeOK: every variable keeps its type, for any number of tenants, callers
\* and handles.
THEOREM PoolTypes == Spec => []TypeOK
<1> QED
  BY InitTypes, NextTypes, PTL DEF Spec

-----------------------------------------------------------------------------
(* Schemas.  Who is let through has its tables, and a provisioner is alone *)
(* with its tenant until it has activated it.                              *)

Provisions(c) == request[c].op = "provision" /\ ~At(c, "idle")

TenantsReady ==
  \A t \in Tenants :
    /\ Admitted(t) => schema[t] = "whole"
    /\ record[t].status # "none" => schema[t] # "none"
    /\ t \notin Zero => schema[t] \in {"none", "whole"}

CallerReady(c) ==
  /\ request[c].at \in {"register", "version", "activate"} => Provisions(c)
  /\ request[c].op = "serve" /\ ~At(c, "idle") => Admitted(Tenant(c))
  /\ Provisions(c) =>
       /\ schema[Tenant(c)] # "none"
       /\ record[Tenant(c)].status = IF At(c, "register") THEN "none" ELSE "provisioning"
       /\ request[c].at \in {"version", "activate"} => schema[Tenant(c)] = "whole"

OneProvisioner ==
  \A c, d \in Callers :
    Provisions(c) /\ Provisions(d) /\ Tenant(c) = Tenant(d) => c = d

Ready == TenantsReady /\ (\A c \in Callers : CallerReady(c)) /\ OneProvisioner

\* No tenant is half made in the initial states.
LEMMA InitReady == Init => Ready
<1> SUFFICES ASSUME Init PROVE Ready
  OBVIOUS
<1>1. \A c \in Callers : At(c, "idle") /\ request[c].op = "serve"
  BY DEF Init, At, NoRequest
<1> QED
  BY <1>1 DEF Init, Ready, TenantsReady, CallerReady, OneProvisioner, Provisions,
     Admitted, At

\* A caller that goes on in Get, or is done, leaves the tenants as they are.
LEMMA ReadyFrame ==
  ASSUME TypeOK, Ready, UNCHANGED <<record, schema>>,
         NEW c \in Callers,
         \A d \in Callers \ {c} : request'[d] = request[d],
         \/ request'[c].at = "idle" /\ request'[c].op = "serve"
         \/ /\ request'[c].op = request[c].op /\ request'[c].tenant = request[c].tenant
            /\ request'[c].at \in Waits \cup {"use", "stray"}
            /\ request[c].at \in Waits
  PROVE  Ready'
<1> USE DEF Ready, TenantsReady, CallerReady, OneProvisioner, Provisions, At, Tenant,
     Admitted, Waits
<1>1. TenantsReady'
  OBVIOUS
<1>2. ASSUME NEW d \in Callers PROVE CallerReady(d)'
  <2>1. CASE d = c
    BY <2>1
  <2>2. CASE d # c
    BY <2>2
  <2> QED
    BY <2>1, <2>2
<1>3. OneProvisioner'
  OBVIOUS
<1> QED
  BY <1>1, <1>2, <1>3

\* Where the steps of Get leave their caller.
LEMMA GetMoves ==
  ASSUME TypeOK, NEW c \in Callers, Answers(c) \/ Locks(c)
  PROVE  /\ request[c].at \in Waits
         /\ UNCHANGED <<record, schema>>
         /\ \A d \in Callers \ {c} : request'[d] = request[d]
         /\ \/ request'[c].at = "idle" /\ request'[c].op = "serve"
            \/ /\ request'[c].op = request[c].op
               /\ request'[c].tenant = request[c].tenant
               /\ request'[c].at \in Waits \cup {"use", "stray"}
<1> USE Fields, Entries DEF MaybeHandles, Steps, Waits, At
<1>1. CASE Lookup(c)
  BY <1>1, Going DEF Lookup, RequestIs, Tenant
<1>2. CASE Ping(c)
  BY <1>2, Going DEF Ping, RequestIs, Tenant
<1>3. CASE Touch(c)
  <2>1. CASE Uses(c, DB(Tenant(c)))
    BY <1>3, <2>1, Returning DEF Touch, Uses, RequestIs, Tenant
  <2>2. CASE Returns(c, "stray", Handle(c))
    BY <1>3, <2>2, Returning DEF Touch, RequestIs, Tenant
  <2> QED
    BY <1>3, <2>1, <2>2 DEF Touch
<1>4. CASE Remove(c)
  BY <1>4, Going DEF Remove, RequestIs, Tenant
<1>5. CASE CloseRemoved(c)
  BY <1>5, Going DEF CloseRemoved, RequestIs, Tenant
<1>6. CASE Lock(c)
  <2>1. CASE Hit(c)
    BY <1>6, <2>1, Returning DEF Lock, Hit, Uses, RequestIs, Tenant
  <2>2. CASE Refused(c)
    BY <1>6, <2>2, Finishing DEF Lock, Refused, RequestIs
  <2>3. CASE Opens(c)
    BY <1>6, <2>3, Going DEF Lock, Opens, RequestIs, Tenant
  <2> QED
    BY <1>6, <2>1, <2>2, <2>3 DEF Lock
<1>7. CASE OpenSucceeds(c)
  BY <1>7, Returning DEF OpenSucceeds, Uses, RequestIs, Tenant
<1>8. CASE OpenFails(c)
  BY <1>8, Finishing DEF OpenFails, RequestIs
<1> QED
  BY <1>1, <1>2, <1>3, <1>4, <1>5, <1>6, <1>7, <1>8 DEF Answers, Locks

\* The record of a tenant only moves on while its provisioner writes it.
LEMMA ReadyWrite ==
  ASSUME TypeOK, Ready, schema' = schema, NEW c \in Callers, Provisions(c),
         NEW r \in Records, r.status # "none",
         r.status = "active" => schema[Tenant(c)] = "whole",
         Tenant(c) \notin Zero => schema[Tenant(c)] = "whole",
         record'[Tenant(c)] \in {record[Tenant(c)], r},
         \A u \in Tenants \ {Tenant(c)} : record'[u] = record[u],
         \A d \in Callers \ {c} : request'[d] = request[d],
         \/ request'[c].at = "idle" /\ request'[c].op = "serve"
         \/ /\ request'[c].op = request[c].op /\ request'[c].tenant = request[c].tenant
            /\ request'[c].at \in {"lookup", "activate"}
            /\ request'[c].at = "activate" => schema[Tenant(c)] = "whole"
            /\ record'[Tenant(c)] = r /\ r.status # "active"
  PROVE  Ready'
<1> USE DEF Provisions, At, Tenant, Admitted
<1>1. \A t \in Tenants : t = Tenant(c) \/ record'[t] = record[t]
  OBVIOUS
<1>2. TenantsReady'
  BY <1>1 DEF Ready, TenantsReady, CallerReady
<1>3. ASSUME NEW d \in Callers PROVE CallerReady(d)'
  <2>1. CASE d = c
    <3>1. r.status # "active" => r.status = "provisioning"
      BY DEF Records
    <3> QED
      BY <2>1, <3>1 DEF Ready, CallerReady
  <2>2. CASE d # c
    <3>1. request'[d] = request[d] /\ CallerReady(d) /\ Tenant(d) \in Tenants
      BY <2>2, Fields DEF Ready
    <3>2. CASE Provisions(d)
      <4>1. Tenant(d) # Tenant(c)
        BY <2>2, <3>2 DEF Ready, OneProvisioner
      <4> QED
        BY <3>1, <3>2, <4>1, <1>1 DEF CallerReady
    <3>3. CASE ~Provisions(d)
      <4>1. Admitted(Tenant(d)) => Admitted(Tenant(d))'
        BY <3>1, <1>1 DEF Ready, CallerReady
      <4> QED
        BY <3>1, <3>3, <4>1 DEF CallerReady
    <3> QED
      BY <3>2, <3>3
  <2> QED
    BY <2>1, <2>2
<1>4. OneProvisioner'
  BY DEF Ready, OneProvisioner
<1> QED
  BY <1>2, <1>3, <1>4 DEF Ready

\* Provision begins with a tenant that has neither a record nor tables.
LEMMA ReadyProvision ==
  ASSUME TypeOK, Ready, NEW c \in Callers, NEW t \in Tenants, Provision(c, t)
  PROVE  Ready'
<1>1. /\ record' = record
      /\ schema'[t] = IF t \in Zero THEN "empty" ELSE "whole"
      /\ \A u \in Tenants \ {t} : schema'[u] = schema[u]
      /\ schema[t] = "none" /\ record[t].status = "none"
  BY DEF Provision, TypeOK
<1>2. RequestIs(c, "provision", t, "register", NoHandle, 0)
  BY Asking DEF Provision, Steps
<1>3. TenantsReady'
  BY <1>1 DEF Ready, TenantsReady, Admitted
<1>4. ASSUME NEW d \in Callers PROVE CallerReady(d)'
  <2>1. CASE d = c
    BY <1>1, <1>2, <2>1 DEF RequestIs, CallerReady, Provisions, At, Tenant
  <2>2. CASE d # c
    <3>1. request'[d] = request[d] /\ CallerReady(d) /\ Tenant(d) \in Tenants
      BY <1>2, <2>2, Fields DEF Ready, RequestIs
    <3> QED
      BY <1>1, <3>1 DEF CallerReady, Provisions, At, Tenant, Admitted
  <2> QED
    BY <2>1, <2>2
<1>5. OneProvisioner'
  <2>1. \A d \in Callers : Provisions(d) => Tenant(d) # t
    BY <1>1 DEF Ready, CallerReady
  <2> QED
    BY <1>2, <2>1 DEF Ready, OneProvisioner, RequestIs, Provisions, At, Tenant
<1> QED
  BY <1>3, <1>4, <1>5 DEF Ready

\* The tables change under their provisioner alone, before anybody is let in.
LEMMA ReadyInitSchema ==
  ASSUME TypeOK, Ready, NEW c \in Callers, InitSchema(c)
  PROVE  Ready'
<1> DEFINE t == Tenant(c)
<1>1. Provisions(c) /\ CallerReady(c) /\ t \in Tenants /\ ~At(c, "register")
  BY Fields DEF InitSchema, InUse, Provisions, At, Ready
<1>2. record' = record /\ \A u \in Tenants \ {t} : schema'[u] = schema[u]
  BY DEF InitSchema, TypeOK
<1>3. \/ /\ schema'[t] = "whole"
         /\ RequestIs(c, "provision", t, "version", NoHandle, request[c].since)
      \/ /\ t \in Zero
         /\ schema'[t] \in {schema[t], "part", "whole"}
         /\ RequestIs(c, "serve", NoRequest.tenant, "idle", NoHandle, 0)
  BY <1>1, Going, Finishing DEF InitSchema, TypeOK, Steps, MaybeHandles
<1>4. record[t].status # "active" /\ (t \in Zero => ~Admitted(t))
  BY <1>1 DEF CallerReady, Admitted
<1>5. TenantsReady'
  BY <1>1, <1>2, <1>3, <1>4 DEF Ready, TenantsReady, CallerReady, Admitted
<1>6. ASSUME NEW d \in Callers PROVE CallerReady(d)'
  <2>1. CASE d = c
    BY <1>1, <1>2, <1>3, <2>1 DEF RequestIs, CallerReady, Provisions, At, Tenant
  <2>2. CASE d # c
    <3>1. request'[d] = request[d] /\ CallerReady(d) /\ Tenant(d) \in Tenants
      BY <1>3, <2>2, Fields DEF Ready, RequestIs
    <3>2. Provisions(d) => Tenant(d) # t
      BY <1>1, <2>2 DEF Ready, OneProvisioner
    <3> QED
      BY <1>2, <3>1, <3>2 DEF CallerReady, Provisions, At, Tenant, Admitted
  <2> QED
    BY <2>1, <2>2
<1>7. OneProvisioner'
  BY <1>1, <1>3 DEF Ready, OneProvisioner, RequestIs, Provisions, At, Tenant
<1> QED
  BY <1>5, <1>6, <1>7 DEF Ready

\* The steps of a caller, for the schemas.
LEMMA CallerKeepsReady ==
  ASSUME TypeOK, Ready, NEW c \in Callers, Caller(c)
  PROVE  Ready'
<1> USE Fields
<1>0. CallerReady(c)
  BY DEF Ready
<1>1. CASE Answers(c) \/ Locks(c)
  BY <1>1, GetMoves, ReadyFrame
<1>2. CASE Served(c)
  BY <1>2, Finishing, ReadyFrame DEF Served, RequestIs
<1>3. CASE Register(c)
  <2> DEFINE r == [status |-> "provisioning", version |-> 0]
  <2>1. r \in Records /\ r.status = "provisioning"
    BY DEF Records
  <2>2. Provisions(c) /\ (Tenant(c) \notin Zero => schema[Tenant(c)] = "whole")
    BY <1>0, <1>3 DEF Register, At, CallerReady, Ready, TenantsReady
  <2>3. Writes(c, Tenant(c), r, Goes(c, "lookup", NoHandle)) /\ schema' = schema
    BY <1>3 DEF Register
  <2> QED
    BY <2>1, <2>2, <2>3, Writing, ReadyWrite DEF RequestIs, Tenant, Steps, Waits
<1>4. CASE InitSchema(c)
  BY <1>4, ReadyInitSchema
<1>5. CASE SetVersion(c)
  <2> DEFINE r == [record[Tenant(c)] EXCEPT !.version = 1]
  <2>1. Provisions(c) /\ schema[Tenant(c)] = "whole"
    BY <1>0, <1>5 DEF SetVersion, At, CallerReady
  <2>2. record[Tenant(c)].status = "provisioning"
    BY <1>0, <1>5, <2>1 DEF SetVersion, At, CallerReady
  <2>3. r \in Records /\ r.status = "provisioning"
    BY <2>2 DEF Records, TypeOK
  <2>4. Writes(c, Tenant(c), r, Goes(c, "activate", NoHandle)) /\ schema' = schema
    BY <1>5 DEF SetVersion
  <2>5. /\ record'[Tenant(c)] \in {record[Tenant(c)], r}
        /\ \A u \in Tenants \ {Tenant(c)} : record'[u] = record[u]
        /\ \/ /\ record'[Tenant(c)] = r
              /\ RequestIs(c, request[c].op, Tenant(c), "activate", NoHandle,
                           request[c].since)
           \/ RequestIs(c, "serve", NoRequest.tenant, "idle", NoHandle, 0)
    BY <2>3, <2>4, Writing DEF Steps
  <2> QED
    BY <2>1, <2>3, <2>4, <2>5, ReadyWrite DEF RequestIs, Tenant
<1>6. CASE Activate(c)
  <2> DEFINE r == [record[Tenant(c)] EXCEPT !.status = "active"]
  <2>1. Provisions(c) /\ schema[Tenant(c)] = "whole"
    BY <1>0, <1>6 DEF Activate, At, CallerReady
  <2>2. r \in Records /\ r.status = "active"
    BY DEF Records, TypeOK
  <2>3. /\ record' \in {record, [record EXCEPT ![Tenant(c)] = r]}
        /\ Over(c) /\ schema' = schema
    BY <1>6 DEF Activate, Writes
  <2>4. /\ record'[Tenant(c)] \in {record[Tenant(c)], r}
        /\ \A u \in Tenants \ {Tenant(c)} : record'[u] = record[u]
    BY <2>3 DEF TypeOK
  <2> QED
    BY <2>1, <2>2, <2>3, <2>4, Finishing, ReadyWrite DEF RequestIs
<1>7. ASSUME NEW t \in Tenants, Serve(c, t)
      PROVE  Ready'
  <2>1. RequestIs(c, "serve", t, "lookup", NoHandle, 0)
    BY <1>7, Asking DEF Serve, Steps, Waits
  <2>2. UNCHANGED <<record, schema>> /\ Admitted(t)
    BY <1>7 DEF Serve
  <2>3. ASSUME NEW d \in Callers PROVE CallerReady(d)'
    BY <2>1, <2>2 DEF Ready, CallerReady, RequestIs, Provisions, At, Tenant, Admitted
  <2> QED
    BY <2>1, <2>2, <2>3 DEF Ready, TenantsReady, OneProvisioner, RequestIs, Provisions,
       At, Tenant, Admitted
<1>8. ASSUME NEW t \in Tenants, Provision(c, t)
      PROVE  Ready'
  BY <1>8, ReadyProvision
<1> QED
  BY <1>1, <1>2, <1>3, <1>4, <1>5, <1>6, <1>7, <1>8 DEF Caller

\* Every step keeps the schemas' invariant.
LEMMA NextReady == TypeOK /\ Ready /\ [Next]_vars => Ready'
<1> SUFFICES ASSUME TypeOK, Ready, [Next]_vars PROVE Ready'
  OBVIOUS
<1>1. CASE \E c \in Callers : Caller(c)
  BY <1>1, CallerKeepsReady
<1>2. CASE UNCHANGED <<record, schema, request>>
  BY <1>2 DEF Ready, TenantsReady, CallerReady, OneProvisioner, Provisions, At, Tenant,
     Admitted
<1> QED
  BY <1>1, <1>2 DEF Next, vars, SweepBegins, SweepCollects, SweepCloses, Shutdown, Close,
     CloseCloses, Tick

\* ServedHasSchema: over failing statements, a full pool and handles that are
\* closed under Provision, no request is served without its tables.
THEOREM ServedTenantsAreReady == Spec => []ServedHasSchema
<1>1. TypeOK /\ Ready => ServedHasSchema
  <2> SUFFICES ASSUME TypeOK, Ready, NEW c \in Callers, request[c].op = "serve", ~At(c, "idle")
               PROVE  schema[Tenant(c)] = "whole"
    BY DEF ServedHasSchema
  <2>1. Admitted(Tenant(c))
    BY DEF Ready, CallerReady
  <2> QED
    BY <2>1, Fields DEF Ready, TenantsReady
<1> QED
  BY <1>1, PoolTypes, InitReady, NextReady, PTL DEF Spec

-----------------------------------------------------------------------------
(* Owners.  OneOwner handle by handle, with what makes it inductive: the   *)
(* lock is one caller's, that caller's tenant is not in the map, and the   *)
(* sets of the sweep and of Close are filled once.                         *)

Closes(c) == request[c].at \in {"open", "close"}

Owned ==
  /\ \A t \in Tenants : Cached(t) => DB(t) \in open \ (evicted \cup drained)
  /\ \A t, u \in Tenants : Cached(t) /\ DB(t) = DB(u) => t = u
  /\ \A c \in Callers : Closes(c) =>
       /\ Handle(c) \in open \ (evicted \cup drained)
       /\ \A t \in Tenants : DB(t) # Handle(c)
       /\ \A d \in Callers : Closes(d) /\ Handle(c) = Handle(d) => c = d
  /\ evicted \subseteq open /\ drained \subseteq open
  /\ \A h \in evicted : h \notin drained
  /\ \A h \in open :
       \/ h \in evicted \cup drained
       \/ \E t \in Tenants : DB(t) = h
       \/ \E c \in Callers : Closes(c) /\ Handle(c) = h

Locking ==
  /\ \A c, d \in Callers : At(c, "open") /\ At(d, "open") => c = d
  /\ \A c \in Callers : At(c, "open") => ~Cached(Tenant(c))
  /\ sweep.at # "close" => evicted = {}
  /\ server # "down" => drained = {}

Own == Owned /\ Locking

\* Handle by handle is enough for OneOwner.
LEMMA OwnedSuffices == TypeOK /\ Owned => OneOwner
<1> SUFFICES ASSUME TypeOK, Owned PROVE OneOwner
  OBVIOUS
<1>1. NoHandle \notin open
  BY DEF TypeOK
<1>2. \A h : h \in Pooled <=> \E t \in Tenants : Cached(t) /\ DB(t) = h
  BY DEF Pooled, Cached
<1>3. \A c \in Callers : \A h : h \in Owns(c) <=> Closes(c) /\ Handle(c) = h
  BY DEF Owns, Closes
<1>4. open = Pooled \cup evicted \cup drained \cup Closing
  <2>1. ASSUME NEW h \in open
        PROVE  h \in Pooled \cup evicted \cup drained \cup Closing
    <3>1. CASE h \in evicted \cup drained
      BY <3>1
    <3>2. CASE \E t \in Tenants : DB(t) = h
      <4>1. h \in Pooled
        BY <1>1, <1>2, <3>2 DEF Cached
      <4> QED
        BY <4>1
    <3>3. CASE \E c \in Callers : Closes(c) /\ Handle(c) = h
      <4>1. \E c \in Callers : h \in Owns(c)
        BY <1>3, <3>3
      <4> QED
        BY <4>1 DEF Closing
    <3> QED
      BY <3>1, <3>2, <3>3 DEF Owned
  <2>2. ASSUME NEW c \in Callers, NEW h \in Owns(c) PROVE h \in open
    BY <1>3 DEF Owned
  <2>3. Pooled \subseteq open /\ evicted \subseteq open /\ drained \subseteq open
    BY <1>2 DEF Owned
  <2>4. Closing \subseteq open
    BY <2>2 DEF Closing
  <2>5. open \subseteq Pooled \cup evicted \cup drained \cup Closing
    BY <2>1
  <2> QED
    BY <2>3, <2>4, <2>5
<1>5. Pooled \cap (evicted \cup drained) = {} /\ evicted \cap drained = {}
  BY <1>2 DEF Owned
<1>6. ASSUME NEW c \in Callers
      PROVE  /\ Owns(c) \cap (Pooled \cup evicted \cup drained) = {}
             /\ \A d \in Callers \ {c} : Owns(c) \cap Owns(d) = {}
  BY <1>2, <1>3 DEF Owned
<1> QED
  BY <1>4, <1>5, <1>6 DEF OneOwner, Owned

\* No handle is open in the initial states.
LEMMA InitOwn == Init => Own
<1> SUFFICES ASSUME Init PROVE Own
  OBVIOUS
<1>1. \A c \in Callers : At(c, "idle")
  BY DEF Init, At, NoRequest
<1>2. \A t \in Tenants : DB(t) = NoHandle
  BY DEF Init, DB, NoConn
<1> QED
  BY <1>1, <1>2 DEF Init, Own, Owned, Locking, Closes, At, Cached

\* A step that moves no handle.
LEMMA OwnFrame ==
  ASSUME TypeOK, Own, UNCHANGED <<open, evicted, drained, sweep, server>>,
         \A t \in Tenants : DB(t)' = DB(t),
         NEW c \in Callers, ~Closes(c), ~Closes(c)',
         \A d \in Callers \ {c} : request'[d] = request[d]
  PROVE  Own'
<1>1. \A d \in Callers : /\ Closes(d)' <=> Closes(d)
                         /\ Closes(d) => request'[d] = request[d]
  BY DEF Closes
<1>2. Owned'
  BY <1>1 DEF Own, Owned, Cached, Handle
<1>3. Locking'
  <2>1. \A d \in Callers : At(d, "open")' => At(d, "open") /\ Tenant(d)' = Tenant(d)
    BY <1>1 DEF Closes, At, Tenant
  <2> QED
    BY <2>1, Fields DEF Own, Locking, Cached
<1> QED
  BY <1>2, <1>3 DEF Own

\* The handle of an entry that is removed is its remover's to close.
LEMMA OwnRemove ==
  ASSUME TypeOK, Own, NEW c \in Callers, Remove(c)
  PROVE  Own'
<1> USE Fields, Entries DEF MaybeHandles, Steps, Waits
<1> DEFINE t == Tenant(c)
<1>1. /\ UNCHANGED <<open, evicted, drained, sweep, server>>
      /\ At(c, "remove") /\ ~Locked
      /\ conns'[t].db = NoHandle /\ \A u \in Tenants \ {t} : DB(u)' = DB(u)
  BY DEF Remove, DB, TypeOK, NoConn
<1>2. CASE Cached(t)
  <2>1. RequestIs(c, request[c].op, t, "close", DB(t), request[c].since)
    BY <1>2, Going DEF Remove
  <2>2. \A d \in Callers \ {c} : /\ Closes(d)' <=> Closes(d)
                                 /\ Handle(d)' = Handle(d)
                                 /\ At(d, "open")' <=> At(d, "open")
                                 /\ Tenant(d)' = Tenant(d)
    BY <2>1 DEF RequestIs, Closes, Handle, At, Tenant
  <2>3. Closes(c)' /\ Handle(c)' = DB(t) /\ ~At(c, "open")' /\ ~Closes(c)
    BY <1>1, <2>1 DEF RequestIs, Closes, Handle, At
  <2>4. \A u \in Tenants : DB(u)' = IF u = t THEN NoHandle ELSE DB(u)
    BY <1>1 DEF DB
  <2>6. NoHandle \notin open
    BY DEF TypeOK
  <2>7. Owned'
    BY <1>1, <1>2, <2>2, <2>3, <2>4, <2>6 DEF Own, Owned, Cached
  <2>5. Locking'
    BY <1>1, <2>2, <2>3 DEF Own, Locking, Cached, Locked
  <2> QED
    BY <2>5, <2>7 DEF Own
<1>3. CASE ~Cached(t)
  <2>1. RequestIs(c, request[c].op, t, "lock", DB(t), request[c].since)
    BY <1>3, Going DEF Remove
  <2>2. \A u \in Tenants : DB(u)' = DB(u)
    BY <1>1, <1>3 DEF Cached, DB
  <2> QED
    BY <1>1, <2>1, <2>2, OwnFrame DEF RequestIs, Closes, At
<1> QED
  BY <1>2, <1>3

\* A handle is closed by the one who owns it.
LEMMA OwnCloses ==
  ASSUME TypeOK, Own, NEW c \in Callers, CloseRemoved(c) \/ OpenFails(c)
  PROVE  Own'
<1> USE Fields, Entries DEF MaybeHandles, Steps, Waits
<1>1. /\ UNCHANGED <<conns, evicted, drained, sweep, server>>
      /\ open' = open \ {Handle(c)} /\ Closes(c)
  BY DEF CloseRemoved, OpenFails, Closes, At
<1>2. /\ ~Closes(c)' /\ ~At(c, "open")'
      /\ \A d \in Callers \ {c} : request'[d] = request[d]
  BY Going, Finishing DEF CloseRemoved, OpenFails, RequestIs, Closes, At
<1>3. \A d \in Callers \ {c} : /\ Closes(d)' <=> Closes(d)
                               /\ Handle(d)' = Handle(d)
                               /\ At(d, "open")' <=> At(d, "open")
                               /\ Tenant(d)' = Tenant(d)
  BY <1>2 DEF Closes, Handle, At, Tenant
<1>4. \A t \in Tenants : DB(t)' = DB(t)
  BY <1>1 DEF DB
<1>5. Owned'
  BY <1>1, <1>2, <1>3, <1>4 DEF Own, Owned, Cached
<1>6. Locking'
  BY <1>1, <1>2, <1>3, <1>4 DEF Own, Locking, Cached
<1> QED
  BY <1>5, <1>6 DEF Own

\* A new handle is the opener's, and nobody else knows it.
LEMMA OwnOpens ==
  ASSUME TypeOK, Own, NEW c \in Callers, Lock(c), Opens(c)
  PROVE  Own'
<1> USE Fields, Entries DEF MaybeHandles, Steps, Waits
<1> PICK h \in Handles : Free(h) /\ open' = open \cup {h} /\ Goes(c, "open", h)
  BY DEF Opens
<1>1. /\ UNCHANGED <<conns, evicted, drained, sweep, server>>
      /\ ~Closes(c) /\ ~Locked /\ ~Cached(Tenant(c))
  BY DEF Lock, Opens, Closes, At
<1>2. RequestIs(c, request[c].op, Tenant(c), "open", h, request[c].since)
  BY Going
<1>3. \A d \in Callers \ {c} : /\ Closes(d)' <=> Closes(d)
                               /\ Handle(d)' = Handle(d)
                               /\ ~At(d, "open")'
  BY <1>1, <1>2 DEF RequestIs, Closes, Handle, At, Locked
<1>4. Closes(c)' /\ Handle(c)' = h /\ Tenant(c)' = Tenant(c)
  BY <1>2 DEF RequestIs, Closes, Handle, Tenant
<1>5. \A t \in Tenants : DB(t)' = DB(t)
  BY <1>1 DEF DB
<1>6. h \notin open /\ \A d \in Callers : Handle(d) # h
  BY DEF Free
<1>7. Owned'
  BY <1>1, <1>3, <1>4, <1>5, <1>6 DEF Own, Owned, Cached
<1>8. Locking'
  BY <1>1, <1>3, <1>4, <1>5 DEF Own, Locking, Cached
<1> QED
  BY <1>7, <1>8 DEF Own

\* Into the map it goes with the lock still held, so the place is still free.
LEMMA OwnSucceeds ==
  ASSUME TypeOK, Own, NEW c \in Callers, OpenSucceeds(c)
  PROVE  Own' /\ ~Locked' /\ ~Cached(Tenant(c)) /\ Handle(c) \in Handles
<1> USE Fields, Entries DEF MaybeHandles, Steps, Waits
<1> DEFINE t == Tenant(c)
           h == Handle(c)
<1>1. /\ UNCHANGED <<open, evicted, drained, sweep, server>>
      /\ At(c, "open") /\ Closes(c) /\ Uses(c, h)
  BY DEF OpenSucceeds, Closes, At
<1>2. h \in Handles /\ ~Cached(t)
  BY <1>1 DEF Own, Owned, Locking, TypeOK
<1>3. /\ RequestIs(c, request[c].op, t, "use", h, now)
      /\ \A u \in Tenants : DB(u)' = IF u = t THEN h ELSE DB(u)
  BY <1>1, <1>2, Using DEF DB
<1>4. \A d \in Callers \ {c} : /\ Closes(d)' <=> Closes(d)
                               /\ Handle(d)' = Handle(d)
                               /\ ~At(d, "open")'
  BY <1>1, <1>3 DEF RequestIs, Closes, Handle, At, Own, Locking
<1>5. ~Closes(c)' /\ ~At(c, "open")'
  BY <1>3 DEF RequestIs, Closes, At
<1>6. Owned'
  <2>1. \A u \in Tenants : DB(u) # h
    BY <1>1 DEF Own, Owned
  <2>2. ASSUME NEW k \in open'
        PROVE  \/ k \in evicted' \cup drained'
               \/ \E u \in Tenants : DB(u)' = k
               \/ \E d \in Callers : Closes(d)' /\ Handle(d)' = k
    <3>1. CASE k = h
      BY <1>3, <3>1
    <3>2. CASE k # h /\ \E u \in Tenants : DB(u) = k
      <4>1. k # NoHandle
        BY <1>1 DEF TypeOK
      <4> QED
        BY <1>2, <1>3, <3>2, <4>1 DEF Cached
    <3>3. CASE k # h /\ \E d \in Callers : Closes(d) /\ Handle(d) = k
      BY <1>4, <3>3
    <3> QED
      BY <1>1, <3>1, <3>2, <3>3 DEF Own, Owned
  <2>3. \A u \in Tenants : Cached(u)' => u = t \/ Cached(u)
    BY <1>3 DEF Cached
  <2> QED
    BY <1>1, <1>2, <1>3, <1>4, <1>5, <2>1, <2>2, <2>3 DEF Own, Owned
<1>7. Locking'
  BY <1>1, <1>4, <1>5 DEF Own, Locking
<1> QED
  BY <1>2, <1>4, <1>5, <1>6, <1>7 DEF Own, Locked

\* The sweep and Close take handles out of the map into a set that was empty.
LEMMA OwnTakes ==
  ASSUME TypeOK, Own, NEW gone \in SUBSET Tenants,
         \A t \in gone : Cached(t),
         \A t \in Tenants : DB(t)' = IF t \in gone THEN NoHandle ELSE DB(t),
         UNCHANGED <<open, request>>,
         \/ /\ evicted = {} /\ evicted' = {DB(t) : t \in gone}
            /\ sweep'.at = "close"
            /\ UNCHANGED <<drained, server>>
         \/ /\ drained = {} /\ drained' = {DB(t) : t \in gone}
            /\ server' = "down"
            /\ UNCHANGED <<evicted, sweep>>
  PROVE  Own'
<1> DEFINE taken == {DB(t) : t \in gone}
<1>1. NoHandle \notin open
  BY DEF TypeOK
<1>2. /\ \A d \in Callers : (Closes(d)' <=> Closes(d)) /\ Handle(d)' = Handle(d)
      /\ \A d \in Callers : (At(d, "open")' <=> At(d, "open")) /\ Tenant(d)' = Tenant(d)
  BY DEF Closes, Handle, At, Tenant
<1>3. \A t \in Tenants : Cached(t)' => Cached(t) /\ DB(t)' = DB(t) /\ t \notin gone
  BY DEF Cached
<1>4. \A t \in gone : DB(t) \in open \ (evicted \cup drained)
  BY DEF Own, Owned
<1>5. evicted' \cup drained' = evicted \cup drained \cup taken
  OBVIOUS
<1>6. \A t \in Tenants : Cached(t)' => DB(t) \notin taken
  BY <1>3 DEF Own, Owned
<1>7. \A d \in Callers : Closes(d) => Handle(d) \notin taken
  BY DEF Own, Owned
<1>8. ASSUME NEW h \in open
      PROVE  \/ h \in evicted' \cup drained'
             \/ \E t \in Tenants : DB(t)' = h
             \/ \E d \in Callers : Closes(d)' /\ Handle(d)' = h
  <2>1. CASE \E t \in gone : DB(t) = h
    BY <1>5, <2>1
  <2>2. CASE \E t \in Tenants \ gone : DB(t) = h
    BY <2>2
  <2> QED
    BY <1>2, <1>5, <2>1, <2>2 DEF Own, Owned
<1>9. Owned'
  <2>1. \A t \in Tenants : Cached(t)' => DB(t)' \in open' \ (evicted' \cup drained')
    BY <1>3, <1>5, <1>6 DEF Own, Owned
  <2>2. \A t, u \in Tenants : Cached(t)' /\ DB(t)' = DB(u)' => t = u
    BY <1>3 DEF Own, Owned, Cached
  <2>3. ASSUME NEW d \in Callers, Closes(d)'
        PROVE  /\ Handle(d)' \in open' \ (evicted' \cup drained')
               /\ \A t \in Tenants : DB(t)' # Handle(d)'
               /\ \A e \in Callers : Closes(e)' /\ Handle(d)' = Handle(e)' => d = e
    BY <1>1, <1>2, <1>5, <1>7, <2>3 DEF Own, Owned
  <2>4. evicted' \subseteq open' /\ drained' \subseteq open'
    BY <1>4 DEF Own, Owned
  <2>5. \A h \in evicted' : h \notin drained'
    BY <1>4 DEF Own, Owned
  <2> QED
    BY <1>8, <2>1, <2>2, <2>3, <2>4, <2>5 DEF Owned
<1>10. Locking'
  <2>1. \A c, d \in Callers : At(c, "open")' /\ At(d, "open")' => c = d
    BY <1>2 DEF Own, Locking
  <2>2. \A c \in Callers : At(c, "open")' => ~Cached(Tenant(c))'
    <3> SUFFICES ASSUME NEW c \in Callers, At(c, "open")' PROVE ~Cached(Tenant(c))'
      OBVIOUS
    <3>1. ~Cached(Tenant(c)) /\ Tenant(c)' = Tenant(c) /\ Tenant(c) \in Tenants
      BY <1>2, Fields DEF Own, Locking
    <3>2. \A t \in Tenants : ~Cached(t) => ~Cached(t)'
      BY <1>3
    <3> QED
      BY <3>1, <3>2 DEF Cached, DB
  <2>3. (sweep'.at # "close" => evicted' = {}) /\ (server' # "down" => drained' = {})
    BY DEF Own, Locking
  <2> QED
    BY <2>1, <2>2, <2>3 DEF Locking
<1> QED
  BY <1>9, <1>10 DEF Own

\* The sweep and Close close what is theirs.
LEMMA OwnDrains ==
  ASSUME TypeOK, Own, UNCHANGED <<conns, server, request>>, NEW h \in evicted \cup drained,
         open' = open \ {h},
         \/ evicted' = evicted \ {h} /\ drained' = drained /\ sweep' = sweep /\ h \in evicted
         \/ drained' = drained \ {h} /\ evicted' = evicted /\ sweep' = sweep /\ h \in drained
  PROVE  Own'
<1>1. \A d \in Callers : /\ Closes(d)' <=> Closes(d)
                         /\ Handle(d)' = Handle(d)
                         /\ At(d, "open")' <=> At(d, "open")
                         /\ Tenant(d)' = Tenant(d)
  BY DEF Closes, Handle, At, Tenant
<1>2. \A t \in Tenants : DB(t)' = DB(t)
  BY DEF DB
<1>3. Owned'
  BY <1>1, <1>2 DEF Own, Owned, Cached
<1>4. Locking'
  <2>1. (sweep'.at # "close" => evicted' = {}) /\ (server' # "down" => drained' = {})
    BY DEF Own, Locking
  <2> QED
    BY <1>1, <2>1 DEF Own, Locking, Cached, DB
<1> QED
  BY <1>3, <1>4 DEF Own

\* The steps of Get, for the owners.
LEMMA GetOwn ==
  ASSUME TypeOK, Own, NEW c \in Callers, Answers(c) \/ Locks(c)
  PROVE  Own'
<1> USE Fields, Entries DEF MaybeHandles, Steps, Waits
<1>1. CASE Lookup(c)
  <2>1. ~Closes(c) /\ ~Closes(c)' /\ \A d \in Callers \ {c} : request'[d] = request[d]
    BY <1>1, Going DEF Lookup, RequestIs, Closes, At
  <2> QED
    BY <1>1, <2>1, OwnFrame DEF Lookup, pool, DB
<1>2. CASE Ping(c)
  <2>1. ~Closes(c) /\ ~Closes(c)' /\ \A d \in Callers \ {c} : request'[d] = request[d]
    BY <1>2, Going DEF Ping, RequestIs, Closes, At
  <2> QED
    BY <1>2, <2>1, OwnFrame DEF Ping, pool, DB
<1>3. CASE Touch(c)
  <2>1. ~Closes(c) /\ UNCHANGED <<open, evicted, drained, sweep, server>>
    BY <1>3 DEF Touch, Closes, At
  <2>2. CASE Cached(Tenant(c)) /\ Uses(c, DB(Tenant(c)))
    BY <2>1, <2>2, Using, OwnFrame DEF RequestIs, Closes, DB
  <2>3. CASE ~Cached(Tenant(c)) /\ Returns(c, "stray", Handle(c)) /\ conns' = conns
    BY <2>1, <2>3, Returning, OwnFrame DEF RequestIs, Closes, DB
  <2> QED
    BY <1>3, <2>2, <2>3 DEF Touch
<1>4. CASE Remove(c)
  BY <1>4, OwnRemove
<1>5. CASE CloseRemoved(c) \/ OpenFails(c)
  BY <1>5, OwnCloses
<1>6. CASE Lock(c)
  <2>1. ~Closes(c) /\ UNCHANGED <<evicted, drained, sweep, server>>
    BY <1>6 DEF Lock, Closes, At
  <2>2. CASE Hit(c)
    BY <2>1, <2>2, Using, OwnFrame DEF Hit, RequestIs, Closes, DB
  <2>3. CASE Refused(c)
    BY <2>1, <2>3, Finishing, OwnFrame DEF Refused, RequestIs, Closes, DB
  <2>4. CASE Opens(c)
    BY <1>6, <2>4, OwnOpens
  <2> QED
    BY <1>6, <2>2, <2>3, <2>4 DEF Lock
<1>7. CASE OpenSucceeds(c)
  BY <1>7, OwnSucceeds
<1> QED
  BY <1>1, <1>2, <1>3, <1>4, <1>5, <1>6, <1>7 DEF Answers, Locks

\* The steps of a caller, for the owners.
LEMMA CallerOwn ==
  ASSUME TypeOK, Own, NEW c \in Callers, Caller(c)
  PROVE  Own'
<1>1. CASE Answers(c) \/ Locks(c)
  BY <1>1, GetOwn
<1>2. CASE \/ Served(c) \/ Register(c) \/ InitSchema(c) \/ SetVersion(c) \/ Activate(c)
           \/ \E t \in Tenants : Serve(c, t) \/ Provision(c, t)
  <2>1. ~Closes(c) /\ UNCHANGED <<pool, sweep, server>>
    BY <1>2 DEF Served, Register, InitSchema, SetVersion, Activate, Serve, Provision, Closes,
       At, InUse
  <2>2. ~Closes(c)' /\ \A d \in Callers \ {c} : request'[d] = request[d]
    <3>1. CASE Served(c) \/ InitSchema(c)
      BY <3>1, Going, Finishing DEF Served, InitSchema, RequestIs, Closes, Steps, MaybeHandles
    <3>2. CASE Register(c) \/ SetVersion(c) \/ Activate(c)
      BY <3>2, Going, Finishing DEF Register, SetVersion, Activate, Writes, RequestIs, Closes,
         Steps, Waits, MaybeHandles
    <3>3. CASE \E t \in Tenants : Serve(c, t) \/ Provision(c, t)
      BY <3>3, Asking DEF Serve, Provision, RequestIs, Closes, Steps, Waits
    <3> QED
      BY <1>2, <3>1, <3>2, <3>3
  <2> QED
    BY <2>1, <2>2, OwnFrame DEF pool, DB
<1> QED
  BY <1>1, <1>2 DEF Caller

\* Every step keeps the owners.
LEMMA NextOwn == TypeOK /\ Own /\ [Next]_vars => Own'
<1> SUFFICES ASSUME TypeOK, Own, [Next]_vars PROVE Own'
  OBVIOUS
<1>1. CASE \E c \in Callers : Caller(c)
  BY <1>1, CallerOwn
<1>2. CASE SweepCollects
  <2> DEFINE idle == {t \in Tenants : Cached(t) /\ IsIdle(t)}
  <2>1. \A t \in Tenants : DB(t)' = IF t \in idle THEN NoHandle ELSE DB(t)
    BY <1>2 DEF SweepCollects, DB, NoConn
  <2>2. evicted = {} /\ sweep'.at = "close"
    BY <1>2 DEF SweepCollects, Own, Locking
  <2> QED
    BY <1>2, <2>1, <2>2, OwnTakes DEF SweepCollects
<1>3. CASE SweepCloses
  <2>1. CASE \E h \in evicted : open' = open \ {h} /\ evicted' = evicted \ {h} /\ sweep' = sweep
    BY <1>3, <2>1, OwnDrains DEF SweepCloses
  <2>2. CASE evicted = {} /\ UNCHANGED <<open, evicted>>
    BY <1>3, <2>2 DEF SweepCloses, Own, Owned, Locking, DB, Cached, Closes, Handle, At, Tenant
  <2> QED
    BY <1>3, <2>1, <2>2 DEF SweepCloses
<1>4. CASE Close
  <2> DEFINE all == {t \in Tenants : Cached(t)}
  <2>1. \A t \in Tenants : DB(t)' = IF t \in all THEN NoHandle ELSE DB(t)
    BY <1>4 DEF Close, DB, NoConn, Cached
  <2>2. drained' = {DB(t) : t \in all}
    BY <1>4 DEF Close, Pooled, Cached
  <2>3. drained = {}
    BY <1>4 DEF Close, Own, Locking
  <2> QED
    BY <1>4, <2>1, <2>2, <2>3, OwnTakes DEF Close
<1>5. CASE CloseCloses
  BY <1>5, OwnDrains DEF CloseCloses
<1>6. CASE SweepBegins \/ Shutdown \/ Tick \/ UNCHANGED vars
  <2>1. UNCHANGED <<pool, request>>
    BY <1>6 DEF SweepBegins, Shutdown, Tick, vars, pool
  <2>2. Owned'
    BY <2>1 DEF pool, Own, Owned, DB, Cached, Closes, Handle
  <2>3. evicted' = evicted /\ drained' = drained /\ request' = request /\ conns' = conns
    BY <2>1 DEF pool
  <2>4. (sweep'.at # "close" => evicted = {}) /\ (server' # "down" => drained = {})
    BY <1>6 DEF SweepBegins, Shutdown, Tick, vars, Own, Locking
  <2>5. Locking'
    BY <2>3, <2>4 DEF Own, Locking, At, Cached, DB, Tenant
  <2> QED
    BY <2>2, <2>5 DEF Own
<1> QED
  BY <1>1, <1>2, <1>3, <1>4, <1>5, <1>6 DEF Next

\* Owners hold in every state.
THEOREM PoolOwners == Spec => []Own
<1> QED
  BY PoolTypes, InitOwn, NextOwn, PTL DEF Spec

\* OneOwner: no connection pool is leaked or closed twice, whatever pings fail
\* and whoever comes in between the steps of Get, the sweep and Close.
THEOREM HandlesHaveOneOwner == Spec => []OneOwner
<1> QED
  BY PoolTypes, PoolOwners, OwnedSuffices, PTL DEF Own

-----------------------------------------------------------------------------
(* The limit. *)

\* The map has no more entries after a step that only takes some out.
LEMMA SizeShrinks ==
  ASSUME \A t \in Tenants : Cached(t)' => Cached(t)
  PROVE  Size' <= Size /\ Size \in Nat /\ Size' \in Nat
<1> DEFINE S == {t \in Tenants : Cached(t)}
<1>1. S' \subseteq S /\ S \subseteq Tenants
  OBVIOUS
<1>2. IsFiniteSet(S) /\ IsFiniteSet(S')
  BY <1>1, FS_Subset
<1>3. Cardinality(S') <= Cardinality(S) /\ Cardinality(S) \in Nat /\ Cardinality(S') \in Nat
  BY <1>1, <1>2, FS_Subset, FS_CardinalityType
<1> QED
  BY <1>3 DEF Size

\* It has one more after one that inserts.
LEMMA SizeGrows ==
  ASSUME NEW t \in Tenants, ~Cached(t), Cached(t)',
         \A u \in Tenants \ {t} : Cached(u)' = Cached(u)
  PROVE  Size' = Size + 1 /\ Size \in Nat
<1> DEFINE S == {u \in Tenants : Cached(u)}
           T == {u \in Tenants : Cached(u)'}
<1>1. T = S \cup {t} /\ t \notin S /\ S \subseteq Tenants
  OBVIOUS
<1>2. IsFiniteSet(S) /\ Cardinality(S) \in Nat
  BY <1>1, FS_Subset, FS_CardinalityType
<1>3. Cardinality(T) = Cardinality(S) + 1
  BY <1>1, <1>2, FS_AddElement
<1> QED
  BY <1>2, <1>3 DEF Size

\* A step that inserts nothing keeps the limit.
LEMMA LimitShrinks ==
  ASSUME LimitHolds, \A t \in Tenants : Cached(t)' => Cached(t), Locked' => Locked
  PROVE  LimitHolds'
  BY SizeShrinks DEF LimitHolds

\* The steps of Get keep the limit.
LEMMA GetLimit ==
  ASSUME TypeOK, Own, LimitHolds, NEW c \in Callers, Answers(c) \/ Locks(c)
  PROVE  LimitHolds'
<1> USE Fields, Entries DEF MaybeHandles, Steps, Waits
<1>1. \A d \in Callers \ {c} : request'[d] = request[d]
  BY GetMoves
<1>2. ASSUME request'[c].at # "open" PROVE Locked' => Locked
  BY <1>1, <1>2 DEF Locked, At
<1>3. CASE Lookup(c) \/ Ping(c) \/ CloseRemoved(c) \/ OpenFails(c)
  <2>1. request'[c].at # "open"
    BY <1>3, Going, Finishing DEF Lookup, Ping, CloseRemoved, OpenFails, RequestIs
  <2>2. \A t \in Tenants : Cached(t)' => Cached(t)
    BY <1>3 DEF Lookup, Ping, CloseRemoved, OpenFails, pool, Cached, DB
  <2> QED
    BY <1>2, <2>1, <2>2, LimitShrinks
<1>4. CASE Touch(c)
  <2>1. CASE Cached(Tenant(c)) /\ Uses(c, DB(Tenant(c)))
    BY <1>2, <2>1, Using, LimitShrinks DEF RequestIs, Cached, DB
  <2>2. CASE Returns(c, "stray", Handle(c)) /\ conns' = conns
    BY <1>2, <2>2, Returning, LimitShrinks DEF RequestIs, Cached, DB
  <2> QED
    BY <1>4, <2>1, <2>2 DEF Touch
<1>5. CASE Remove(c)
  <2>1. request'[c].at # "open"
    BY <1>5, Going DEF Remove, RequestIs
  <2>2. \A t \in Tenants : Cached(t)' => Cached(t)
    BY <1>5 DEF Remove, Cached, DB, NoConn, TypeOK
  <2> QED
    BY <1>2, <2>1, <2>2, LimitShrinks
<1>6. CASE Lock(c)
  <2>1. CASE Hit(c)
    BY <1>2, <2>1, Using, LimitShrinks DEF Hit, RequestIs, Cached, DB
  <2>2. CASE Refused(c)
    BY <1>2, <2>2, Finishing, LimitShrinks DEF Refused, RequestIs, Cached, DB
  <2>3. CASE Opens(c)
    <3>1. \A t \in Tenants : Cached(t)' = Cached(t)
      BY <2>3 DEF Opens, Cached, DB
    <3>2. Size' = Size
      BY <3>1 DEF Size
    <3> QED
      BY <2>3, <3>2 DEF Opens, HasRoom, LimitHolds
  <2> QED
    BY <1>6, <2>1, <2>2, <2>3 DEF Lock
<1>7. CASE OpenSucceeds(c)
  <2>1. ~Locked' /\ ~Cached(Tenant(c)) /\ Handle(c) \in Handles
    BY <1>7, OwnSucceeds
  <2>2. /\ conns'[Tenant(c)].db = Handle(c)
        /\ \A u \in Tenants \ {Tenant(c)} : conns'[u] = conns[u]
    BY <1>7, <2>1, Using DEF OpenSucceeds
  <2>3. Locked
    BY <1>7 DEF OpenSucceeds, Locked
  <2>4. ASSUME NEW t \in Tenants, t = Tenant(c)
        PROVE  Size' = Size + 1 /\ Size \in Nat
    BY <2>1, <2>2, <2>4, SizeGrows DEF Cached, DB
  <2> QED
    BY <2>1, <2>3, <2>4 DEF LimitHolds
<1> QED
  BY <1>3, <1>4, <1>5, <1>6, <1>7 DEF Answers, Locks

\* Every step keeps the limit.
LEMMA NextLimit == TypeOK /\ Own /\ LimitHolds /\ [Next]_vars => LimitHolds'
<1> SUFFICES ASSUME TypeOK, Own, LimitHolds, [Next]_vars PROVE LimitHolds'
  OBVIOUS
<1>1. ASSUME NEW c \in Callers, Answers(c) \/ Locks(c)
      PROVE  LimitHolds'
  BY <1>1, GetLimit
<1>2. ASSUME NEW c \in Callers,
             \/ Served(c) \/ Register(c) \/ InitSchema(c) \/ SetVersion(c) \/ Activate(c)
             \/ \E t \in Tenants : Serve(c, t) \/ Provision(c, t)
      PROVE  LimitHolds'
  <2>1. conns' = conns
    BY <1>2 DEF Served, Register, InitSchema, SetVersion, Activate, Serve, Provision, pool
  <2>2. request'[c].at # "open" /\ \A d \in Callers \ {c} : request'[d] = request[d]
    <3>1. CASE Served(c) \/ InitSchema(c)
      BY <3>1, Going, Finishing DEF Served, InitSchema, RequestIs, Steps, MaybeHandles
    <3>2. CASE Register(c) \/ SetVersion(c) \/ Activate(c)
      BY <3>2, Going, Finishing DEF Register, SetVersion, Activate, Writes, RequestIs,
         Steps, Waits, MaybeHandles
    <3>3. CASE \E t \in Tenants : Serve(c, t) \/ Provision(c, t)
      BY <3>3, Asking DEF Serve, Provision, RequestIs, Steps, Waits
    <3> QED
      BY <1>2, <3>1, <3>2, <3>3
  <2> QED
    BY <2>1, <2>2, LimitShrinks DEF Locked, At, Cached, DB
<1>3. CASE UNCHANGED request /\ (conns' = conns \/ SweepCollects \/ Close)
  <2>1. \A t \in Tenants : Cached(t)' => Cached(t)
    BY <1>3 DEF SweepCollects, Close, Cached, DB, NoConn
  <2> QED
    BY <1>3, <2>1, LimitShrinks DEF Locked, At
<1>4. SweepBegins \/ SweepCloses \/ Shutdown \/ CloseCloses \/ Tick \/ UNCHANGED vars
        => UNCHANGED <<request, conns>>
  BY DEF SweepBegins, SweepCloses, Shutdown, CloseCloses, Tick, vars, pool
<1>5. SweepCollects \/ Close => UNCHANGED request
  BY DEF SweepCollects, Close
<1> QED
  BY <1>1, <1>2, <1>3, <1>4, <1>5 DEF Next, Caller

\* LimitHolds: the map never has more entries than the limit, counting the one
\* that is being opened.
THEOREM TheLimitHolds == Spec => []LimitHolds
<1>1. Init => LimitHolds
  <2> SUFFICES ASSUME Init PROVE LimitHolds
    OBVIOUS
  <2>1. {t \in Tenants : Cached(t)} = {}
    BY DEF Init, Cached, DB, NoConn
  <2>2. Size = 0
    BY <2>1, FS_EmptySet DEF Size
  <2>3. ~Locked
    BY DEF Init, Locked, At, NoRequest
  <2> QED
    BY <2>2, <2>3 DEF LimitHolds
<1> QED
  BY <1>1, PoolTypes, PoolOwners, NextLimit, PTL DEF Spec

-----------------------------------------------------------------------------
(* Eviction.  While a handle is in the map its time is that of the last    *)
(* caller it was returned to.                                              *)

Fresh(c, t) ==
  At(c, "use") /\ Cached(t) /\ Handle(c) = DB(t)
    => request[c].since <= conns[t].lastUsed

Timed ==
  /\ \A c \in Callers, t \in Tenants : Fresh(c, t)
  /\ \A c \in Callers : request[c].since <= now
  /\ \A t \in Tenants : conns[t].lastUsed <= now
  /\ sweep.time <= now
  /\ EvictedIsIdle

\* The times are numbers.
LEMMA Times ==
  ASSUME TypeOK
  PROVE  /\ now \in Nat /\ sweep.time \in Nat
         /\ \A c \in Callers : request[c].since \in Nat
         /\ \A t \in Tenants : conns[t].lastUsed \in Nat
  BY DEF TypeOK, Requests, Conns

\* No handle is used or evicted in the initial states.
LEMMA InitTimed == Init => Timed
<1> SUFFICES ASSUME Init PROVE Timed
  OBVIOUS
<1> QED
  BY DEF Init, Timed, Fresh, EvictedIsIdle, At, NoRequest, NoConn

\* A step of a caller that is not given a handle out of the map.
LEMMA TimedFrame ==
  ASSUME TypeOK, Timed, UNCHANGED <<now, evicted, sweep>>, NEW c \in Callers,
         \A t \in Tenants : conns'[t] \in {conns[t], NoConn},
         \A d \in Callers \ {c} : request'[d] = request[d],
         request'[c].at # "use", request'[c].since <= now
  PROVE  Timed'
<1> USE Times
<1>1. \A d \in Callers : At(d, "use")' => request'[d] = request[d] /\ d # c
  BY DEF At
<1>2. ASSUME NEW d \in Callers, NEW t \in Tenants PROVE Fresh(d, t)'
  BY <1>1 DEF Timed, Fresh, At, Handle, Cached, DB, NoConn
<1>3. EvictedIsIdle'
  BY <1>1 DEF Timed, EvictedIsIdle, At, Handle
<1>4. \A d \in Callers : request'[d].since <= now
  BY DEF Timed
<1>5. \A t \in Tenants : conns'[t].lastUsed <= now
  BY DEF Timed, NoConn
<1> QED
  BY <1>2, <1>3, <1>4, <1>5 DEF Timed

\* A step that gives its caller a handle out of the map, with a new time.
LEMMA TimedUses ==
  ASSUME TypeOK, Timed, Own', UNCHANGED <<now, evicted, sweep>>, NEW c \in Callers,
         NEW h \in Handles, Uses(c, h)
  PROVE  Timed'
<1> USE Times, Fields
<1> DEFINE t == Tenant(c)
<1>1. /\ RequestIs(c, request[c].op, t, "use", h, now)
      /\ conns'[t].db = h /\ conns'[t].lastUsed = now
      /\ \A u \in Tenants \ {t} : conns'[u] = conns[u]
  BY Using
<1>2. \A d \in Callers \ {c} : request'[d] = request[d]
  BY <1>1 DEF RequestIs
<1>3. \A u \in Tenants : conns'[u].db = h => u = t
  <2>1. \A u, v \in Tenants : conns'[u].db # NoHandle /\ conns'[u].db = conns'[v].db => u = v
    BY DEF Own, Owned, Cached, DB
  <2> QED
    BY <1>1, <2>1
<1>4. ASSUME NEW d \in Callers, NEW u \in Tenants PROVE Fresh(d, u)'
  <2>1. CASE d = c
    BY <1>1, <1>3, <2>1 DEF RequestIs, Fresh, Handle, DB, At
  <2>2. CASE d # c /\ u = t
    BY <1>1, <1>2, <2>2 DEF Timed, Fresh
  <2>3. CASE d # c /\ u # t
    BY <1>1, <1>2, <2>3 DEF Timed, Fresh, At, Handle, Cached, DB
  <2> QED
    BY <2>1, <2>2, <2>3
<1>5. h \notin evicted
  <2>1. \A u \in Tenants : conns'[u].db # NoHandle => conns'[u].db \notin evicted'
    BY DEF Own, Owned, Cached, DB
  <2> QED
    BY <1>1, <2>1
<1>6. EvictedIsIdle'
  BY <1>1, <1>2, <1>5 DEF Timed, EvictedIsIdle, At, Handle, RequestIs
<1>7. \A d \in Callers : request'[d].since <= now
  BY <1>1, <1>2 DEF Timed, RequestIs
<1>8. \A u \in Tenants : conns'[u].lastUsed <= now
  BY <1>1 DEF Timed
<1> QED
  BY <1>4, <1>6, <1>7, <1>8 DEF Timed

\* The steps of Get keep the times.
LEMMA GetTimed ==
  ASSUME TypeOK, Own, Timed, NEW c \in Callers, Answers(c) \/ Locks(c)
  PROVE  Timed'
<1> USE Fields, Entries, Times DEF MaybeHandles, Steps, Waits
<1>1. Own' /\ request[c].since <= now
  BY GetOwn DEF Timed
<1>2. CASE Lookup(c) \/ Ping(c) \/ CloseRemoved(c) \/ OpenFails(c)
  <2>1. request'[c].at # "use" /\ request'[c].since <= now
        /\ \A d \in Callers \ {c} : request'[d] = request[d]
    BY <1>1, <1>2, Going, Finishing DEF Lookup, Ping, CloseRemoved, OpenFails, RequestIs
  <2>2. UNCHANGED <<now, evicted, sweep, conns>>
    BY <1>2 DEF Lookup, Ping, CloseRemoved, OpenFails, pool
  <2> QED
    BY <2>1, <2>2, TimedFrame
<1>3. CASE Touch(c)
  <2>1. CASE Cached(Tenant(c)) /\ Uses(c, DB(Tenant(c)))
    BY <1>1, <1>3, <2>1, TimedUses DEF Touch
  <2>2. CASE Returns(c, "stray", Handle(c)) /\ conns' = conns
    <3>1. RequestIs(c, request[c].op, Tenant(c), "stray", Handle(c), now)
      BY <2>2, Returning
    <3> QED
      BY <1>3, <2>2, <3>1, TimedFrame DEF Touch, RequestIs
  <2> QED
    BY <1>3, <2>1, <2>2 DEF Touch
<1>4. CASE Remove(c)
  <2>1. request'[c].at # "use" /\ request'[c].since <= now
        /\ \A d \in Callers \ {c} : request'[d] = request[d]
    BY <1>1, <1>4, Going DEF Remove, RequestIs
  <2>2. \A t \in Tenants : conns'[t] \in {conns[t], NoConn}
    BY <1>4 DEF Remove, TypeOK
  <2> QED
    BY <1>4, <2>1, <2>2, TimedFrame DEF Remove
<1>5. CASE Lock(c)
  <2>1. CASE Hit(c)
    BY <1>1, <1>5, <2>1, TimedUses DEF Lock, Hit
  <2>2. CASE Refused(c) \/ Opens(c)
    <3>1. request'[c].at # "use" /\ request'[c].since <= now
          /\ \A d \in Callers \ {c} : request'[d] = request[d]
      BY <1>1, <2>2, Going, Finishing DEF Refused, Opens, RequestIs
    <3> QED
      BY <1>5, <2>2, <3>1, TimedFrame DEF Lock, Refused, Opens
  <2> QED
    BY <1>5, <2>1, <2>2 DEF Lock
<1>6. CASE OpenSucceeds(c)
  <2>1. Handle(c) \in Handles
    BY <1>6, OwnSucceeds
  <2> QED
    BY <1>1, <1>6, <2>1, TimedUses DEF OpenSucceeds
<1> QED
  BY <1>2, <1>3, <1>4, <1>5, <1>6 DEF Answers, Locks

\* Every step keeps the times.
LEMMA NextTimed == TypeOK /\ Own /\ Timed /\ [Next]_vars => Timed'
<1> SUFFICES ASSUME TypeOK, Own, Timed, [Next]_vars PROVE Timed'
  OBVIOUS
<1> USE Times
<1>1. ASSUME NEW c \in Callers, Answers(c) \/ Locks(c)
      PROVE  Timed'
  BY <1>1, GetTimed
<1>2. ASSUME NEW c \in Callers,
             \/ Served(c) \/ Register(c) \/ InitSchema(c) \/ SetVersion(c) \/ Activate(c)
             \/ \E t \in Tenants : Serve(c, t) \/ Provision(c, t)
      PROVE  Timed'
  <2>1. UNCHANGED <<now, conns, evicted, sweep>> /\ request[c].since <= now
    BY <1>2 DEF Served, Register, InitSchema, SetVersion, Activate, Serve, Provision, pool,
       Timed
  <2>2. /\ request'[c].at # "use" /\ request'[c].since <= now
        /\ \A d \in Callers \ {c} : request'[d] = request[d]
    <3>1. CASE Served(c) \/ InitSchema(c)
      BY <2>1, <3>1, Going, Finishing DEF Served, InitSchema, RequestIs, Steps, MaybeHandles
    <3>2. CASE Register(c) \/ SetVersion(c) \/ Activate(c)
      BY <2>1, <3>2, Going, Finishing DEF Register, SetVersion, Activate, Writes, RequestIs,
         Steps, Waits, MaybeHandles
    <3>3. CASE \E t \in Tenants : Serve(c, t) \/ Provision(c, t)
      BY <3>3, Asking DEF Serve, Provision, RequestIs, Steps, Waits
    <3> QED
      BY <1>2, <3>1, <3>2, <3>3
  <2> QED
    BY <2>1, <2>2, TimedFrame
<1>3. CASE SweepCollects
  <2> DEFINE idle == {t \in Tenants : Cached(t) /\ IsIdle(t)}
  <2>1. /\ \A t \in Tenants : conns'[t] = IF t \in idle THEN NoConn ELSE conns[t]
        /\ evicted' = {DB(t) : t \in idle} /\ sweep'.time = 0
        /\ UNCHANGED <<now, request>>
    BY <1>3 DEF SweepCollects
  <2>2. ASSUME NEW c \in Callers, NEW t \in Tenants PROVE Fresh(c, t)'
    BY <2>1 DEF Timed, Fresh, At, Handle, Cached, DB, NoConn
  <2>3. EvictedIsIdle'
    <3> SUFFICES ASSUME NEW c \in Callers, At(c, "use"), NEW t \in idle, Handle(c) = DB(t)
                 PROVE  request[c].since + IdleTimeout < now
      BY <2>1 DEF EvictedIsIdle, At, Handle
    <3>1. request[c].since <= conns[t].lastUsed
      BY DEF Timed, Fresh
    <3>2. conns[t].lastUsed + IdleTimeout < sweep.time /\ sweep.time <= now
      BY DEF IsIdle, Timed
    <3> QED
      BY <3>1, <3>2
  <2> QED
    BY <2>1, <2>2, <2>3 DEF Timed, NoConn
<1>4. CASE Close
  <2>1. /\ \A t \in Tenants : conns'[t] = NoConn
        /\ UNCHANGED <<now, request, evicted, sweep>>
    BY <1>4 DEF Close
  <2> QED
    BY <2>1 DEF Timed, Fresh, EvictedIsIdle, At, Handle, Cached, DB, NoConn
<1>5. CASE /\ UNCHANGED <<conns, request>> /\ now' \in Nat /\ now <= now'
           /\ sweep'.time <= now' /\ evicted' \subseteq evicted
  <2>1. ASSUME NEW c \in Callers, NEW t \in Tenants PROVE Fresh(c, t)'
    BY <1>5 DEF Timed, Fresh, At, Handle, Cached, DB
  <2>2. EvictedIsIdle'
    <3> SUFFICES ASSUME NEW c \in Callers, At(c, "use"), Handle(c) \in evicted
                 PROVE  request[c].since + IdleTimeout < now'
      BY <1>5 DEF EvictedIsIdle, At, Handle
    <3>1. request[c].since + IdleTimeout < now
      BY DEF Timed, EvictedIsIdle
    <3> QED
      BY <1>5, <3>1
  <2> QED
    BY <1>5, <2>1, <2>2 DEF Timed
<1>6. SweepBegins \/ SweepCloses \/ Shutdown \/ CloseCloses \/ Tick \/ UNCHANGED vars =>
        /\ UNCHANGED <<conns, request>> /\ now' \in Nat /\ now <= now'
        /\ sweep'.time <= now' /\ evicted' \subseteq evicted
  BY DEF SweepBegins, SweepCloses, Shutdown, CloseCloses, Tick, vars, pool, Timed
<1> QED
  BY <1>1, <1>2, <1>3, <1>4, <1>5, <1>6 DEF Next, Caller

\* EvictedIsIdle: evictIdle takes no handle that Get has returned out of the
\* map within the idle timeout.
THEOREM EvictionsAreLate == Spec => []EvictedIsIdle
<1> QED
  BY PoolTypes, PoolOwners, InitTimed, NextTimed, PTL DEF Spec, Timed
=============================================================================
