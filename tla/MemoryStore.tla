------------------------------ MODULE MemoryStore ------------------------------
(***************************************************************************)
(* The memories of a tenant (internal/service/memory.go, ingest.go and     *)
(* session.go over repository/tidb): updates by users, and the goroutines  *)
(* that are left behind by a POST that was answered 202, which ask a model *)
(* what to keep and apply its decisions to memories they read before they  *)
(* asked.  Every statement and every transaction is one step; nothing is   *)
(* held between them.                                                      *)
(*                                                                         *)
(* A memory's number is its place in the order of creation.  A text is one *)
(* of Contents, its embedding is the text it was computed from, and NULL   *)
(* is Null.  What a search or the model returns is any choice, and drawn    *)
(* with the step before, as it depends on no table.  The column version    *)
(* only counts: both callers of UpdateOptimistic pass 0.                   *)
(***************************************************************************)
EXTENDS Naturals, FiniteSets

CONSTANTS
  Jobs,       \* goroutines at work at a time
  Contents,
  Messages,   \* messages of conversations, by session, role and text
  Tags,       \* what the model calls a message
  Null,
  MaxFacts,   \* maxFacts; also a bound on the decisions of the model
  MaxFound,   \* maxExistingMemories
  MaxAdded,   \* bound: a memory is added only below this number
  MaxRows     \* bound: memories ever created, those that replace one as well

ASSUME MemoryAssumption ==
  /\ Null \notin Contents
  /\ Contents # {}
  /\ Tags \cap {"none", "plain"} = {}
  /\ MaxFacts \in Nat \ {0} /\ MaxFound \in Nat /\ MaxRows \in Nat /\ MaxAdded \in 0..MaxRows

VARIABLES
  rows,      \* the table memories
  count,     \* how many there are
  sessions,  \* the table sessions: a message's tags, "plain" without, or "none"
  job        \* what a goroutine is doing

vars == <<rows, count, sessions, job>>

Ids == 1..MaxRows

Row == [pinned : BOOLEAN, content : Contents \cup {Null},
        vector : Contents \cup {Null},
        state : {"none", "active", "archived", "deleted"}, successor : Nat]

Blank == [pinned |-> FALSE, content |-> Null, vector |-> Null,
          state |-> "none", successor |-> 0]

Memory(pinned, c, v) ==
  [pinned |-> pinned, content |-> c, vector |-> v, state |-> "active",
   successor |-> 0]

(***************************************************************************)
(* write: GetByID has returned a copy of row id, to be written back.       *)
(* search: reconcile looks for memories near the facts, found.  add, act:  *)
(* it has some facts or decisions left to carry out.  tag: the tags of a   *)
(* Create that brings some are yet to be put on the rows it made.  patch:  *)
(* a goroutine that puts the model's tags on the messages in asked.        *)
(***************************************************************************)
Steps == {"idle", "write", "search", "add", "act", "tag", "patch"}

Work == [at : Steps, id : 0..MaxRows, content : Contents \cup {Null},
         vector : Contents \cup {Null}, found : SUBSET Ids, left : 0..MaxFacts,
         made : SUBSET Ids, patches : BOOLEAN, asked : SUBSET Messages]

NoWork == [at |-> "idle", id |-> 0, content |-> Null, vector |-> Null,
           found |-> {}, left |-> 0, made |-> {}, patches |-> FALSE,
           asked |-> {}]

Searching(patches) == [NoWork EXCEPT !.at = "search", !.patches = patches]

Patching(asked) ==
  IF asked = {} THEN NoWork ELSE [NoWork EXCEPT !.at = "patch", !.asked = asked]

Tagging(made) ==
  IF made = {} THEN NoWork ELSE [NoWork EXCEPT !.at = "tag", !.made = made]

Init ==
  /\ rows = [i \in Ids |-> Blank]
  /\ count = 0
  /\ sessions = [m \in Messages |-> "none"]
  /\ job = [j \in Jobs |-> NoWork]

-----------------------------------------------------------------------------
At(j, step) == job[j].at = step

Active(i) == rows[i].state = "active"

Actives == {i \in Ids : Active(i)}

Does(j, work) == job' = [job EXCEPT ![j] = work]

Idle(j) == job[j] = NoWork

\* The first fact or decision is carried out where the searches end.
Left(j) == IF At(j, "search") THEN 0..(MaxFacts - 1) ELSE {job[j].left - 1}

\* One less; when all are done Create puts its tags on what it made.
Continues(j, at, made) ==
  \E left \in Left(j) :
    Does(j, IF left = 0 THEN Tagging(made)
            ELSE [job[j] EXCEPT !.at = at, !.left = left, !.made = made])

\* An error may hide an INSERT that took effect; only Create needs the row again.
Reports(j, at, i) ==
  \/ Continues(j, at, job[j].made)
  \/ job[j].patches /\ Continues(j, at, job[j].made \cup {i})

Adds(j, at, v, c) ==
  /\ count < MaxAdded
  /\ rows' = [rows EXCEPT ![count + 1] = Memory(FALSE, c, v)]
  /\ count' = count + 1
  /\ Reports(j, at, count + 1)

SkipsAsAdded(j, at) ==
  /\ Reports(j, at, count + 1)
  /\ UNCHANGED <<rows, count>>

\* Nothing to do, not found, or an error that is counted as a warning.
Skips(j, at) ==
  /\ Continues(j, at, job[j].made)
  /\ UNCHANGED <<rows, count>>

-----------------------------------------------------------------------------
(* Requests that are one statement, or one transaction. *)

\* BulkCreate: an embedding that failed is left out.
BulkCreate ==
  /\ \E n \in 1..(MaxAdded - count), c \in [Ids -> Contents], embedded \in BOOLEAN :
       /\ rows' = [i \in Ids |->
                    IF i \in (count + 1)..(count + n)
                    THEN Memory(TRUE, c[i], IF embedded THEN c[i] ELSE Null)
                    ELSE rows[i]]
       /\ count' = count + n
  /\ UNCHANGED <<sessions, job>>

\* Create without a language model, and Ingest of raw messages.
CreateRaw ==
  /\ count < MaxAdded
  /\ \E c \in Contents :
       rows' = [rows EXCEPT ![count + 1] = Memory(FALSE, c, c)]
  /\ count' = count + 1
  /\ UNCHANGED <<sessions, job>>

SoftDelete ==
  /\ \E i \in 1..count : rows' = [rows EXCEPT ![i].state = "deleted"]
  /\ UNCHANGED <<count, sessions, job>>

-----------------------------------------------------------------------------
(* Update, a PUT.  GetByID does not load the embedding. *)

Update(j) ==
  /\ Idle(j)
  /\ \E i \in Actives, c \in Contents \cup {Null} :
       Does(j, [NoWork EXCEPT !.at = "write", !.id = i, !.vector = c,
                  !.content = IF c = Null THEN rows[i].content ELSE c])
  /\ UNCHANGED <<rows, count, sessions>>

WriteIfEmbedded(j) ==
  /\ At(j, "write")
  /\ rows' = [rows EXCEPT ![job[j].id].content = job[j].content,
                          ![job[j].id].vector = IF job[j].vector = Null
                                                THEN rows[job[j].id].vector
                                                ELSE job[j].vector]
  /\ Does(j, Tagging(job[j].made))
  /\ UNCHANGED <<count, sessions>>

\* UpdateOptimistic: all columns, whatever became of the row since it was read.
Write(j) ==
  /\ At(j, "write")
  /\ rows' = [rows EXCEPT ![job[j].id].content = job[j].content,
                          ![job[j].id].vector = job[j].vector]
  /\ Does(j, Tagging(job[j].made))
  /\ UNCHANGED <<count, sessions>>

\* Create drops the error of a write and takes the next row.
WriteFails(j) ==
  /\ At(j, "write") /\ job[j].made # {}
  /\ Does(j, Tagging(job[j].made))
  /\ UNCHANGED <<rows, count, sessions>>

\* Create, after its reconciliation: the tags of the request.
ReadMade(j) ==
  /\ At(j, "tag")
  /\ \E i \in job[j].made :
       Does(j, IF Active(i)
               THEN [job[j] EXCEPT !.at = "write", !.id = i,
                                   !.content = rows[i].content,
                                   !.made = job[j].made \ {i}]
               ELSE Tagging(job[j].made \ {i}))
  /\ UNCHANGED <<rows, count, sessions>>

-----------------------------------------------------------------------------
(* A POST: the text of one memory, or the messages of a conversation. *)

\* The model finds facts in it; without any the goroutine is over.
Create(j) ==
  /\ Idle(j)
  /\ \E patches \in BOOLEAN : Does(j, Searching(patches))
  /\ UNCHANGED <<rows, count, sessions>>

\* INSERT IGNORE of all messages, in one transaction.
Kept(asked) ==
  [m \in Messages |->
    IF m \in asked /\ sessions[m] = "none" THEN "plain" ELSE sessions[m]]

\* If that fails the goroutine goes on.  The model finds facts or none, and
\* tags for some of the messages; each gets a goroutine of its own.
Ingest(j) ==
  /\ Idle(j)
  /\ \E asked \in SUBSET Messages :
       /\ sessions' \in {sessions, Kept(asked)}
       /\ \E tagged \in SUBSET asked :
            \/ Does(j, Patching(tagged))
            \/ tagged = {} /\ Does(j, Searching(FALSE))
            \/ \E k \in Jobs \ {j} :
                 /\ Idle(k)
                 /\ job' = [job EXCEPT ![j] = Searching(FALSE),
                                       ![k] = Patching(tagged)]
  /\ UNCHANGED <<rows, count>>

\* Only where there are no tags yet.
PatchTags(j) ==
  /\ At(j, "patch")
  /\ \E m \in job[j].asked :
       /\ \/ /\ sessions[m] = "plain"
             /\ \E t \in Tags : sessions' = [sessions EXCEPT ![m] = t]
          \/ UNCHANGED sessions
       /\ Does(j, Patching(job[j].asked \ {m}))
  /\ UNCHANGED <<rows, count>>

-----------------------------------------------------------------------------
(* reconcile. *)

\* A search for one of the facts; what no decision will be about is left out.
Search(j) ==
  /\ At(j, "search")
  /\ \E hits \in SUBSET Actives :
       /\ Cardinality(job[j].found \cup hits) <= MaxFound
       /\ Does(j, [job[j] EXCEPT !.found = job[j].found \cup hits])
  /\ UNCHANGED <<rows, count, sessions>>

Adding(j) == At(j, "add") \/ (At(j, "search") /\ job[j].found = {})

\* addAllFacts, where nothing was found: without embeddings if there are none.
AddFactUncounted(j) ==
  /\ Adding(j)
  /\ \/ \E c \in Contents : Adds(j, "add", c, c) \/ Adds(j, "add", Null, c)
     \/ SkipsAsAdded(j, "add")
  /\ UNCHANGED sessions

AddFact(j) ==
  /\ Adding(j)
  /\ \/ \E c \in Contents : Adds(j, "add", c, c) \/ Adds(j, "add", Null, c)
     \/ Skips(j, "add")
  /\ UNCHANGED sessions

ReplacesAnyway(j, i, c) ==
  /\ count < MaxRows
  /\ rows' = [rows EXCEPT ![i].state = "archived", ![i].successor = count + 1,
                          ![count + 1] = Memory(FALSE, c, c)]
  /\ count' = count + 1
  /\ Reports(j, "act", count + 1)

ReplacesInTwoSteps(j, i, c) ==
  /\ Active(i) /\ count < MaxRows
  /\ \/ /\ rows' = [rows EXCEPT ![i].state = "archived",
                                 ![i].successor = count + 1,
                                 ![count + 1] = Memory(FALSE, c, c)]
        /\ count' = count + 1
     \/ /\ rows' = [rows EXCEPT ![i].state = "archived",
                                 ![i].successor = count + 1]
        /\ UNCHANGED count
  /\ Reports(j, "act", count + 1)

\* ArchiveAndCreate, unless somebody else was faster.
Replaces(j, i, c) ==
  /\ Active(i) /\ count < MaxRows
  /\ rows' = [rows EXCEPT ![i].state = "archived", ![i].successor = count + 1,
                          ![count + 1] = Memory(FALSE, c, c)]
  /\ count' = count + 1
  /\ Reports(j, "act", count + 1)

\* SetState.
Deletes(j, i) ==
  /\ Active(i)
  /\ rows' = [rows EXCEPT ![i].state = "deleted"]
  /\ Continues(j, "act", job[j].made)
  /\ UNCHANGED count

\* One decision of the model about what was found; what is pinned stays, and
\* its replacement is added.
Act(j) ==
  /\ At(j, "act") \/ (At(j, "search") /\ job[j].found # {})
  /\ \/ \E c \in Contents : Adds(j, "act", c, c)
     \/ \E i \in job[j].found :
          /\ ~rows[i].pinned
          /\ Deletes(j, i) \/ \E c \in Contents : Replaces(j, i, c)
     \/ Skips(j, "act")
  /\ UNCHANGED sessions

\* A read, an embedding or the model fails, or the server crashes.
GivesUp(j) ==
  /\ ~Idle(j)
  /\ Does(j, NoWork)
  /\ UNCHANGED <<rows, count, sessions>>

-----------------------------------------------------------------------------
Goroutine(j) ==
  \/ Update(j) \/ Write(j) \/ WriteFails(j) \/ ReadMade(j)
  \/ Create(j) \/ Ingest(j) \/ PatchTags(j)
  \/ Search(j) \/ AddFact(j) \/ Act(j)
  \/ GivesUp(j)

Next ==
  \/ BulkCreate \/ CreateRaw \/ SoftDelete
  \/ \E j \in Jobs : Goroutine(j)

Spec == Init /\ [][Next]_vars

-----------------------------------------------------------------------------
TypeOK ==
  /\ rows \in [Ids -> Row]
  /\ count \in 0..MaxRows
  /\ sessions \in [Messages -> Tags \cup {"none", "plain"}]
  /\ job \in [Jobs -> Work]
  /\ \A i \in Ids : rows[i].state = "none" <=> i > count
  /\ \A j \in Jobs : job[j].made \cup job[j].found \subseteq 1..count

(***************************************************************************)
(* However many goroutines decide to replace a memory, and whatever users  *)
(* delete meanwhile: what was archived has its successor in the table, a   *)
(* memory that was created later and succeeds no other, and what has a     *)
(* successor is active no more.                                            *)
(***************************************************************************)
OneSuccessor ==
  /\ \A i \in Ids :
       /\ rows[i].state = "archived" => rows[i].successor # 0
       /\ rows[i].successor # 0 =>
            rows[i].successor \in (i + 1)..count /\ ~Active(i)
  /\ \A i, k \in Ids :
       rows[i].successor = rows[k].successor => i = k \/ rows[i].successor = 0

(***************************************************************************)
(* A vector belongs to the text beside it, so a search by meaning finds    *)
(* what it returns: an update writes all columns of a copy that may be     *)
(* old, and text and vector always come from the same writer.              *)
(***************************************************************************)
VectorFitsContent == \A i \in Ids : rows[i].vector \in {rows[i].content, Null}

(***************************************************************************)
(* Over all overlapping updates, deletions and reconciliations the tables  *)
(* have the history that MemoryHistory promises.                           *)
(***************************************************************************)
Stored ==
  [i \in Ids |-> [pinned |-> rows[i].pinned, content |-> rows[i].content,
                  state |-> rows[i].state, successor |-> rows[i].successor]]

History == INSTANCE MemoryHistory WITH memories <- Stored, messages <- sessions

IsHistory == History!Spec
=============================================================================
