---------------------------- MODULE MemoryHistory -----------------------------
(***************************************************************************)
(* What the memory server promises of its two tables, whoever writes and   *)
(* however the writers overlap.  A memory is active, then archived or      *)
(* deleted, and never comes back.  It is archived in one step with the     *)
(* creation of the memory that replaces it, which schema.sql:51 calls "ID  *)
(* of the memory that replaced this one", and what a user pinned is never  *)
(* replaced.  A message of a conversation is kept once, with the first     *)
(* tags it got.                                                            *)
(***************************************************************************)
EXTENDS Naturals

CONSTANTS Contents, Messages, Tags, Null, MaxRows

VARIABLES
  memories,  \* by number, in the order of their creation
  count,     \* how many there are
  messages   \* "none", "plain", or the tags

vars == <<memories, count, messages>>

Ids == 1..MaxRows

Blank == [pinned |-> FALSE, content |-> Null, state |-> "none", successor |-> 0]

Fresh(pinned, c) ==
  [pinned |-> pinned, content |-> c, state |-> "active", successor |-> 0]

Init ==
  /\ memories = [i \in Ids |-> Blank]
  /\ count = 0
  /\ messages = [m \in Messages |-> "none"]

Remember ==
  /\ \E n \in 1..(MaxRows - count), pinned \in BOOLEAN, c \in [Ids -> Contents] :
       /\ memories' = [i \in Ids |-> IF i \in (count + 1)..(count + n)
                                     THEN Fresh(pinned, c[i]) ELSE memories[i]]
       /\ count' = count + n
  /\ UNCHANGED messages

Edit ==
  /\ \E i \in 1..count, c \in Contents :
       memories' = [memories EXCEPT ![i].content = c]
  /\ UNCHANGED <<count, messages>>

Replace ==
  /\ count < MaxRows
  /\ \E i \in 1..count, c \in Contents :
       /\ memories[i].state = "active" /\ ~memories[i].pinned
       /\ memories' = [memories EXCEPT ![i].state = "archived",
                                       ![i].successor = count + 1,
                                       ![count + 1] = Fresh(FALSE, c)]
  /\ count' = count + 1
  /\ UNCHANGED messages

Forget ==
  /\ \E i \in 1..count : memories' = [memories EXCEPT ![i].state = "deleted"]
  /\ UNCHANGED <<count, messages>>

Keep ==
  /\ \E kept \in SUBSET Messages :
       messages' = [m \in Messages |->
                     IF m \in kept /\ messages[m] = "none" THEN "plain"
                                                           ELSE messages[m]]
  /\ UNCHANGED <<memories, count>>

Tag ==
  /\ \E m \in Messages, t \in Tags :
       messages[m] = "plain" /\ messages' = [messages EXCEPT ![m] = t]
  /\ UNCHANGED <<memories, count>>

Next == Remember \/ Edit \/ Replace \/ Forget \/ Keep \/ Tag

Spec == Init /\ [][Next]_vars
=============================================================================
