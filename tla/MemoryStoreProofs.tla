-------------------------- MODULE MemoryStoreProofs ---------------------------
(***************************************************************************)
(* Proofs about MemoryStore, for any goroutines, texts, messages and       *)
(* bounds.  A step is taken apart into what it does to the table and what  *)
(* becomes of its goroutine: the tables have an invariant of their own,    *)
(* and a goroutine only needs that memories are never fewer.               *)
(***************************************************************************)
EXTENDS MemoryStore, TLAPS

USE MemoryAssumption DEF MemoryAssumption, Ids

Texts == Contents \cup {Null}

\* The table: what exists has a text.
TableInv ==
  /\ rows \in [Ids -> Row]
  /\ count \in 0..MaxRows
  /\ \A i \in Ids : rows[i].state = "none" <=> i > count
  /\ \A i \in 1..count : rows[i].content \in Contents
  /\ OneSuccessor
  /\ VectorFitsContent

\* What a goroutine carries is among n memories, and what it is to write fits
\* together.
Carries(w, n) ==
  /\ w.made \cup w.found \subseteq 1..n
  /\ w.at \in {"add", "act"} => w.left > 0
  /\ w.at = "write" => /\ w.id \in 1..n
                       /\ w.content \in Contents
                       /\ w.vector \in {w.content, Null}
  /\ w.at = "tag" => w.vector = Null

JobsInv ==
  /\ job \in [Jobs -> Work]
  /\ \A j \in Jobs : Carries(job[j], count)

SessionsInv == sessions \in [Messages -> Tags \cup {"none", "plain"}]

StoreInv == TableInv /\ JobsInv /\ SessionsInv

-----------------------------------------------------------------------------
(* What a step may do to the table. *)

Appends(pinned, c, v) ==
  /\ count < MaxRows
  /\ rows' = [rows EXCEPT ![count + 1] = Memory(pinned, c, v)]
  /\ count' = count + 1

\* The table has its invariant again, it has not shrunk, and the step is one
\* of MemoryHistory.
Behaves ==
  /\ TableInv'
  /\ count' \in count..MaxRows
  /\ History!Next \/ UNCHANGED <<Stored, count, sessions>>

\* Nothing.
LEMMA NothingBehaves ==
  ASSUME TableInv, UNCHANGED <<rows, count>>
  PROVE  TableInv' /\ count' \in count..MaxRows /\ UNCHANGED <<Stored, count>>
<1>1. TableInv'
  BY DEF TableInv, OneSuccessor, Active, VectorFitsContent
<1> QED
  BY <1>1 DEF TableInv, Stored

\* Another memory.
LEMMA AppendBehaves ==
  ASSUME TableInv, NEW pinned \in BOOLEAN, NEW c \in Contents,
         NEW v \in {c, Null}, Appends(pinned, c, v), UNCHANGED sessions
  PROVE  Behaves
<1> DEFINE new == count + 1
<1>1. new \in Ids /\ Memory(pinned, c, v) \in Row /\ count \in Nat
  BY DEF TableInv, Appends, Memory, Row
<1>2. /\ rows' \in [Ids -> Row]
      /\ rows'[new] = Memory(pinned, c, v)
      /\ \A i \in Ids \ {new} : rows'[i] = rows[i]
  BY <1>1 DEF TableInv, Appends
<1>3. count' = new
  BY DEF Appends
<1> HIDE DEF new
<1>4. /\ \A i \in Ids : rows'[i].state = "none" <=> i > count'
      /\ \A i \in 1..count' : rows'[i].content \in Contents
  BY <1>1, <1>2, <1>3 DEF TableInv, Memory, new
<1>5. VectorFitsContent'
  BY <1>1, <1>2 DEF TableInv, VectorFitsContent, Memory
<1>6. OneSuccessor'
  <2>1. /\ rows'[new].state = "active" /\ rows'[new].successor = 0
        /\ \A i \in Ids \ {new} : /\ rows'[i].state = rows[i].state
                                  /\ rows'[i].successor = rows[i].successor
    BY <1>2 DEF Memory
  <2>2. \A i \in Ids : (i + 1)..count \subseteq (i + 1)..count'
    BY <1>1, <1>3 DEF new
  <2>3. \A i \in Ids :
          /\ rows'[i].state = "archived" => rows'[i].successor # 0
          /\ rows'[i].successor # 0 =>
               rows'[i].successor \in (i + 1)..count' /\ rows'[i].state # "active"
    BY <2>1, <2>2 DEF TableInv, OneSuccessor, Active
  <2>4. \A i, k \in Ids : rows'[i].successor = rows'[k].successor =>
                           i = k \/ rows'[i].successor = 0
    BY <2>1 DEF TableInv, OneSuccessor
  <2> QED
    BY <2>3, <2>4 DEF OneSuccessor, Active
<1>7. TableInv' /\ count' \in count..MaxRows
  BY <1>1, <1>2, <1>3, <1>4, <1>5, <1>6 DEF TableInv, new
<1>8. History!Remember
  <2> DEFINE text == [i \in Ids |-> c]
  <2>1. Stored' = [i \in Ids |-> IF i \in (count + 1)..(count + 1)
                                THEN History!Fresh(pinned, text[i]) ELSE Stored[i]]
    BY <1>1, <1>2 DEF Stored, History!Fresh, Memory, new
  <2>2. text \in [Ids -> Contents] /\ 1 \in 1..(MaxRows - count)
    BY <1>1 DEF Appends
  <2> HIDE DEF text
  <2> QED
    BY <1>3, <2>1, <2>2 DEF History!Remember, History!Ids, new
<1> QED
  BY <1>7, <1>8 DEF Behaves, History!Next

\* Other text in a memory.
LEMMA EditBehaves ==
  ASSUME TableInv, NEW i \in 1..count, NEW c \in Contents, NEW v \in {c, Null},
         rows' = [rows EXCEPT ![i].content = c, ![i].vector = v],
         UNCHANGED <<count, sessions>>
  PROVE  Behaves
<1>1. i \in Ids /\ rows[i] \in Row
  BY DEF TableInv
<1>2. [rows[i] EXCEPT !.content = c, !.vector = v] \in Row
  BY <1>1 DEF Row
<1>3. rows' = [rows EXCEPT ![i] = [rows[i] EXCEPT !.content = c, !.vector = v]]
  BY <1>1 DEF TableInv
<1>4. /\ rows' \in [Ids -> Row]
      /\ rows'[i].content = c /\ rows'[i].vector = v
      /\ \A k \in Ids \ {i} : rows'[k] = rows[k]
      /\ \A k \in Ids : /\ rows'[k].state = rows[k].state
                        /\ rows'[k].successor = rows[k].successor
                        /\ rows'[k].pinned = rows[k].pinned
  BY <1>1, <1>2, <1>3 DEF TableInv, Row
<1>5. VectorFitsContent'
  BY <1>1, <1>4 DEF TableInv, VectorFitsContent
<1>6. OneSuccessor'
  BY <1>4 DEF TableInv, OneSuccessor, Active
<1>7. TableInv' /\ count' \in count..MaxRows
  BY <1>1, <1>4, <1>5, <1>6 DEF TableInv
<1>8. Stored' = [Stored EXCEPT ![i].content = c]
  BY <1>1, <1>4 DEF Stored
<1> QED
  BY <1>7, <1>8 DEF Behaves, History!Next, History!Edit

\* A memory that is deleted, whether it was replaced before or not.
LEMMA ForgetBehaves ==
  ASSUME TableInv, NEW i \in 1..count,
         rows' = [rows EXCEPT ![i].state = "deleted"],
         UNCHANGED <<count, sessions>>
  PROVE  Behaves
<1>1. i \in Ids /\ rows[i] \in Row
  BY DEF TableInv
<1>2. [rows[i] EXCEPT !.state = "deleted"] \in Row
  BY <1>1 DEF Row
<1>3. rows' = [rows EXCEPT ![i] = [rows[i] EXCEPT !.state = "deleted"]]
  BY <1>1 DEF TableInv
<1>4. /\ rows' \in [Ids -> Row]
      /\ rows'[i].state = "deleted"
      /\ \A k \in Ids \ {i} : rows'[k] = rows[k]
      /\ \A k \in Ids : /\ rows'[k].content = rows[k].content
                        /\ rows'[k].vector = rows[k].vector
                        /\ rows'[k].successor = rows[k].successor
                        /\ rows'[k].pinned = rows[k].pinned
  BY <1>1, <1>2, <1>3 DEF TableInv, Row
<1>5. VectorFitsContent'
  BY <1>4 DEF TableInv, VectorFitsContent
<1>6. OneSuccessor'
  BY <1>1, <1>4 DEF TableInv, OneSuccessor, Active
<1>7. TableInv' /\ count' \in count..MaxRows
  BY <1>1, <1>4, <1>5, <1>6 DEF TableInv
<1>8. Stored' = [Stored EXCEPT ![i].state = "deleted"]
  BY <1>1, <1>4 DEF Stored
<1> QED
  BY <1>7, <1>8 DEF Behaves, History!Next, History!Forget

\* A memory that is archived with the creation of its successor.
LEMMA ReplaceBehaves ==
  ASSUME TableInv, NEW i \in 1..count, NEW c \in Contents,
         Active(i), ~rows[i].pinned, count < MaxRows,
         rows' = [rows EXCEPT ![i].state = "archived",
                              ![i].successor = count + 1,
                              ![count + 1] = Memory(FALSE, c, c)],
         count' = count + 1, UNCHANGED sessions
  PROVE  Behaves
<1> DEFINE new == count + 1
<1>1. /\ i \in Ids /\ rows[i] \in Row /\ new \in Ids /\ new # i /\ i < new
      /\ count \in Nat /\ new \in Nat /\ Memory(FALSE, c, c) \in Row
  BY DEF TableInv, Memory, Row
<1>2. [rows[i] EXCEPT !.state = "archived", !.successor = new] \in Row
  BY <1>1 DEF Row
<1>3. rows' = [rows EXCEPT ![i] = [rows[i] EXCEPT !.state = "archived",
                                                  !.successor = new],
                           ![new] = Memory(FALSE, c, c)]
  BY <1>1 DEF TableInv
<1>4. count' = new
  OBVIOUS
<1>5. /\ rows' \in [Ids -> Row]
      /\ rows'[new] = Memory(FALSE, c, c)
      /\ rows'[i].state = "archived" /\ rows'[i].successor = new
      /\ rows'[i].content = rows[i].content /\ rows'[i].vector = rows[i].vector
      /\ rows'[i].pinned = rows[i].pinned
      /\ \A k \in Ids \ {i, new} : rows'[k] = rows[k]
  <2> DEFINE old == [rows EXCEPT ![i] = [rows[i] EXCEPT !.state = "archived",
                                                        !.successor = new]]
  <2>1. old \in [Ids -> Row] /\ rows' = [old EXCEPT ![new] = Memory(FALSE, c, c)]
    BY <1>1, <1>2, <1>3 DEF TableInv
  <2>2. /\ old[i].state = "archived" /\ old[i].successor = new
        /\ old[i].content = rows[i].content /\ old[i].vector = rows[i].vector
        /\ old[i].pinned = rows[i].pinned
        /\ \A k \in Ids \ {i} : old[k] = rows[k]
    BY <1>1 DEF TableInv, Row
  <2> HIDE DEF old, new
  <2> QED
    BY <1>1, <2>1, <2>2
<1>6. /\ \A k \in Ids : rows'[k].state = "none" <=> k > count'
      /\ \A k \in 1..count' : rows'[k].content \in Contents
  <2> HIDE DEF new
  <2>1. \A k \in Ids \ {new} : k > new <=> k > count
    BY <1>1 DEF new
  <2>2. \A k \in (1..new) \ {new} : k \in 1..count
    BY <1>1 DEF new
  <2> QED
    BY <1>1, <1>4, <1>5, <2>1, <2>2 DEF TableInv, Memory
<1>7. VectorFitsContent'
  BY <1>1, <1>5 DEF TableInv, VectorFitsContent, Memory
<1>8. OneSuccessor'
  <2> HIDE DEF new
  <2>1. \A k \in Ids : /\ (k + 1)..count \subseteq (k + 1)..count'
                       /\ new \notin (k + 1)..count /\ new # 0
    BY <1>1, <1>4 DEF new
  <2>2. new \in (i + 1)..count'
    BY <1>1, <1>4
  <2>3. /\ rows'[new].state = "active" /\ rows'[new].successor = 0
        /\ \A k \in Ids \ {i, new} : /\ rows'[k].state = rows[k].state
                                     /\ rows'[k].successor = rows[k].successor
    <3>1. Memory(FALSE, c, c).state = "active" /\ Memory(FALSE, c, c).successor = 0
      BY DEF Memory
    <3> QED
      BY <1>5, <3>1
  <2>4. \A k \in Ids :
          /\ rows'[k].state = "archived" => rows'[k].successor # 0
          /\ rows'[k].successor # 0 =>
               rows'[k].successor \in (k + 1)..count' /\ rows'[k].state # "active"
    BY <1>5, <2>1, <2>2, <2>3 DEF TableInv, OneSuccessor, Active
  <2>5. \A k \in Ids \ {i} : rows'[k].successor # new
    <3>1. \A k \in Ids : rows[k].successor # new
      BY <2>1 DEF TableInv, OneSuccessor
    <3> QED
      BY <2>1, <2>3, <3>1
  <2>6. \A k, n \in Ids : rows'[k].successor = rows'[n].successor =>
                           k = n \/ rows'[k].successor = 0
    <3>1. /\ rows'[i].successor = new
          /\ \A k \in Ids \ {i} : rows'[k].successor \in {0, rows[k].successor}
      BY <1>5, <2>3
    <3>2. \A k, n \in Ids : rows[k].successor = rows[n].successor =>
                             k = n \/ rows[k].successor = 0
      BY DEF TableInv, OneSuccessor
    <3>3. \A k, n \in Ids \ {i} : rows'[k].successor = rows'[n].successor =>
                                   k = n \/ rows'[k].successor = 0
      BY <2>3, <3>2
    <3> QED
      BY <2>5, <3>1, <3>3
  <2> QED
    BY <2>4, <2>6 DEF OneSuccessor, Active
<1>9. TableInv' /\ count' \in count..MaxRows
  <2>1. count' \in 0..MaxRows /\ count' \in count..MaxRows
    BY <1>1, <1>4
  <2> QED
    BY <1>5, <1>6, <1>7, <1>8, <2>1 DEF TableInv
<1>10. History!Replace
  <2>1. Stored' = [Stored EXCEPT ![i].state = "archived", ![i].successor = count + 1,
                                 ![count + 1] = History!Fresh(FALSE, c)]
    BY <1>1, <1>5 DEF Stored, Memory, History!Fresh
  <2>2. Stored[i].state = "active" /\ ~Stored[i].pinned
    BY <1>1 DEF Stored, Active
  <2> QED
    BY <2>1, <2>2 DEF History!Replace
<1> QED
  BY <1>9, <1>10 DEF Behaves, History!Next

\* Some memories at once.
LEMMA BulkBehaves ==
  ASSUME TableInv, BulkCreate
  PROVE  Behaves
<1>1. PICK n \in 1..(MaxAdded - count), c \in [Ids -> Contents],
           embedded \in BOOLEAN :
        /\ rows' = [i \in Ids |->
                     IF i \in (count + 1)..(count + n)
                     THEN Memory(TRUE, c[i], IF embedded THEN c[i] ELSE Null)
                     ELSE rows[i]]
        /\ count' = count + n
  BY DEF BulkCreate
<1>2. /\ count \in Nat /\ count' \in count..MaxRows /\ n \in 1..(MaxRows - count)
      /\ \A i \in Ids : i \in (count + 1)..(count + n) <=> i > count /\ i <= count'
  BY <1>1 DEF TableInv
<1> DEFINE Added(i) == i > count /\ i <= count'
           Text(i) == Memory(TRUE, c[i], IF embedded THEN c[i] ELSE Null)
<1>3. /\ \A i \in Ids : Added(i) => rows'[i] = Text(i)
      /\ \A i \in Ids : ~Added(i) => rows'[i] = rows[i]
  BY <1>1, <1>2
<1>4. \A i \in Ids : /\ Text(i) \in Row /\ Text(i).state = "active"
                     /\ Text(i).successor = 0 /\ Text(i).content \in Contents
                     /\ Text(i).vector \in {Text(i).content, Null}
  BY DEF Memory, Row
<1> HIDE DEF Text
<1>5. rows' \in [Ids -> Row]
  BY <1>1, <1>3, <1>4 DEF TableInv
<1>6. /\ \A i \in Ids : rows'[i].state = "none" <=> i > count'
      /\ \A i \in 1..count' : rows'[i].content \in Contents
  BY <1>2, <1>3, <1>4 DEF TableInv
<1>7. VectorFitsContent'
  BY <1>3, <1>4 DEF TableInv, VectorFitsContent
<1>8. OneSuccessor'
  <2>1. \A i \in Ids : (i + 1)..count \subseteq (i + 1)..count'
    BY <1>2
  <2>2. \A i \in Ids : /\ Added(i) => rows'[i].state = "active" /\ rows'[i].successor = 0
                       /\ ~Added(i) => /\ rows'[i].state = rows[i].state
                                       /\ rows'[i].successor = rows[i].successor
    BY <1>3, <1>4
  <2> HIDE DEF Added
  <2>3. \A i \in Ids :
          /\ rows'[i].state = "archived" => rows'[i].successor # 0
          /\ rows'[i].successor # 0 =>
               rows'[i].successor \in (i + 1)..count' /\ rows'[i].state # "active"
    BY <2>1, <2>2 DEF TableInv, OneSuccessor, Active
  <2>4. \A i, k \in Ids : rows'[i].successor = rows'[k].successor =>
                           i = k \/ rows'[i].successor = 0
    BY <2>2 DEF TableInv, OneSuccessor
  <2> QED
    BY <2>3, <2>4 DEF OneSuccessor, Active
<1>9. TableInv'
  BY <1>2, <1>5, <1>6, <1>7, <1>8 DEF TableInv
<1>10. History!Remember
  <2>1. Stored' = [i \in Ids |-> IF i \in (count + 1)..(count + n)
                                THEN History!Fresh(TRUE, c[i]) ELSE Stored[i]]
    BY <1>1 DEF Stored, History!Fresh, Memory
  <2> QED
    BY <1>1, <1>2, <2>1 DEF History!Remember, History!Ids, BulkCreate
<1> QED
  BY <1>2, <1>9, <1>10 DEF Behaves, History!Next

-----------------------------------------------------------------------------
(* What becomes of the goroutines. *)

\* One goes on with what it may carry.
LEMMA Doing ==
  ASSUME JobsInv, count \in 0..MaxRows, count' \in count..MaxRows,
         NEW j \in Jobs, NEW w \in Work, Carries(w, count'), Does(j, w)
  PROVE  JobsInv'
<1>1. /\ job' \in [Jobs -> Work] /\ job'[j] = w
      /\ \A k \in Jobs \ {j} : job'[k] = job[k]
  BY DEF JobsInv, Does
<1>2. 1..count \subseteq 1..count'
  OBVIOUS
<1>3. \A k \in Jobs \ {j} : Carries(job'[k], count')
  BY <1>1, <1>2 DEF JobsInv, Carries
<1> QED
  BY <1>1, <1>3 DEF JobsInv

\* None does anything.
LEMMA NobodyDoing ==
  ASSUME JobsInv, count \in 0..MaxRows, count' \in count..MaxRows, UNCHANGED job
  PROVE  JobsInv'
<1>1. 1..count \subseteq 1..count'
  OBVIOUS
<1> QED
  BY <1>1 DEF JobsInv, Carries

\* The blank goroutine, one that patches and one that tags carry little.
LEMMA Blanks ==
  /\ NoWork \in Work
  /\ \A n \in Nat : Carries(NoWork, n)
  /\ \A asked \in SUBSET Messages, n \in Nat :
       Patching(asked) \in Work /\ Carries(Patching(asked), n)
  /\ \A patches \in BOOLEAN, n \in Nat :
       Searching(patches) \in Work /\ Carries(Searching(patches), n)
<1>1. NoWork \in Work /\ \A n \in Nat : Carries(NoWork, n)
  BY DEF NoWork, Work, Steps, Carries
<1>2. \A asked \in SUBSET Messages, n \in Nat :
        Patching(asked) \in Work /\ Carries(Patching(asked), n)
  BY <1>1 DEF Patching, NoWork, Work, Steps, Carries
<1>3. \A patches \in BOOLEAN, n \in Nat :
        Searching(patches) \in Work /\ Carries(Searching(patches), n)
  <2>1. \A patches \in BOOLEAN : Searching(patches) \in Work
    BY <1>1 DEF Searching, Work, Steps
  <2>2. NoWork.made = {} /\ NoWork.found = {}
    BY DEF NoWork
  <2>3. \A patches \in BOOLEAN : /\ Searching(patches).made = {}
                                 /\ Searching(patches).found = {}
                                 /\ Searching(patches).at = "search"
    BY <1>1, <2>2 DEF Searching, Work
  <2> QED
    BY <2>1, <2>3 DEF Carries
<1> QED
  BY <1>1, <1>2, <1>3

\* One that tags carries the memories it is to tag.
LEMMA TaggingCarries ==
  ASSUME NEW n \in 0..MaxRows, NEW made \in SUBSET (1..n)
  PROVE  Tagging(made) \in Work /\ Carries(Tagging(made), n)
<1>1. made \in SUBSET Ids
  OBVIOUS
<1> QED
  BY <1>1, Blanks DEF Tagging, NoWork, Work, Steps, Carries

\* A decision or a fact is done with.
LEMMA Continuing ==
  ASSUME JobsInv, count \in 0..MaxRows, count' \in count..MaxRows,
         NEW j \in Jobs, NEW at \in {"add", "act"}, job[j].at \in {"search", at},
         NEW made \in SUBSET (1..count'), Continues(j, at, made)
  PROVE  JobsInv'
<1>1. /\ job[j] \in Work /\ job[j].found \subseteq 1..count
      /\ job[j].at # "search" => job[j].left > 0
  BY DEF JobsInv, Carries
<1>2. PICK left \in Left(j) :
        Does(j, IF left = 0 THEN Tagging(made)
                ELSE [job[j] EXCEPT !.at = at, !.left = left, !.made = made])
  BY DEF Continues
<1>3. left \in 0..MaxFacts
  BY <1>1 DEF Left, At, Work
<1>4. made \in SUBSET Ids /\ 1..count \subseteq 1..count' /\ count' \in 0..MaxRows
  OBVIOUS
<1>5. CASE left = 0
  BY <1>2, <1>4, <1>5, TaggingCarries, Doing
<1>6. CASE left # 0
  <2> DEFINE w == [job[j] EXCEPT !.at = at, !.left = left, !.made = made]
  <2>1. w \in Work
    BY <1>1, <1>3, <1>4 DEF Work, Steps
  <2>2. Carries(w, count')
    BY <1>1, <1>3, <1>4, <1>6 DEF Work, Carries
  <2>3. Does(j, w)
    BY <1>2, <1>6
  <2> HIDE DEF w
  <2> QED
    BY <2>1, <2>2, <2>3, Doing
<1> QED
  BY <1>5, <1>6

\* A fact or a decision whose memory, i, may be one.
LEMMA Reporting ==
  ASSUME JobsInv, count \in 0..MaxRows, count' \in count..MaxRows,
         NEW j \in Jobs, NEW at \in {"add", "act"}, job[j].at \in {"search", at},
         NEW i \in 1..count', Reports(j, at, i)
  PROVE  JobsInv'
<1>1. job[j].made \in SUBSET (1..count') /\ job[j].made \cup {i} \in SUBSET (1..count')
  BY DEF JobsInv, Carries
<1> QED
  BY <1>1, Continuing DEF Reports

-----------------------------------------------------------------------------
(* The steps of a goroutine that decides. *)

\* A memory is added, or seems not to be.
LEMMA AddingOne ==
  ASSUME StoreInv, NEW j \in Jobs, NEW at \in {"add", "act"},
         job[j].at \in {"search", at}, NEW c \in Contents, NEW v \in {c, Null},
         Adds(j, at, v, c), UNCHANGED sessions
  PROVE  Behaves /\ JobsInv'
<1>1. Appends(FALSE, c, v) /\ Reports(j, at, count + 1) /\ count' = count + 1
  BY DEF Adds, Appends, StoreInv, TableInv
<1>2. Behaves
  BY <1>1, AppendBehaves DEF StoreInv
<1>3. count + 1 \in 1..count' /\ count' \in count..MaxRows /\ count \in 0..MaxRows
  BY <1>1, <1>2 DEF Behaves, StoreInv, TableInv
<1>4. JobsInv'
  BY <1>1, <1>3, Reporting DEF StoreInv
<1> QED
  BY <1>2, <1>4

\* Nothing is done.
LEMMA Skipping ==
  ASSUME StoreInv, NEW j \in Jobs, NEW at \in {"add", "act"},
         job[j].at \in {"search", at}, Skips(j, at), UNCHANGED sessions
  PROVE  Behaves /\ JobsInv'
<1>1. Behaves
  BY NothingBehaves DEF Skips, Behaves, StoreInv
<1>2. job[j].made \in SUBSET (1..count') /\ count' = count /\ count \in 0..MaxRows
  BY DEF Skips, StoreInv, TableInv, JobsInv, Carries
<1>3. JobsInv'
  BY <1>2, Continuing DEF StoreInv, Skips
<1> QED
  BY <1>1, <1>3

\* addAllFacts.
LEMMA AddFactStep ==
  ASSUME StoreInv, NEW j \in Jobs, AddFact(j)
  PROVE  Behaves /\ JobsInv'
<1>1. job[j].at \in {"search", "add"} /\ UNCHANGED sessions
  BY DEF AddFact, Adding, At
<1>2. CASE \E c \in Contents : Adds(j, "add", c, c) \/ Adds(j, "add", Null, c)
  BY <1>1, <1>2, AddingOne
<1>3. CASE Skips(j, "add")
  BY <1>1, <1>3, Skipping
<1> QED
  BY <1>2, <1>3 DEF AddFact

\* A decision of the model.
LEMMA ActStep ==
  ASSUME StoreInv, NEW j \in Jobs, Act(j)
  PROVE  Behaves /\ JobsInv'
<1>1. /\ job[j].at \in {"search", "act"} /\ UNCHANGED sessions
      /\ job[j].found \cup job[j].made \subseteq 1..count /\ count \in 0..MaxRows
  BY DEF Act, At, StoreInv, TableInv, JobsInv, Carries
<1>2. CASE \E c \in Contents : Adds(j, "act", c, c)
  BY <1>1, <1>2, AddingOne
<1>3. CASE Skips(j, "act")
  BY <1>1, <1>3, Skipping
<1>4. ASSUME NEW i \in job[j].found, ~rows[i].pinned, Deletes(j, i)
      PROVE  Behaves /\ JobsInv'
  <2>1. i \in 1..count
    BY <1>1
  <2>2. Behaves
    BY <1>1, <1>4, <2>1, ForgetBehaves DEF Deletes, StoreInv
  <2>3. job[j].made \in SUBSET (1..count') /\ count' \in count..MaxRows
    BY <1>1, <1>4 DEF Deletes
  <2> QED
    BY <1>1, <1>4, <2>2, <2>3, Continuing DEF Deletes, StoreInv
<1>5. ASSUME NEW i \in job[j].found, ~rows[i].pinned, NEW c \in Contents,
             Replaces(j, i, c)
      PROVE  Behaves /\ JobsInv'
  <2>1. i \in 1..count
    BY <1>1
  <2>2. Behaves
    BY <1>1, <1>5, <2>1, ReplaceBehaves DEF Replaces, StoreInv
  <2>3. count + 1 \in 1..count' /\ count' \in count..MaxRows
    BY <1>1, <1>5, <2>2 DEF Replaces, Behaves
  <2> QED
    BY <1>1, <1>5, <2>2, <2>3, Reporting DEF Replaces, StoreInv
<1> QED
  BY <1>2, <1>3, <1>4, <1>5 DEF Act

\* What leaves the tables alone.
LEMMA Reading ==
  ASSUME StoreInv, UNCHANGED <<rows, count, sessions>>,
         NEW j \in Jobs, NEW w \in Work, Carries(w, count), Does(j, w)
  PROVE  Behaves /\ JobsInv'
<1>1. Behaves
  BY NothingBehaves DEF Behaves, StoreInv
<1>2. Carries(w, count') /\ count \in 0..MaxRows /\ count' \in count..MaxRows
  BY DEF StoreInv, TableInv
<1> QED
  BY <1>1, <1>2, Doing DEF StoreInv

\* A memory is read, for an update or for the tags of a Create.
LEMMA ReadStep ==
  ASSUME StoreInv, NEW j \in Jobs, Update(j) \/ ReadMade(j)
  PROVE  Behaves /\ JobsInv'
<1>1. count \in 0..MaxRows /\ job[j] \in Work /\ Carries(job[j], count)
  BY DEF StoreInv, TableInv, JobsInv
<1>2. \A i \in Actives : i \in 1..count /\ rows[i].content \in Contents
  BY DEF StoreInv, TableInv, Actives, Active
<1>3. CASE Update(j)
  <2>1. PICK i \in Actives, c \in Contents \cup {Null} :
          Does(j, [NoWork EXCEPT !.at = "write", !.id = i, !.vector = c,
                     !.content = IF c = Null THEN rows[i].content ELSE c])
    BY <1>3 DEF Update
  <2> DEFINE text == IF c = Null THEN rows[i].content ELSE c
             w == [NoWork EXCEPT !.at = "write", !.id = i, !.vector = c,
                                 !.content = text]
  <2>2. text \in Contents /\ i \in Ids
    BY <1>1, <1>2
  <2> HIDE DEF text
  <2>3. w \in Work
    <3>1. text \in Contents \cup {Null} /\ i \in 0..MaxRows
      BY <2>2
    <3> QED
      BY <2>1, <3>1, Blanks DEF Work, Steps
  <2>4. /\ w.made = NoWork.made /\ w.found = NoWork.found /\ w.at = "write"
        /\ w.id = i /\ w.vector = c /\ w.content = text
    BY Blanks DEF Work
  <2>5. NoWork.made = {} /\ NoWork.found = {}
    BY DEF NoWork
  <2>6. c \in {text, Null}
    BY DEF text
  <2>7. Carries(w, count)
    BY <1>2, <2>2, <2>4, <2>5, <2>6 DEF Carries
  <2>8. Does(j, w)
    BY <2>1 DEF text
  <2> HIDE DEF w
  <2> QED
    BY <1>3, <2>3, <2>7, <2>8, Reading DEF Update
<1>4. CASE ReadMade(j)
  <2>1. PICK i \in job[j].made :
          Does(j, IF Active(i)
                  THEN [job[j] EXCEPT !.at = "write", !.id = i,
                                      !.content = rows[i].content,
                                      !.made = job[j].made \ {i}]
                  ELSE Tagging(job[j].made \ {i}))
    BY <1>4 DEF ReadMade
  <2>2. i \in Ids /\ job[j].made \ {i} \in SUBSET (1..count)
    BY <1>1, <2>1 DEF Work, Carries
  <2>3. CASE Active(i)
    <3> DEFINE w == [job[j] EXCEPT !.at = "write", !.id = i,
                                   !.content = rows[i].content,
                                   !.made = job[j].made \ {i}]
    <3>1. i \in Actives
      BY <2>2, <2>3 DEF Actives
    <3>2. w \in Work
      <4>1. rows[i].content \in Texts /\ job[j].made \ {i} \in SUBSET Ids
        BY <1>1, <1>2, <2>2, <3>1 DEF Texts
      <4>2. i \in 0..MaxRows
        BY <2>2
      <4> QED
        BY <1>1, <4>1, <4>2 DEF Work, Steps, Texts
    <3>3. job[j].vector = Null
      BY <1>1, <1>4 DEF ReadMade, At, Carries
    <3>4. Carries(w, count)
      BY <1>1, <1>2, <2>2, <3>1, <3>3 DEF Work, Carries
    <3> QED
      BY <1>4, <2>1, <2>3, <3>2, <3>4, Reading DEF ReadMade
  <2>4. CASE ~Active(i)
    BY <1>1, <1>4, <2>1, <2>2, <2>4, TaggingCarries, Reading DEF ReadMade
  <2> QED
    BY <2>3, <2>4
<1> QED
  BY <1>3, <1>4

\* A memory is written back; the goroutine goes on with its tags.
LEMMA WriteStep ==
  ASSUME StoreInv, NEW j \in Jobs, Write(j)
  PROVE  Behaves /\ JobsInv'
<1>1. /\ job[j].id \in 1..count /\ job[j].content \in Contents
      /\ job[j].vector \in {job[j].content, Null}
      /\ job[j].made \in SUBSET (1..count) /\ count \in 0..MaxRows
  BY DEF Write, At, StoreInv, TableInv, JobsInv, Carries
<1>2. Behaves
  BY <1>1, EditBehaves DEF Write, StoreInv
<1>3. Tagging(job[j].made) \in Work /\ Carries(Tagging(job[j].made), count')
  BY <1>1, TaggingCarries DEF Write
<1>4. JobsInv'
  BY <1>1, <1>3, Doing DEF Write, StoreInv
<1> QED
  BY <1>2, <1>4

\* The steps of a goroutine that touch no table.
LEMMA QuietStep ==
  ASSUME StoreInv, NEW j \in Jobs,
         Create(j) \/ WriteFails(j) \/ Search(j) \/ GivesUp(j)
  PROVE  Behaves /\ JobsInv'
<1>1. /\ count \in 0..MaxRows /\ job[j] \in Work /\ Carries(job[j], count)
      /\ UNCHANGED <<rows, count, sessions>>
  BY DEF StoreInv, TableInv, JobsInv, Create, WriteFails, Search, GivesUp
<1>2. CASE Create(j)
  BY <1>1, <1>2, Blanks, Reading DEF Create
<1>3. CASE WriteFails(j)
  <2>1. job[j].made \in SUBSET (1..count)
    BY <1>1 DEF Carries
  <2> QED
    BY <1>1, <1>3, <2>1, TaggingCarries, Reading DEF WriteFails
<1>4. CASE Search(j)
  <2>1. PICK hits \in SUBSET Actives :
          Does(j, [job[j] EXCEPT !.found = job[j].found \cup hits])
    BY <1>4 DEF Search
  <2> DEFINE w == [job[j] EXCEPT !.found = job[j].found \cup hits]
  <2>2. job[j].found \cup hits \subseteq 1..count /\ job[j].at = "search"
    BY <1>1, <1>4 DEF Carries, Actives, Active, StoreInv, TableInv, Search, At
  <2>3. w \in Work
    BY <1>1, <2>2 DEF Work
  <2>4. Carries(w, count)
    BY <1>1, <2>2 DEF Work, Carries
  <2> QED
    BY <1>1, <2>1, <2>3, <2>4, Reading
<1>5. CASE GivesUp(j)
  BY <1>1, <1>5, Blanks, Reading DEF GivesUp
<1> QED
  BY <1>2, <1>3, <1>4, <1>5

\* The messages: each is kept once and tagged once.
LEMMA MessageStep ==
  ASSUME StoreInv, NEW j \in Jobs, Ingest(j) \/ PatchTags(j)
  PROVE  /\ TableInv' /\ JobsInv' /\ SessionsInv'
         /\ History!Next \/ UNCHANGED <<Stored, count, sessions>>
<1>1. /\ count \in 0..MaxRows /\ count \in Nat /\ count' \in count..MaxRows
      /\ JobsInv /\ count' = count
      /\ TableInv' /\ UNCHANGED <<Stored, count>>
  <2>1. UNCHANGED <<rows, count>>
    BY DEF Ingest, PatchTags
  <2>2. TableInv' /\ UNCHANGED <<Stored, count>>
    BY <2>1, NothingBehaves DEF StoreInv
  <2>3. count \in 0..MaxRows
    BY DEF StoreInv, TableInv
  <2> QED
    BY <2>1, <2>2, <2>3 DEF StoreInv
<1>2. CASE Ingest(j)
  <2>0. PICK asked \in SUBSET Messages :
          /\ sessions' \in {sessions, Kept(asked)}
          /\ \E tagged \in SUBSET asked :
               \/ Does(j, Patching(tagged))
               \/ tagged = {} /\ Does(j, Searching(FALSE))
               \/ \E k \in Jobs \ {j} :
                    /\ Idle(k)
                    /\ job' = [job EXCEPT ![j] = Searching(FALSE),
                                          ![k] = Patching(tagged)]
    BY <1>2 DEF Ingest
  <2>1. PICK tagged \in SUBSET asked :
               \/ Does(j, Patching(tagged))
               \/ tagged = {} /\ Does(j, Searching(FALSE))
               \/ \E k \in Jobs \ {j} :
                    /\ Idle(k)
                    /\ job' = [job EXCEPT ![j] = Searching(FALSE),
                                          ![k] = Patching(tagged)]
    BY <2>0
  <2>2. SessionsInv'
    BY <2>0 DEF StoreInv, SessionsInv, Kept
  <2>3. History!Keep \/ UNCHANGED <<Stored, count, sessions>>
    BY <1>1, <2>0 DEF History!Keep, Kept
  <2>4. JobsInv'
    <3>1. tagged \in SUBSET Messages
      BY <2>1
    <3>2. /\ Patching(tagged) \in Work /\ Carries(Patching(tagged), count')
          /\ Searching(FALSE) \in Work /\ Carries(Searching(FALSE), count')
      BY <1>1, <3>1, Blanks
    <3>3. CASE Does(j, Patching(tagged)) \/ Does(j, Searching(FALSE))
      BY <1>1, <3>2, <3>3, Doing
    <3>4. ASSUME NEW k \in Jobs \ {j},
                 job' = [job EXCEPT ![j] = Searching(FALSE), ![k] = Patching(tagged)]
          PROVE  JobsInv'
      BY <1>1, <3>2, <3>4 DEF JobsInv
    <3> QED
      BY <2>1, <3>3, <3>4
  <2> QED
    BY <1>1, <2>2, <2>3, <2>4 DEF History!Next
<1>3. CASE PatchTags(j)
  <2>1. PICK m \in job[j].asked :
          /\ \/ /\ sessions[m] = "plain"
                /\ \E t \in Tags : sessions' = [sessions EXCEPT ![m] = t]
             \/ UNCHANGED sessions
          /\ Does(j, Patching(job[j].asked \ {m}))
    BY <1>3 DEF PatchTags
  <2>2. m \in Messages /\ job[j].asked \ {m} \in SUBSET Messages
    BY <1>1, <2>1 DEF JobsInv, Work
  <2>3. SessionsInv'
    BY <2>1, <2>2 DEF StoreInv, SessionsInv
  <2>4. History!Tag \/ UNCHANGED <<Stored, count, sessions>>
    BY <1>1, <2>1, <2>2 DEF History!Tag
  <2>5. JobsInv'
    <3>1. /\ Patching(job[j].asked \ {m}) \in Work
          /\ Carries(Patching(job[j].asked \ {m}), count')
      BY <1>1, <2>2, Blanks
    <3> QED
      BY <1>1, <2>1, <3>1, Doing
  <2> QED
    BY <1>1, <2>3, <2>4, <2>5 DEF History!Next
<1> QED
  BY <1>2, <1>3

\* Requests that are one statement or one transaction.
LEMMA RequestStep ==
  ASSUME StoreInv, BulkCreate \/ CreateRaw \/ SoftDelete
  PROVE  Behaves /\ JobsInv'
<1>1. UNCHANGED <<sessions, job>> /\ TableInv /\ count \in 0..MaxRows
  BY DEF BulkCreate, CreateRaw, SoftDelete, StoreInv, TableInv
<1>2. Behaves
  <2>1. CASE BulkCreate
    BY <1>1, <2>1, BulkBehaves
  <2>2. CASE CreateRaw
    <3>1. PICK c \in Contents : Appends(FALSE, c, c)
      <4>1. PICK c \in Contents :
              rows' = [rows EXCEPT ![count + 1] = Memory(FALSE, c, c)]
        BY <2>2 DEF CreateRaw
      <4>2. count < MaxRows /\ count' = count + 1
        BY <1>1, <2>2 DEF CreateRaw
      <4> QED
        BY <4>1, <4>2 DEF Appends
    <3> QED
      BY <1>1, <3>1, AppendBehaves
  <2>3. CASE SoftDelete
    BY <1>1, <2>3, ForgetBehaves DEF SoftDelete
  <2> QED
    BY <2>1, <2>2, <2>3
<1>3. JobsInv'
  BY <1>1, <1>2, NobodyDoing DEF Behaves, StoreInv
<1> QED
  BY <1>2, <1>3

-----------------------------------------------------------------------------
\* Every step keeps the invariant and is one of MemoryHistory, or none.
LEMMA Inductive ==
  ASSUME StoreInv, [Next]_vars
  PROVE  StoreInv' /\ (History!Next \/ UNCHANGED History!vars)
<1> USE DEF History!vars
<1>1. ASSUME Behaves, JobsInv', UNCHANGED sessions
      PROVE  StoreInv' /\ (History!Next \/ UNCHANGED History!vars)
  BY <1>1 DEF Behaves, StoreInv, SessionsInv
<1>2. CASE BulkCreate \/ CreateRaw \/ SoftDelete
  <2>1. UNCHANGED sessions
    BY <1>2 DEF BulkCreate, CreateRaw, SoftDelete
  <2> QED
    BY <1>1, <1>2, <2>1, RequestStep
<1>3. ASSUME NEW j \in Jobs, Goroutine(j)
      PROVE  StoreInv' /\ (History!Next \/ UNCHANGED History!vars)
  <2>1. CASE Ingest(j) \/ PatchTags(j)
    BY <2>1, MessageStep DEF StoreInv
  <2>2. CASE Update(j) \/ ReadMade(j)
    BY <1>1, <2>2, ReadStep DEF Update, ReadMade
  <2>3. CASE Write(j)
    BY <1>1, <2>3, WriteStep DEF Write
  <2>4. CASE Create(j) \/ WriteFails(j) \/ Search(j) \/ GivesUp(j)
    BY <1>1, <2>4, QuietStep DEF Create, WriteFails, Search, GivesUp
  <2>5. CASE AddFact(j)
    BY <1>1, <2>5, AddFactStep DEF AddFact
  <2>6. CASE Act(j)
    BY <1>1, <2>6, ActStep DEF Act
  <2> QED
    BY <1>3, <2>1, <2>2, <2>3, <2>4, <2>5, <2>6 DEF Goroutine
<1>4. CASE UNCHANGED vars
  <2>1. UNCHANGED <<rows, count, sessions, job>>
    BY <1>4 DEF vars
  <2>2. Behaves /\ JobsInv'
    BY <2>1, NothingBehaves, NobodyDoing DEF Behaves, StoreInv, TableInv
  <2> QED
    BY <1>1, <2>1, <2>2
<1> QED
  BY <1>2, <1>3, <1>4 DEF Next

\* The empty tables, without a goroutine.
LEMMA Initially == Init => StoreInv
<1> SUFFICES ASSUME Init PROVE StoreInv
  OBVIOUS
<1>1. Blank \in Row /\ Blank.successor = 0 /\ Blank.state = "none"
  BY DEF Blank, Row
<1>2. Blank.vector = Blank.content
  BY DEF Blank
<1>3. TableInv
  BY <1>1, <1>2 DEF Init, TableInv, OneSuccessor, Active, VectorFitsContent
<1>4. JobsInv
  BY Blanks DEF Init, JobsInv
<1>5. SessionsInv
  BY DEF Init, SessionsInv
<1> QED
  BY <1>3, <1>4, <1>5 DEF StoreInv

\* The invariant of the store.
THEOREM StoreInvariance == Spec => []StoreInv
<1>1. Init => StoreInv
  BY Initially
<1>2. StoreInv /\ [Next]_vars => StoreInv'
  BY Inductive
<1> QED
  BY <1>1, <1>2, PTL DEF Spec

\* Every variable keeps its type, and goroutines only carry what exists.
THEOREM StoreTypes == Spec => []TypeOK
<1>1. StoreInv => TypeOK
  BY DEF StoreInv, TableInv, JobsInv, SessionsInv, Carries, TypeOK
<1> QED
  BY <1>1, StoreInvariance, PTL

\* A memory is replaced once, by one that exists.
THEOREM MemoriesHaveOneSuccessor == Spec => []OneSuccessor
<1>1. StoreInv => OneSuccessor
  BY DEF StoreInv, TableInv
<1> QED
  BY <1>1, StoreInvariance, PTL

\* The vector beside a text is its own.
THEOREM VectorsFitContents == Spec => []VectorFitsContent
<1>1. StoreInv => VectorFitsContent
  BY DEF StoreInv, TableInv
<1> QED
  BY <1>1, StoreInvariance, PTL

\* The tables have the history that MemoryHistory promises.
THEOREM StoreIsHistory == Spec => IsHistory
<1>1. Init => History!Init
  BY DEF Init, History!Init, Stored, Blank, History!Blank, History!Ids
<1>2. StoreInv /\ [Next]_vars => [History!Next]_History!vars
  BY Inductive DEF History!vars
<1> QED
  BY <1>1, <1>2, StoreInvariance, PTL DEF Spec, IsHistory, History!Spec
=============================================================================
