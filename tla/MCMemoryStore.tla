---------------------------- MODULE MCMemoryStore ----------------------------
(* The memory store on small instances. *)
EXTENDS MemoryStore, TLC

CONSTANTS a, b, x, g1, g2, m1

MCJobs == {g1, g2}

MCContents == {a, b}

MCMessages == {m1}

MCTags == {x}

Symmetric == Permutations(MCJobs) \cup Permutations(MCContents)

(* The tables share no statement: messages are explored with one memory.  *)
Apart == count <= 1 \/ \A m \in MCMessages : sessions[m] = "none"
=============================================================================
