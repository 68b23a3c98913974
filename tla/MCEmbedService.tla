---------------------------- MODULE MCEmbedService ----------------------------
(* The embed-service with two workers and three clients. *)
EXTENDS EmbedService

CONSTANTS c1, c2, c3, w1, w2

MCConns == {c1, c2, c3}

MCWorkers == {w1, w2}
=============================================================================
