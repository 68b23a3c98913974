--------------------------- MODULE MCMetricsWriter ----------------------------
(* MetricsWriter with three inodes: one published, one in work, one spare. *)
EXTENDS MetricsWriter
=============================================================================
