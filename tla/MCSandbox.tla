------------------------------ MODULE MCSandbox -------------------------------
(* Sandbox alone. *)
EXTENDS Sandbox
=============================================================================
