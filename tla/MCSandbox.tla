----------------------------- MODULE MCSandbox ------------------------------
(* Small instances of Sandbox for TLC: see the configurations Sandbox*.cfg. *)
EXTENDS Sandbox
=============================================================================
