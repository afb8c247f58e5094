---------------------------- MODULE MCRunStream -----------------------------
(* Small instances of RunStream for TLC.                                   *)
EXTENDS RunStream
=============================================================================
