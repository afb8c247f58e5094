--------------------------- MODULE MCRunCreation ----------------------------
(* Small instances of RunCreation for TLC.                                 *)
EXTENDS RunCreation
=============================================================================
