------------------------------ MODULE MCTasker ------------------------------
(* Small instances of Tasker for TLC.                                      *)
EXTENDS Tasker
=============================================================================
