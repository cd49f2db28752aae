----------------------------- MODULE MCTaskExec -----------------------------
(* Instances of TaskExec for TLC.                                          *)
EXTENDS TaskExec
=============================================================================
