---------------------------- MODULE MCJoinHandle ----------------------------
(* Instances of JoinHandle for TLC.                                        *)
EXTENDS JoinHandle
=============================================================================
