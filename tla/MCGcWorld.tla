----------------------------- MODULE MCGcWorld -----------------------------
(* GcWorld for TLC; the constants are given by the configurations.         *)
EXTENDS GcWorld
=============================================================================
