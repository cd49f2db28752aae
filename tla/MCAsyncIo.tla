----------------------------- MODULE MCAsyncIo -----------------------------
(* Instances of AsyncIo for TLC.                                           *)
EXTENDS AsyncIo
=============================================================================
