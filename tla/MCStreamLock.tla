---------------------------- MODULE MCStreamLock ----------------------------
(* Constants of StreamLock for TLC. *)
EXTENDS StreamLock
=============================================================================
