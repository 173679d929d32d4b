---------------------------- MODULE MCMicrophone ----------------------------
(* Microphone for TLC. *)
EXTENDS Microphone
=============================================================================
