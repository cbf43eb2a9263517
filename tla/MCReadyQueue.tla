---------------------------- MODULE MCReadyQueue ----------------------------
(* Instances of ReadyQueue for TLC. *)
EXTENDS ReadyQueue
=============================================================================
