------------------------------- MODULE MCAta --------------------------------
(* Instances of Ata for TLC. *)
EXTENDS Ata
=============================================================================
