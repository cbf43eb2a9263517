------------------------------ MODULE MCEditor ------------------------------
(* Instances of Editor for TLC. *)
EXTENDS Editor

MCChar == {" ", NL}
=============================================================================
