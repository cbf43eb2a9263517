------------------------------- MODULE MCAuth -------------------------------
(* Four names for three slots, and passwords of one and two bytes. *)
EXTENDS Auth

MCPassword == {<<1>>, <<2, 1>>}
MCFirstPassword == [n \in Default |-> IF n = "user" THEN <<2, 1>> ELSE <<1>>]
=============================================================================
