----------------------------- MODULE MCKeyboard -----------------------------
(* Left shift, right control, the letter a and the arrow key up. *)
EXTENDS Keyboard

MCKey == {[scan |-> 42, ext |-> FALSE], [scan |-> 29, ext |-> TRUE],
          [scan |-> 30, ext |-> FALSE], [scan |-> 72, ext |-> TRUE]}
=============================================================================
