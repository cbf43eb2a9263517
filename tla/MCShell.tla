------------------------------ MODULE MCShell -------------------------------
(* A prompt of one character, and lines that just reach the right edge. *)
EXTENDS Shell

MCPrompt == <<"$">>
MCOutput == {<<"x", NL>>, <<TAB, "x", CR, "y", NL>>}
=============================================================================
