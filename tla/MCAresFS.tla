------------------------------ MODULE MCAresFS ------------------------------
(* Two free inodes, of which one may be a file that outgrows its direct    *)
(* blocks, and five free blocks, which do not suffice for the file, a      *)
(* directory and the growth of the root.                                   *)
EXTENDS AresFS

MCPath == {<<"a">>}
MCDirPath == {<<"d">>, <<"d", "e">>}
MCOpenFlags == {{"RDWR", "APPEND"}, {"WRONLY", "CREAT", "TRUNC"}}
=============================================================================
