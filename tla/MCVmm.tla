------------------------------- MODULE MCVmm --------------------------------
(* Two entries per table: virtual pages inside the large page, under an    *)
(* absent PD entry, and under an absent PML4 entry.  The regions           *)
(* reserve pages 0 to 3: they overlap, begin and end inside a page, and    *)
(* reach past the end of memory.                                           *)
EXTENDS Vmm

MCVA == {<<0, 0, 0, 0>>, <<0, 0, 0, 1>>, <<0, 0, 1, 1>>, <<1, 0, 1, 0>>}
MCRegions == <<<<0, 8>>, <<4, 6>>, <<9, 13>>, <<33, 40>>>>
=============================================================================
