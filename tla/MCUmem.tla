------------------------------- MODULE MCUmem -------------------------------
(* Model-checking instance of Umem: up to two cores, in both umem modes.   *)
(* The ring, fill and tx capacities equal the pool size, as 2048 = 2048 in *)
(* the code.  Frame descriptors are interchangeable addresses, so the      *)
(* safety run takes the frames as a symmetry set.                          *)
EXTENDS Umem, TLC

CONSTANTS f1, f2, f3

MCFrames3 == {f1, f2, f3}
MCFrames2 == {f1, f2}

FrameSymmetry == Permutations(MCFrames3)
=============================================================================
