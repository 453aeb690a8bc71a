--------------------------- MODULE MCGodotLogger ---------------------------
(* GodotLogger for TLC: threads are interchangeable.                       *)
EXTENDS GodotLogger, TLC

ThreadSymmetry == Permutations(Thread)
=============================================================================
