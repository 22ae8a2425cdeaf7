------------------------------ MODULE MCCoremap ------------------------------
(* CoremapSearch on a small memory: the kernel image, room for a boot-time  *)
(* run and the tables, and a few frames to recycle.                         *)
EXTENDS CoremapSearch, TLC

CONSTANTS t1, t2, t3

ThreadsMC == {t1, t2, t3}
SizesMC == {1, 2}

Symmetry == Permutations({t2, t3})

=============================================================================
