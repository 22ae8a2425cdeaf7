------------------------------ MODULE MCProcess ------------------------------
(* Process with a few processes and threads.                                *)
EXTENDS Process, TLC

CONSTANTS p1, p2, p3, t1, t2, t3

ProcsMC   == {kproc, p1, p2, p3}
ThreadsMC == {menu, t1, t2, t3}

Symmetry == Permutations({p1, p2, p3}) \cup Permutations({t1, t2, t3})

=============================================================================
