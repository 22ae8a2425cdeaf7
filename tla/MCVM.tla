-------------------------------- MODULE MCVM ---------------------------------
(* VM with two processors, two programs and a TLB of two slots.             *)
EXTENDS VM, TLC

CONSTANTS c1, c2, p1, p2

CpusMC  == {c1, c2}
ProcsMC == {p1, p2}

(* Frame 0 belongs to the kernel.                                           *)
FramesMC     == 0 .. 3
UserFramesMC == 1 .. 3

(* A code page, a stack page and a page outside.                            *)
SegmentsMC == {1}
StackMC    == {2}
PagesMC    == {1, 2, 3}

(* Memory never used before, and anything else.                             *)
PidValuesMC == {0, 1}

Symmetry == Permutations(CpusMC) \cup Permutations(ProcsMC)

=============================================================================
