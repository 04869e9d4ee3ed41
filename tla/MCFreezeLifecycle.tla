------------------------- MODULE MCFreezeLifecycle -------------------------
(* FreezeLifecycle for TLC: requests and users are interchangeable.        *)
EXTENDS FreezeLifecycle, TLC

Symmetry == Permutations(Callers) \cup Permutations(Users)
=============================================================================
