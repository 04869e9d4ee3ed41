----------------------------- MODULE MCStorage -----------------------------
(* Storage for TLC: processes and users are interchangeable.               *)
EXTENDS Storage, TLC

Symmetry == Permutations(Processes) \cup Permutations(Users)
=============================================================================
