--------------------------- MODULE MCAuth0Client ---------------------------
(* Auth0Client for TLC: callers and users are interchangeable.             *)
EXTENDS Auth0Client, TLC

Symmetry == Permutations(Callers) \cup Permutations(Users)
=============================================================================
