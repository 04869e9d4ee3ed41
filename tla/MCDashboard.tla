----------------------------- MODULE MCDashboard -----------------------------
(* Dashboard for TLC: tabs and accounts are interchangeable.               *)
EXTENDS Dashboard, TLC

Symmetry == Permutations(Tabs) \cup Permutations(Accounts)
=============================================================================
