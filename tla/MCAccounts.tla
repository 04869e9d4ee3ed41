------------------------------ MODULE MCAccounts ------------------------------
(* Accounts for TLC: processes and e-mail addresses are interchangeable.   *)
EXTENDS Accounts, TLC

CONSTANTS maria

MCAdmin == [name |-> maria, padded |-> FALSE]

Symmetry == Permutations(Processes) \cup Permutations(Emails)
=============================================================================
