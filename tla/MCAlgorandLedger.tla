-------------------------- MODULE MCAlgorandLedger --------------------------
(* AlgorandLedger for TLC: each call in a process of its own, so that they *)
(* may overlap, and may as well follow each other as those of one process. *)
EXTENDS AlgorandLedger

CONSTANTS c1, c2, p1, p2

TwoHosts == [c \in {c1, c2} |-> IF c = c1 THEN p1 ELSE p2]
=============================================================================
