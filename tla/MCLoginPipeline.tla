-------------------------- MODULE MCLoginPipeline --------------------------
(* LoginPipeline for TLC: two addresses of one subnet, one client; the     *)
(* extreme readings of the forest and of ip_entropy.                       *)
EXTENDS LoginPipeline, TLC

CONSTANTS LastUser, LastHost

MCUsers == 1 .. LastUser

MCEvents == [user : MCUsers, ip : {<<45, host>> : host \in 1 .. LastHost},
             client : {"chrome"}, device : {"canvas"}]

MCHashes == {BehaviorHash(e) : e \in MCEvents}

MCReadings == {<<-100, 100>>, <<50, 0>>}

(* The most anomalous reading that the forest and ip_entropy can give.     *)
WorstReading == {<<-100, 100>>}

MCThresholds == {2000, RiskScoreThreshold}

Symmetry == Permutations(Logins) \cup Permutations(Processes)
=============================================================================
