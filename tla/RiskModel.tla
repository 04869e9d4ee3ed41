------------------------------ MODULE RiskModel ------------------------------
(***************************************************************************)
(* risk.py and fingerprint.py: the score of a login and the hash that      *)
(* tells which logins behave alike.                                        *)
(*                                                                         *)
(* Fractions are integers: decisions, entropies and densities in           *)
(* hundredths, scores in ten-thousandths, to which the code rounds them.   *)
(***************************************************************************)
EXTENDS Integers

(* What decision_function of an Isolation Forest can return.               *)
Decisions == -100 .. 100

Hundredths == 0 .. 100

(* Mutant of Clip: without the max and min.                                *)
Unclipped(x, low, high) == x

Clip(x, low, high) == IF x < low THEN low ELSE IF x > high THEN high ELSE x

(* calculate_anomaly_score.  A forest that was never fitted raises, which  *)
(* scores like the decision -50.                                           *)
Anomaly(decision) == Clip(50 - (2 * (decision + 50)) \div 3, 0, 100)

(* calculate_similarity_score: no caller passes vectors of a cluster.      *)
Similarity == 0

(* calculate_risk_score                                                    *)
RiskScore(decision, ipEntropy, density) ==
  Clip(40 * Anomaly(decision) + 30 * Similarity + 15 * ipEntropy + 15 * density, 0, 10000)

(* config.RISK_SCORE_THRESHOLD, and is_suspicious.                         *)
RiskScoreThreshold == 7000

Suspicious(score) == score > RiskScoreThreshold

(* generate_behavior_hash: the whole address, the user agent, the screen   *)
(* and the time zone (here all in "client"); neither the typing rhythm nor *)
(* the hashes of canvas and WebGL (here "device").                         *)
BehaviorHash(event) == <<event.ip, event.client>>
=============================================================================
