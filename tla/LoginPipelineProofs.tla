------------------------ MODULE LoginPipelineProofs ------------------------
(***************************************************************************)
(* No login can reach the default risk threshold, for any events, readings *)
(* of the forest, thresholds of sweeps and numbers of logins and crashes.  *)
(***************************************************************************)
EXTENDS LoginPipeline, FiniteSetTheorems, TLAPS

(* What the score can be at most, and what the graph can hold.             *)
Low == 0 .. RiskScoreThreshold - 1

LowScores ==
  /\ score \in [Logins -> Low]
  /\ risk \in [Users -> Low \cup {Absent}]

-----------------------------------------------------------------------------
LEMMA AnomalyBound ==
  ASSUME NEW d \in Decisions
  PROVE  Anomaly(d) \in 0 .. 84
BY DEF Decisions, Anomaly, Clip

(* Without a similarity the weights of risk.py leave 0.40 for an anomaly   *)
(* of at most 0.84, and 0.30 for the entropy and the density together.     *)
LEMMA RiskScoreBound ==
  ASSUME NEW d \in Decisions, NEW e \in Hundredths, NEW n \in Hundredths
  PROVE  RiskScore(d, e, n) \in Low
<1>1. Anomaly(d) \in 0 .. 84
  BY AnomalyBound
<1>2. e \in 0 .. 100 /\ n \in 0 .. 100
  BY DEF Hundredths
<1>. DEFINE a == Anomaly(d)
           sum == 40 * a + 30 * 0 + 15 * e + 15 * n
<1>3. sum \in 0 .. 6360
  <2>. a \in 0 .. 84
    BY <1>1
  <2>. HIDE DEF a
  <2>. QED
    BY <1>2
<1>4. RiskScore(d, e, n) = Clip(sum, 0, 10000)
  BY DEF RiskScore, Similarity
<1>. HIDE DEF sum
<1>5. Clip(sum, 0, 10000) = sum
  BY <1>3 DEF Clip
<1>6. sum \in Low
  BY <1>3 DEF Low, RiskScoreThreshold
<1>. QED
  BY <1>4, <1>5, <1>6

LEMMA ClipGrows ==
  ASSUME NEW x \in Int, NEW y \in Int, x <= y, NEW low \in Int, NEW high \in Int, low <= high
  PROVE  /\ Clip(x, low, high) \in low .. high
         /\ Clip(x, low, high) <= Clip(y, low, high)
BY DEF Clip

LEMMA ThirdGrows ==
  ASSUME NEW x \in Int, NEW y \in Int, x <= y
  PROVE  x \div 3 \in Int /\ x \div 3 <= y \div 3
OBVIOUS

(* A lower decision is the stranger login.                                 *)
LEMMA AnomalyGrows ==
  ASSUME NEW d \in Decisions, NEW e \in Decisions, d <= e
  PROVE  Anomaly(e) \in 0 .. 100 /\ Anomaly(d) \in 0 .. 100 /\ Anomaly(e) <= Anomaly(d)
<1>1. d \in Int /\ e \in Int
  BY DEF Decisions
<1> DEFINE x == (2 * (d + 50)) \div 3
           y == (2 * (e + 50)) \div 3
<1>2. x \in Int /\ y \in Int /\ x <= y
  BY <1>1, ThirdGrows
<1>3. Anomaly(d) = Clip(50 - x, 0, 100) /\ Anomaly(e) = Clip(50 - y, 0, 100)
  BY DEF Anomaly
<1> HIDE DEF x, y
<1>4. 50 - y \in Int /\ 50 - x \in Int /\ 50 - y <= 50 - x
  BY <1>2
<1>5. /\ Clip(50 - y, 0, 100) \in 0 .. 100 /\ Clip(50 - x, 0, 100) \in 0 .. 100
      /\ Clip(50 - y, 0, 100) <= Clip(50 - x, 0, 100)
  BY <1>4 DEF Clip
<1> QED BY <1>3, <1>5

(* calculate_risk_score weighs all readings the same way: a login that the  *)
(* forest finds stranger, from an address of more entropy or in a denser   *)
(* cluster, never has the lower score, however clipped and rounded.        *)
THEOREM RiskRises ==
  ASSUME NEW d \in Decisions, NEW d2 \in Decisions, d2 <= d,
         NEW e \in Hundredths, NEW e2 \in Hundredths, e <= e2,
         NEW n \in Hundredths, NEW n2 \in Hundredths, n <= n2
  PROVE  RiskScore(d, e, n) <= RiskScore(d2, e2, n2)
<1>1. e \in 0 .. 100 /\ e2 \in 0 .. 100 /\ n \in 0 .. 100 /\ n2 \in 0 .. 100
  BY DEF Hundredths
<1> DEFINE a == Anomaly(d)
           a2 == Anomaly(d2)
           sum == 40 * a + 30 * 0 + 15 * e + 15 * n
           sum2 == 40 * a2 + 30 * 0 + 15 * e2 + 15 * n2
<1>2. a \in 0 .. 100 /\ a2 \in 0 .. 100 /\ a <= a2
  BY AnomalyGrows
<1>3. RiskScore(d, e, n) = Clip(sum, 0, 10000) /\ RiskScore(d2, e2, n2) = Clip(sum2, 0, 10000)
  BY DEF RiskScore, Similarity
<1> HIDE DEF a, a2
<1>4. sum \in Int /\ sum2 \in Int /\ sum <= sum2
  BY <1>1, <1>2
<1> HIDE DEF sum, sum2
<1> QED BY <1>3, <1>4, ClipGrows

LEMMA ShareBound ==
  ASSUME NEW k \in Nat, k >= 1
  PROVE  100 \div k \in Hundredths
BY SMTT(60) DEF Hundredths

LEMMA PairsOfMany ==
  ASSUME NEW n \in Nat, n > 1
  PROVE  /\ (n * (n - 1)) \div 2 \in Nat
         /\ (n * (n - 1)) \div 2 >= 1
<1>1. n * (n - 1) \in Nat /\ n * (n - 1) >= 2
  BY SMTT(60)
<1>. QED
  BY <1>1, SMTT(60)

LEMMA DensityBound ==
  ASSUME NEW u, NEW density \in Densities(u)
  PROVE  density \in Hundredths
<1>. DEFINE n == Cardinality(PeerRows(u))
<1>1. n \in Nat
  <2>1. IsFiniteSet(Users \X Hashes)
    BY FS_Product, UsersAssumption, HashesAssumption
  <2>2. PeerRows(u) \subseteq Users \X Hashes
    BY DEF PeerRows, Peers
  <2>3. IsFiniteSet(PeerRows(u))
    BY <2>1, <2>2, FS_Subset
  <2>. QED
    BY <2>3, FS_CardinalityType
<1>2. density = 0 \/ (n > 1 /\ density = 100 \div ((n * (n - 1)) \div 2))
  BY DEF Densities
<1>3. CASE density = 0
  BY <1>3 DEF Hundredths
<1>4. CASE n > 1 /\ density = 100 \div ((n * (n - 1)) \div 2)
  <2>. DEFINE k == (n * (n - 1)) \div 2
  <2>1. k \in Nat /\ k >= 1
    BY <1>1, <1>4, PairsOfMany
  <2>2. density = 100 \div k
    BY <1>4
  <2>. HIDE DEF k
  <2>. QED
    BY <2>1, <2>2, ShareBound
<1>. QED
  BY <1>2, <1>3, <1>4

-----------------------------------------------------------------------------
(* The invariant: no action writes anything but 0 or a computed score.     *)
LEMMA LowInit == Init => LowScores
BY DEF Init, GraphInit, LowScores, Low, RiskScoreThreshold

LEMMA LowStep == LowScores /\ [Next]_vars => LowScores'
<1>. SUFFICES ASSUME LowScores, [Next]_vars PROVE LowScores'
  OBVIOUS
<1>. USE DEF LowScores
<1>0. 0 \in Low
  BY DEF Low, RiskScoreThreshold
<1>1. ASSUME NEW l \in Logins, NEW p \in Processes, NEW e \in Events, Arrive(l, p, e)
      PROVE LowScores'
  BY <1>1 DEF Arrive, graphVars
<1>2. ASSUME NEW l \in Logins, NEW answers \in BOOLEAN, AddUser(l, answers)
      PROVE LowScores'
  BY <1>2, <1>0 DEF AddUser, MergeUser, graphVars
<1>3. ASSUME NEW l \in Logins, NEW answers \in BOOLEAN, AddBehavior(l, answers)
      PROVE LowScores'
  BY <1>3 DEF AddBehavior, MergeBehavior, graphVars
<1>4. ASSUME NEW l \in Logins, NEW reading \in Readings, NEW density,
             Score(l, reading, density)
      PROVE LowScores'
  <2>1. reading[1] \in Decisions /\ reading[2] \in Hundredths
    BY ReadingsAssumption
  <2>2. density \in Hundredths
    BY <1>4, DensityBound DEF Score
  <2>3. RiskScore(reading[1], reading[2], density) \in Low
    BY <2>1, <2>2, RiskScoreBound
  <2>. QED
    BY <1>4, <2>3 DEF Score, graphVars
<1>5. ASSUME NEW l \in Logins, SaveEvent(l)
      PROVE LowScores'
  BY <1>5 DEF SaveEvent, graphVars
<1>6. ASSUME NEW l \in Logins, NEW answers \in BOOLEAN, UpdateRisk(l, answers)
      PROVE LowScores'
  BY <1>6 DEF UpdateRisk, UpdateUserRisk, FinalRisk, graphVars
<1>7. ASSUME NEW l \in Logins, BackgroundTask(l)
      PROVE LowScores'
  BY <1>7 DEF BackgroundTask, graphVars
<1>8. ASSUME NEW p \in Processes, NEW size, NEW threshold, Sweep(p, size, threshold)
      PROVE LowScores'
  BY <1>8 DEF Sweep, GetFlaggedUsers, loginVars
<1>9. ASSUME NEW p \in Processes, NEW u \in Users, Freeze(p, u)
      PROVE LowScores'
  BY <1>9 DEF Freeze, ClearFlag, loginVars
<1>10. ASSUME NEW p \in Processes, Crash(p)
       PROVE LowScores'
  BY <1>10 DEF Crash, graphVars
<1>11. ASSUME UNCHANGED vars
       PROVE LowScores'
  BY <1>11 DEF vars, graphVars, loginVars
<1>. QED
  BY <1>1, <1>2, <1>3, <1>4, <1>5, <1>6, <1>7, <1>8, <1>9, <1>10, <1>11
     DEF Next, Step, Idle

LEMMA LowIsBelow ==
  ASSUME NEW x \in Low
  PROVE  ~(x > RiskScoreThreshold) /\ ~(x >= RiskScoreThreshold)
BY DEF Low, RiskScoreThreshold

LEMMA LowIsEnough == LowScores => NoneIsSuspicious
<1>. SUFFICES ASSUME LowScores PROVE NoneIsSuspicious
  OBVIOUS
<1>1. ASSUME NEW l \in Logins PROVE ~Suspicious(score[l])
  <2>1. score[l] \in Low
    BY DEF LowScores
  <2>. QED
    BY <2>1, LowIsBelow DEF Suspicious
<1>2. ASSUME NEW u \in Nodes PROVE ~Exceeds(u, 1, RiskScoreThreshold)
  <2>1. risk[u] \in Low
    BY DEF LowScores, Nodes
  <2>2. ~(risk[u] >= RiskScoreThreshold)
    BY <2>1, LowIsBelow
  <2>. QED
    BY <2>2 DEF Exceeds
<1>. QED
  BY <1>1, <1>2 DEF NoneIsSuspicious, FlaggedUsers

(* No login is ever suspicious, and no sweep with the default threshold    *)
(* flags anyone, whatever the events, the forest and the graph.            *)
THEOREM NoLoginReachesTheThreshold == Spec => []NoneIsSuspicious
<1>1. Init => LowScores
  BY LowInit
<1>2. LowScores /\ [Next]_vars => LowScores'
  BY LowStep
<1>3. LowScores => NoneIsSuspicious
  BY LowIsEnough
<1>. QED
  BY <1>1, <1>2, <1>3, PTL DEF Spec

-----------------------------------------------------------------------------
(* What the graph keeps of the logins.  The parts of the inductive         *)
(* invariant, besides LowScores:                                           *)

(* Two logins of a user that run at the same time have noticed each other. *)
OverlapsAreCrossed ==
  \A l, m \in Logins :
    l # m /\ pc[l] \in Running /\ pc[m] \in Running /\ event[l].user = event[m].user
      => l \in crossed

(* The newest login event is that of the login that is about to update the *)
(* risk, unless another overlapped it.                                     *)
SavedIsScored ==
  \A l \in Logins : pc[l] = "risk" /\ l \notin crossed => saved[event[l].user] = score[l]

(* Until then the risk is the one that add_user_node has reset.            *)
ResetIsZero ==
  \A l \in Logins :
    pc[l] \in Running \ {"user"} /\ l \notin crossed /\ event[l].user \notin unreset
      => risk[event[l].user] = 0

Inductive ==
  /\ TypeOK
  /\ OverlapsAreCrossed
  /\ SavedIsScored
  /\ ResetIsZero
  /\ RiskIsOfLastLogin
  /\ FlaggedAreRisky

-----------------------------------------------------------------------------
(* A login that has arrived has an event of a user.                        *)
LEMMA EventsOfLogins ==
  ASSUME TypeOK, NEW l \in Logins, pc[l] # "new"
  PROVE  event[l] \in Events /\ event[l].user \in Users /\ BehaviorHash(event[l]) \in Hashes
BY EventsAssumption DEF TypeOK

LEMMA ScoresAreNatural ==
  ASSUME NEW x \in Scores
  PROVE  x \in Int /\ 0 <= x /\ x # Absent
BY DEF Scores, Absent

LEMMA LowIsScore ==
  ASSUME NEW x \in Low
  PROVE  x \in Scores
BY DEF Low, Scores, RiskScoreThreshold

(* A user with more edges, and no less risk, is flagged by the same sweep. *)
LEMMA ExceedsGrows ==
  ASSUME NEW u \in Users, used \subseteq used', risk[u] \in Int, risk'[u] \in Int,
         risk[u] <= risk'[u],
         \E size \in ClusterSizes, threshold \in Thresholds : Exceeds(u, size, threshold)
  PROVE  \E size \in ClusterSizes, threshold \in Thresholds : Exceeds(u, size, threshold)'
<1>1. Peers(u) \subseteq Peers(u)'
  BY DEF Peers, Sharing
<1>2. IsFiniteSet(Peers(u)') /\ IsFiniteSet(Peers(u))
  <2>1. Peers(u) \subseteq Users /\ Peers(u)' \subseteq Users
    BY DEF Peers
  <2> QED BY <2>1, UsersAssumption, FS_Subset
<1>3. Cardinality(Peers(u)) \in Nat /\ Cardinality(Peers(u)') \in Nat
      /\ Cardinality(Peers(u)) <= Cardinality(Peers(u)')
  BY <1>1, <1>2, FS_Subset, FS_CardinalityType
<1>4. PICK size \in ClusterSizes, threshold \in Thresholds : Exceeds(u, size, threshold)
  OBVIOUS
<1>5. Exceeds(u, size, threshold)'
  BY <1>3, <1>4, SweepsAssumption DEF Exceeds
<1> QED BY <1>5

LEMMA FlagsAreKept ==
  ASSUME TypeOK, TypeOK', FlaggedAreRisky, used \subseteq used',
         \A v \in flagged' \ unreset' : v \in flagged \ unreset /\ (risk'[v] = risk[v] \/ risk[v] <= risk'[v])
  PROVE  FlaggedAreRisky'
<1> SUFFICES ASSUME NEW v \in flagged' \ unreset'
             PROVE  \E size \in ClusterSizes, threshold \in Thresholds :
                      Exceeds(v, size, threshold)'
  BY DEF FlaggedAreRisky
<1>1. v \in Users /\ risk[v] \in Int /\ risk'[v] \in Int /\ risk[v] <= risk'[v]
  <2>1. Scores \cup {Absent} \subseteq Int
    BY DEF Scores, Absent
  <2>2. v \in Users /\ risk[v] \in Scores \cup {Absent} /\ risk'[v] \in Scores \cup {Absent}
    BY DEF TypeOK, Nodes
  <2>3. risk[v] \in Int /\ risk'[v] \in Int
    BY <2>1, <2>2
  <2> QED BY <2>2, <2>3
<1>2. \E size \in ClusterSizes, threshold \in Thresholds : Exceeds(v, size, threshold)
  BY DEF FlaggedAreRisky
<1> QED BY <1>1, <1>2, ExceedsGrows

(* Steps of a login that is not yet at its end: its user is being handled  *)
(* before and after.                                                       *)
LEMMA HandlingGoesOn ==
  ASSUME NEW l \in Logins, pc'[l] \in Running, \A m \in Logins \ {l} : pc'[m] = pc[m],
         event' = event, RiskIsOfLastLogin,
         \A u \in Users \ {event[l].user} : risk'[u] = risk[u] /\ saved'[u] = saved[u],
         spoiled' = spoiled
  PROVE  RiskIsOfLastLogin'
<1> SUFFICES ASSUME NEW u \in Users \ spoiled, Handling(u)' = {}
             PROVE  risk'[u] = saved'[u]
  BY DEF RiskIsOfLastLogin
<1>1. u # event[l].user
  BY DEF Handling
<1>2. Handling(u) = {}
  BY <1>1 DEF Handling
<1> QED BY <1>1, <1>2 DEF RiskIsOfLastLogin

-----------------------------------------------------------------------------
LEMMA InitIsInductive ==
  ASSUME Init
  PROVE  Inductive
<1>1. TypeOK
  <2>1. 0 \in Scores /\ 0 \in 0 .. MaxCrashes
    BY BoundsAssumption DEF Scores
  <2> QED BY <2>1 DEF Init, GraphInit, TypeOK
<1>2. \A l \in Logins : pc[l] = "new"
  BY DEF Init
<1>3. OverlapsAreCrossed /\ SavedIsScored /\ ResetIsZero
  BY <1>2 DEF OverlapsAreCrossed, SavedIsScored, ResetIsZero, Running
<1>4. RiskIsOfLastLogin /\ FlaggedAreRisky
  BY DEF Init, GraphInit, RiskIsOfLastLogin, FlaggedAreRisky
<1> QED BY <1>1, <1>3, <1>4 DEF Inductive

(* A login that overlaps another of its user is noticed, and so is that.   *)
LEMMA ArriveKeeps ==
  ASSUME Inductive, NEW l \in Logins, NEW p \in Processes, NEW e \in Events, Arrive(l, p, e)
  PROVE  Inductive'
<1>1. /\ pc[l] = "new" /\ pc'[l] = "user" /\ event'[l] = e /\ e.user \in Users
      /\ \A m \in Logins \ {l} : pc'[m] = pc[m] /\ event'[m] = event[m]
      /\ crossed \subseteq crossed'
      /\ UNCHANGED <<risk, flagged, used, score, saved, crashes, spoiled, unreset>>
  BY EventsAssumption DEF Inductive, TypeOK, Arrive, GoTo, graphVars
<1>2. TypeOK'
  <2>1. crossed' \subseteq Logins
    BY DEF Inductive, TypeOK, Arrive, Handling
  <2>2. /\ pc' \in [Logins -> {"new", "queued", "done", "killed"} \cup Running]
        /\ at' \in [Logins -> Processes \cup {"none"}] /\ event' \in [Logins -> Events \cup {NoEvent}]
        /\ \A m \in Logins : pc'[m] # "new" => at'[m] \in Processes /\ event'[m] \in Events
    BY DEF Inductive, TypeOK, Arrive, GoTo, Running
  <2> QED BY <1>1, <2>1, <2>2 DEF Inductive, TypeOK, Nodes
<1>3. OverlapsAreCrossed'
  <2> SUFFICES ASSUME NEW k \in Logins, NEW m \in Logins, k # m, pc'[k] \in Running,
                      pc'[m] \in Running, event'[k].user = event'[m].user
               PROVE  k \in crossed'
    BY DEF OverlapsAreCrossed
  <2>1. CASE k = l
    <3>1. m \in Handling(e.user)
      BY <1>1, <2>1 DEF Handling
    <3> QED BY <2>1, <3>1 DEF Arrive
  <2>2. CASE m = l
    <3>1. k \in Handling(e.user)
      BY <1>1, <2>2 DEF Handling
    <3> QED BY <3>1 DEF Arrive
  <2>3. CASE k # l /\ m # l
    BY <1>1, <2>3 DEF Inductive, OverlapsAreCrossed
  <2> QED BY <2>1, <2>2, <2>3
<1>4. SavedIsScored' /\ ResetIsZero'
  BY <1>1 DEF Inductive, SavedIsScored, ResetIsZero
<1>5. RiskIsOfLastLogin'
  <2> SUFFICES ASSUME NEW u \in Users \ spoiled, Handling(u)' = {} PROVE risk[u] = saved[u]
    BY <1>1 DEF RiskIsOfLastLogin
  <2>1. Handling(u) = {}
    BY <1>1 DEF Handling, Running
  <2> QED BY <2>1 DEF Inductive, RiskIsOfLastLogin
<1>6. FlaggedAreRisky'
  BY <1>1, <1>2, FlagsAreKept DEF Inductive
<1> QED BY <1>2, <1>3, <1>4, <1>5, <1>6 DEF Inductive

(* add_user_node takes the flag away together with the risk.               *)
LEMMA AddUserKeeps ==
  ASSUME Inductive, NEW l \in Logins, NEW answers \in BOOLEAN, AddUser(l, answers)
  PROVE  Inductive'
<1> DEFINE u == event[l].user
<1>1. /\ pc[l] = "user" /\ pc'[l] \in {"behavior", "density"} /\ u \in Users
      /\ \A m \in Logins \ {l} : pc'[m] = pc[m]
      /\ UNCHANGED <<used, at, event, score, saved, crashes, crossed, spoiled>>
  BY EventsOfLogins DEF Inductive, TypeOK, AddUser, MergeUser, GoTo, graphVars
<1>2. \/ /\ risk'[u] = 0 /\ flagged' = flagged \ {u} /\ unreset' = unreset \ {u}
      \/ risk' = risk /\ flagged' = flagged /\ unreset' = unreset \cup {u}
  BY <1>1 DEF Inductive, TypeOK, AddUser, MergeUser, Unflagged, graphVars
<1>3. \A v \in Users \ {u} : risk'[v] = risk[v]
  BY DEF Inductive, TypeOK, AddUser, MergeUser, graphVars
<1>4. risk' \in [Users -> Scores \cup {Absent}]
  <2>1. 0 \in Scores
    BY DEF Scores
  <2> QED BY <2>1 DEF Inductive, TypeOK, AddUser, MergeUser, graphVars
<1> HIDE DEF u
<1>5. TypeOK'
  <2>1. pc' \in [Logins -> {"new", "queued", "done", "killed"} \cup Running]
    BY DEF Inductive, TypeOK, AddUser, GoTo, Running
  <2>2. Nodes \subseteq Nodes'
    BY <1>2, <1>3 DEF Nodes, Absent
  <2>3. flagged' \subseteq Nodes' /\ used \subseteq Nodes' \X Hashes /\ unreset' \subseteq Users
    BY <1>1, <1>2, <2>2 DEF Inductive, TypeOK
  <2> QED BY <1>1, <1>4, <2>1, <2>3 DEF Inductive, TypeOK
<1>6. \A m \in Logins : pc'[m] \in Running <=> pc[m] \in Running
  BY <1>1 DEF Running
<1>7. OverlapsAreCrossed'
  BY <1>1, <1>6 DEF Inductive, OverlapsAreCrossed
<1>8. SavedIsScored'
  BY <1>1 DEF Inductive, SavedIsScored
<1>9. ResetIsZero'
  <2> SUFFICES ASSUME NEW m \in Logins, pc'[m] \in Running \ {"user"}, m \notin crossed,
                      event[m].user \notin unreset'
               PROVE  risk'[event[m].user] = 0
    BY <1>1 DEF ResetIsZero
  <2>1. CASE m = l
    BY <1>2, <2>1 DEF u
  <2>2. CASE m # l
    <3>1. event[m].user # u
      BY <1>1, <1>6, <2>2 DEF Inductive, OverlapsAreCrossed, u, Running
    <3>2. event[m].user \in Users /\ event[m].user \notin unreset /\ risk[event[m].user] = 0
      BY <1>1, <1>2, <2>2, <3>1, EventsOfLogins DEF Inductive, ResetIsZero, Running
    <3> QED BY <1>3, <3>1, <3>2
  <2> QED BY <2>1, <2>2
<1>10. RiskIsOfLastLogin'
  BY <1>1, <1>3, HandlingGoesOn DEF Inductive, Running, u
<1>11. FlaggedAreRisky'
  <2>1. \A v \in flagged' \ unreset' : v \in flagged \ unreset /\ v # u /\ v \in Users
    BY <1>2 DEF Inductive, TypeOK, Nodes
  <2> QED BY <1>1, <1>3, <1>5, <2>1, FlagsAreKept DEF Inductive
<1> QED BY <1>5, <1>7, <1>8, <1>9, <1>10, <1>11 DEF Inductive

(* Edges are only added, so that peers are not lost.                       *)
LEMMA AddBehaviorKeeps ==
  ASSUME Inductive, NEW l \in Logins, NEW answers \in BOOLEAN, AddBehavior(l, answers)
  PROVE  Inductive'
<1>1. /\ pc[l] = "behavior" /\ pc'[l] = "density"
      /\ \A m \in Logins \ {l} : pc'[m] = pc[m]
      /\ UNCHANGED <<risk, flagged, at, event, score, saved, crashes, crossed, spoiled, unreset>>
  BY DEF Inductive, TypeOK, AddBehavior, MergeBehavior, GoTo, graphVars, historyVars
<1>2. used \subseteq used'
  BY DEF AddBehavior, MergeBehavior, graphVars
<1>3. TypeOK'
  <2>1. pc' \in [Logins -> {"new", "queued", "done", "killed"} \cup Running]
    BY DEF Inductive, TypeOK, AddBehavior, GoTo, Running
  <2>2. used' \subseteq Nodes \X Hashes
    BY <1>1, EventsOfLogins DEF Inductive, TypeOK, AddBehavior, MergeBehavior, graphVars
  <2> QED BY <1>1, <2>1, <2>2 DEF Inductive, TypeOK, Nodes
<1>4. \A m \in Logins : pc'[m] \in Running \ {"user"} <=> pc[m] \in Running \ {"user"}
  BY <1>1 DEF Running
<1>5. OverlapsAreCrossed' /\ SavedIsScored' /\ ResetIsZero'
  <2>1. OverlapsAreCrossed'
    BY <1>1, <1>4 DEF Inductive, OverlapsAreCrossed
  <2>2. SavedIsScored'
    BY <1>1 DEF Inductive, SavedIsScored
  <2>3. ResetIsZero'
    BY <1>1, <1>4 DEF Inductive, ResetIsZero
  <2> QED BY <2>1, <2>2, <2>3
<1>6. RiskIsOfLastLogin'
  BY <1>1, HandlingGoesOn DEF Inductive, Running
<1>7. FlaggedAreRisky'
  BY <1>1, <1>2, <1>3, FlagsAreKept DEF Inductive
<1> QED BY <1>3, <1>5, <1>6, <1>7 DEF Inductive

LEMMA ScoreKeeps ==
  ASSUME Inductive, NEW l \in Logins, NEW reading \in Readings, NEW density, Score(l, reading, density)
  PROVE  Inductive'
<1>1. /\ pc[l] = "density" /\ pc'[l] = "event"
      /\ \A m \in Logins \ {l} : pc'[m] = pc[m] /\ score'[m] = score[m]
      /\ UNCHANGED <<risk, flagged, used, at, event, saved, crashes, crossed, spoiled, unreset>>
  BY DEF Inductive, TypeOK, Score, GoTo, graphVars, historyVars
<1>2. TypeOK'
  <2>1. pc' \in [Logins -> {"new", "queued", "done", "killed"} \cup Running]
    BY DEF Inductive, TypeOK, Score, GoTo, Running
  <2>2. RiskScore(reading[1], reading[2], density) \in Low
    BY ReadingsAssumption, DensityBound, RiskScoreBound DEF Score
  <2>3. RiskScore(reading[1], reading[2], density) \in Scores
    BY <2>2, LowIsScore
  <2>4. score' \in [Logins -> Scores]
    BY <2>3 DEF Inductive, TypeOK, Score
  <2> QED BY <1>1, <2>1, <2>4 DEF Inductive, TypeOK, Nodes
<1>3. \A m \in Logins : pc'[m] \in Running \ {"user"} <=> pc[m] \in Running \ {"user"}
  BY <1>1 DEF Running
<1>4. OverlapsAreCrossed'
  BY <1>1, <1>3 DEF Inductive, OverlapsAreCrossed
<1>5. SavedIsScored'
  BY <1>1 DEF Inductive, SavedIsScored
<1>6. ResetIsZero'
  BY <1>1, <1>3 DEF Inductive, ResetIsZero
<1>7. RiskIsOfLastLogin'
  BY <1>1, HandlingGoesOn DEF Inductive, Running
<1>8. FlaggedAreRisky'
  BY <1>1, <1>2, FlagsAreKept DEF Inductive
<1> QED BY <1>2, <1>4, <1>5, <1>6, <1>7, <1>8 DEF Inductive

(* Whoever else is about to update the risk of this user has noticed.      *)
LEMMA SaveEventKeeps ==
  ASSUME Inductive, NEW l \in Logins, SaveEvent(l)
  PROVE  Inductive'
<1> DEFINE u == event[l].user
<1>1. /\ pc[l] = "event" /\ pc'[l] = "risk" /\ u \in Users /\ saved'[u] = score[l]
      /\ \A v \in Users \ {u} : saved'[v] = saved[v]
      /\ \A m \in Logins \ {l} : pc'[m] = pc[m]
      /\ UNCHANGED <<risk, flagged, used, at, event, score, crashes, crossed, spoiled, unreset>>
  BY EventsOfLogins DEF Inductive, TypeOK, SaveEvent, GoTo, graphVars, historyVars
<1>2. TypeOK'
  <2>1. pc' \in [Logins -> {"new", "queued", "done", "killed"} \cup Running]
    BY DEF Inductive, TypeOK, SaveEvent, GoTo, Running
  <2>2. saved' \in [Users -> Scores \cup {Absent}]
    BY DEF Inductive, TypeOK, SaveEvent
  <2> QED BY <1>1, <2>1, <2>2 DEF Inductive, TypeOK, Nodes
<1> HIDE DEF u
<1>3. \A m \in Logins : pc'[m] \in Running \ {"user"} <=> pc[m] \in Running \ {"user"}
  BY <1>1 DEF Running
<1>4. OverlapsAreCrossed'
  BY <1>1, <1>3 DEF Inductive, OverlapsAreCrossed
<1>5. SavedIsScored'
  <2> SUFFICES ASSUME NEW m \in Logins, pc'[m] = "risk", m \notin crossed
               PROVE  saved'[event[m].user] = score[m]
    BY <1>1 DEF SavedIsScored
  <2>1. CASE m = l
    BY <1>1, <2>1 DEF u
  <2>2. CASE m # l
    <3>1. pc[m] = "risk" /\ event[m].user # u
      BY <1>1, <2>2 DEF Inductive, OverlapsAreCrossed, Running, u
    <3>2. event[m].user \in Users /\ saved[event[m].user] = score[m]
      BY <3>1, EventsOfLogins DEF Inductive, SavedIsScored
    <3> QED BY <1>1, <3>1, <3>2
  <2> QED BY <2>1, <2>2
<1>6. ResetIsZero'
  BY <1>1, <1>3 DEF Inductive, ResetIsZero
<1>7. RiskIsOfLastLogin'
  BY <1>1, HandlingGoesOn DEF Inductive, Running, u
<1>8. FlaggedAreRisky'
  BY <1>1, <1>2, FlagsAreKept DEF Inductive
<1> QED BY <1>2, <1>4, <1>5, <1>6, <1>7, <1>8 DEF Inductive

(* The risk that is written is the one in the event, and no less than the  *)
(* one that a sweep has seen, if nothing came between.                     *)
LEMMA UpdateRiskKeeps ==
  ASSUME Inductive, NEW l \in Logins, NEW answers \in BOOLEAN, UpdateRisk(l, answers)
  PROVE  Inductive'
<1> DEFINE u == event[l].user
<1>1. /\ pc[l] = "risk" /\ pc'[l] = "queued" /\ u \in Users /\ score[l] \in Scores
      /\ \A m \in Logins \ {l} : pc'[m] = pc[m]
      /\ \A v \in Users \ {u} : risk'[v] = risk[v]
      /\ risk'[u] = IF answers /\ u \in Nodes THEN score[l] ELSE risk[u]
      /\ UNCHANGED <<flagged, used, at, event, score, saved, crashes, crossed>>
  BY EventsOfLogins DEF Inductive, TypeOK, UpdateRisk, UpdateUserRisk, FinalRisk, GoTo, graphVars
<1>2. /\ spoiled' = IF answers /\ u \in Nodes /\ l \notin crossed
                    THEN spoiled \ {u} ELSE spoiled \cup {u}
      /\ unreset' = IF l \in crossed THEN unreset \cup {u} ELSE unreset
  BY DEF UpdateRisk
<1>3. risk' \in [Users -> Scores \cup {Absent}]
  BY DEF Inductive, TypeOK, UpdateRisk, UpdateUserRisk, FinalRisk, graphVars
<1> HIDE DEF u
<1>4. TypeOK'
  <2>1. pc' \in [Logins -> {"new", "queued", "done", "killed"} \cup Running]
    BY DEF Inductive, TypeOK, UpdateRisk, GoTo
  <2>2. Nodes \subseteq Nodes'
    <3>1. score[l] # Absent
      BY <1>1, ScoresAreNatural
    <3> QED BY <1>1, <3>1 DEF Nodes
  <2>3. flagged' \subseteq Nodes' /\ used \subseteq Nodes' \X Hashes
        /\ unreset' \subseteq Users /\ spoiled' \subseteq Users
    BY <1>1, <1>2, <2>2 DEF Inductive, TypeOK
  <2> QED BY <1>1, <1>3, <2>1, <2>3 DEF Inductive, TypeOK
<1>5. /\ \A m \in Logins : pc'[m] \in Running => pc[m] \in Running /\ m # l
      /\ \A m \in Logins : pc'[m] \in Running /\ m \notin crossed => event[m].user # u
  <2>1. \A m \in Logins : pc'[m] \in Running => pc[m] \in Running /\ m # l
    BY <1>1 DEF Running
  <2> QED BY <1>1, <2>1 DEF Inductive, OverlapsAreCrossed, Running, u
<1>6. OverlapsAreCrossed'
  BY <1>1, <1>5 DEF Inductive, OverlapsAreCrossed
<1>7. SavedIsScored'
  BY <1>1 DEF Inductive, SavedIsScored
<1>8. ResetIsZero'
  <2> SUFFICES ASSUME NEW m \in Logins, pc'[m] \in Running \ {"user"}, m \notin crossed,
                      event[m].user \notin unreset'
               PROVE  risk'[event[m].user] = 0
    BY <1>1 DEF ResetIsZero
  <2>1. pc'[m] = pc[m] /\ event[m].user \notin unreset /\ event[m].user # u
    BY <1>1, <1>2, <1>5
  <2>2. event[m].user \in Users /\ risk[event[m].user] = 0
    BY <2>1, EventsOfLogins DEF Inductive, ResetIsZero, Running
  <2> QED BY <1>1, <2>1, <2>2
<1>9. RiskIsOfLastLogin'
  <2> SUFFICES ASSUME NEW v \in Users \ spoiled', Handling(v)' = {} PROVE risk'[v] = saved[v]
    BY <1>1 DEF RiskIsOfLastLogin
  <2>1. CASE v = u
    <3>1. answers /\ u \in Nodes /\ l \notin crossed
      BY <1>2, <2>1
    <3>2. saved[u] = score[l]
      BY <1>1, <3>1 DEF Inductive, SavedIsScored, u
    <3> QED BY <1>1, <2>1, <3>1, <3>2
  <2>2. CASE v # u
    <3>1. Handling(v) = {}
      BY <1>1, <2>2 DEF Handling, u
    <3> QED BY <1>1, <1>2, <2>2, <3>1 DEF Inductive, RiskIsOfLastLogin
  <2> QED BY <2>1, <2>2
<1>10. FlaggedAreRisky'
  <2>1. l \notin crossed /\ u \notin unreset => risk[u] = 0
    BY <1>1 DEF Inductive, ResetIsZero, Running, u
  <2>2. 0 <= score[l]
    BY <1>1, ScoresAreNatural
  <2>3. u \notin unreset' => risk'[u] = risk[u] \/ risk[u] <= risk'[u]
    BY <1>1, <1>2, <2>1, <2>2
  <2>4. \A v \in flagged' \ unreset' : v \in flagged \ unreset /\ v \in Users
    BY <1>1, <1>2 DEF Inductive, TypeOK, Nodes
  <2> QED BY <1>1, <1>4, <2>3, <2>4, FlagsAreKept DEF Inductive
<1> QED BY <1>4, <1>6, <1>7, <1>8, <1>9, <1>10 DEF Inductive

(* Steps that touch neither the logins in progress nor the risks and their *)
(* events.                                                                 *)
LEMMA BackgroundTaskKeeps ==
  ASSUME Inductive, NEW l \in Logins, BackgroundTask(l)
  PROVE  Inductive'
<1>1. /\ pc[l] = "queued" /\ pc'[l] = "done"
      /\ \A m \in Logins \ {l} : pc'[m] = pc[m]
      /\ UNCHANGED <<risk, flagged, used, at, event, score, saved, crashes, crossed, spoiled,
                     unreset>>
  BY DEF Inductive, TypeOK, BackgroundTask, GoTo, graphVars, historyVars
<1>2. TypeOK'
  <2>1. pc' \in [Logins -> {"new", "queued", "done", "killed"} \cup Running]
    BY DEF Inductive, TypeOK, BackgroundTask, GoTo
  <2> QED BY <1>1, <2>1 DEF Inductive, TypeOK, Nodes
<1>3. \A m \in Logins : (pc'[m] \in Running <=> pc[m] \in Running) /\ (pc'[m] \in Running => pc'[m] = pc[m])
  BY <1>1 DEF Running
<1>4. OverlapsAreCrossed'
  BY <1>1, <1>3 DEF Inductive, OverlapsAreCrossed
<1>5. SavedIsScored'
  BY <1>1 DEF Inductive, SavedIsScored
<1>6. ResetIsZero'
  BY <1>1, <1>3 DEF Inductive, ResetIsZero
<1>7. RiskIsOfLastLogin'
  BY <1>1, <1>3 DEF Inductive, RiskIsOfLastLogin, Handling
<1>8. FlaggedAreRisky'
  BY <1>1, <1>2, FlagsAreKept DEF Inductive
<1> QED BY <1>2, <1>4, <1>5, <1>6, <1>7, <1>8 DEF Inductive

(* A sweep flags who exceeds its thresholds, a freeze clears a flag.       *)
LEMMA FlagStepKeeps ==
  ASSUME Inductive, UNCHANGED <<risk, used, loginVars, saved, crashes, historyVars>>,
         flagged' \subseteq Nodes,
         \A v \in flagged' \ flagged :
           \E size \in ClusterSizes, threshold \in Thresholds : Exceeds(v, size, threshold)
  PROVE  Inductive'
<1> USE DEF loginVars, historyVars
<1>1. TypeOK'
  BY DEF Inductive, TypeOK, Nodes
<1>2. OverlapsAreCrossed' /\ SavedIsScored' /\ ResetIsZero'
  BY DEF Inductive, OverlapsAreCrossed, SavedIsScored, ResetIsZero
<1>3. RiskIsOfLastLogin'
  BY DEF Inductive, RiskIsOfLastLogin, Handling
<1>4. FlaggedAreRisky'
  <2> SUFFICES ASSUME NEW v \in flagged' \ unreset
               PROVE  \E size \in ClusterSizes, threshold \in Thresholds :
                        Exceeds(v, size, threshold)'
    BY DEF FlaggedAreRisky
  <2>1. \E size \in ClusterSizes, threshold \in Thresholds : Exceeds(v, size, threshold)
    BY DEF Inductive, FlaggedAreRisky
  <2>2. Peers(v)' = Peers(v)
    BY DEF Peers, Sharing
  <2> QED BY <2>1, <2>2 DEF Exceeds
<1> QED BY <1>1, <1>2, <1>3, <1>4 DEF Inductive

LEMMA SweepKeeps ==
  ASSUME Inductive, NEW p \in Processes, NEW size \in ClusterSizes, NEW threshold \in Thresholds,
         Sweep(p, size, threshold)
  PROVE  Inductive'
<1>1. flagged' = flagged \cup FlaggedUsers(size, threshold)
      /\ UNCHANGED <<risk, used, loginVars, saved, crashes, historyVars>>
  BY DEF Sweep, GetFlaggedUsers
<1>2. \A v \in FlaggedUsers(size, threshold) : v \in Nodes /\ Exceeds(v, size, threshold)
  BY DEF FlaggedUsers
<1>3. flagged' \subseteq Nodes
  BY <1>1, <1>2 DEF Inductive, TypeOK
<1> QED BY <1>1, <1>2, <1>3, FlagStepKeeps

LEMMA FreezeKeeps ==
  ASSUME Inductive, NEW p \in Processes, NEW u \in Users, Freeze(p, u)
  PROVE  Inductive'
<1>1. flagged' \subseteq flagged
      /\ UNCHANGED <<risk, used, loginVars, saved, crashes, historyVars>>
  BY DEF Freeze, ClearFlag
<1>2. flagged' \subseteq Nodes
  BY <1>1 DEF Inductive, TypeOK
<1> QED BY <1>1, <1>2, FlagStepKeeps

(* The logins that die in progress spoil their users.                      *)
LEMMA CrashKeeps ==
  ASSUME Inductive, NEW p \in Processes, Crash(p)
  PROVE  Inductive'
<1>1. /\ crashes' = crashes + 1 /\ crashes < MaxCrashes
      /\ pc' = [l \in Logins |-> IF at[l] = p /\ pc[l] \in Running \cup {"queued"}
                                 THEN "killed" ELSE pc[l]]
      /\ spoiled' = spoiled \cup
           {event[l].user : l \in {m \in Logins : at[m] = p /\ pc[m] \in Running}}
      /\ UNCHANGED <<risk, flagged, used, at, event, score, saved, crossed, unreset>>
  BY DEF Crash, graphVars
<1>2. \A l \in Logins : pc'[l] # pc[l] => pc'[l] = "killed" /\ pc[l] # "new" /\ at[l] = p
  BY <1>1 DEF Running
<1>3. TypeOK'
  <2>1. pc' \in [Logins -> {"new", "queued", "done", "killed"} \cup Running]
    BY <1>1 DEF Inductive, TypeOK
  <2>2. crashes' \in 0 .. MaxCrashes
    BY <1>1, BoundsAssumption DEF Inductive, TypeOK
  <2>3. spoiled' \subseteq Users
    BY <1>1, EventsOfLogins DEF Inductive, TypeOK, Running
  <2>4. \A l \in Logins : pc'[l] # "new" => at[l] \in Processes /\ event[l] \in Events
    BY <1>2 DEF Inductive, TypeOK
  <2> QED BY <1>1, <2>1, <2>2, <2>3, <2>4 DEF Inductive, TypeOK, Nodes
<1>4. \A l \in Logins : pc'[l] \in Running => pc'[l] = pc[l]
  BY <1>2 DEF Running
<1>5. OverlapsAreCrossed'
  BY <1>1, <1>4 DEF Inductive, OverlapsAreCrossed
<1>6. SavedIsScored'
  BY <1>1, <1>2 DEF Inductive, SavedIsScored
<1>7. ResetIsZero'
  BY <1>1, <1>4 DEF Inductive, ResetIsZero
<1>8. RiskIsOfLastLogin'
  <2> SUFFICES ASSUME NEW u \in Users \ spoiled', Handling(u)' = {} PROVE risk[u] = saved[u]
    BY <1>1 DEF RiskIsOfLastLogin
  <2>1. \A l \in Logins : pc[l] \in Running /\ event[l].user = u => pc'[l] = pc[l]
    BY <1>1
  <2>2. Handling(u) = {}
    BY <1>1, <2>1 DEF Handling
  <2> QED BY <1>1, <2>2 DEF Inductive, RiskIsOfLastLogin
<1>9. FlaggedAreRisky'
  BY <1>1, <1>3, FlagsAreKept DEF Inductive
<1> QED BY <1>3, <1>5, <1>6, <1>7, <1>8, <1>9 DEF Inductive

-----------------------------------------------------------------------------
(* Every reachable state satisfies the inductive invariant.                *)
THEOREM PipelineInvariant == Spec => []Inductive
<1>1. Init => Inductive
  BY InitIsInductive
<1>2. Inductive /\ [Next]_vars => Inductive'
  <2> SUFFICES ASSUME Inductive, [Next]_vars PROVE Inductive'
    OBVIOUS
  <2>1. CASE \E l \in Logins, p \in Processes, e \in Events : Arrive(l, p, e)
    BY <2>1, ArriveKeeps
  <2>2. CASE \E l \in Logins : Step(l)
    <3>1. PICK l \in Logins : Step(l)
      BY <2>2
    <3> QED BY <3>1, AddUserKeeps, AddBehaviorKeeps, ScoreKeeps, SaveEventKeeps, UpdateRiskKeeps,
               BackgroundTaskKeeps DEF Step
  <2>3. CASE \E p \in Processes : \/ \E size \in ClusterSizes, threshold \in Thresholds :
                                       Sweep(p, size, threshold)
                                  \/ \E u \in Users : Freeze(p, u)
                                  \/ Crash(p)
    BY <2>3, SweepKeeps, FreezeKeeps, CrashKeeps
  <2>4. CASE UNCHANGED vars
    <3>1. UNCHANGED <<risk, used, loginVars, saved, crashes, historyVars>> /\ flagged' = flagged
      BY <2>4 DEF vars, graphVars
    <3>2. flagged' \subseteq Nodes
      BY <3>1 DEF Inductive, TypeOK
    <3> QED BY <3>1, <3>2, FlagStepKeeps
  <2> QED BY <2>1, <2>2, <2>3, <2>4 DEF Next, Idle
<1> QED BY <1>1, <1>2, PTL DEF Spec

(* Every reachable state is well typed; every score is in range.           *)
THEOREM TypeCorrect == Spec => []TypeOK
<1>1. Inductive => TypeOK
  BY DEF Inductive
<1> QED BY <1>1, PipelineInvariant, PTL

(* update_user_risk leaves the score of the newest login event in the      *)
(* graph, unless the login did not get there whole or alone.               *)
THEOREM GraphKeepsTheRisk == Spec => []RiskIsOfLastLogin
<1>1. Inductive => RiskIsOfLastLogin
  BY DEF Inductive
<1> QED BY <1>1, PipelineInvariant, PTL

(* add_user_node resets risk and flag at once, so that a flag never        *)
(* outlives the risk and the peers for which a sweep has set it.           *)
THEOREM FlagsHaveReasons == Spec => []FlaggedAreRisky
<1>1. Inductive => FlaggedAreRisky
  BY DEF Inductive
<1> QED BY <1>1, PipelineInvariant, PTL
=============================================================================
