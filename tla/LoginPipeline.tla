--------------------------- MODULE LoginPipeline ---------------------------
(***************************************************************************)
(* main.py: simulate_login, which /api/simulate, the webhook of Auth0 and  *)
(* run-attack share, and the background task process_blockchain_actions,   *)
(* over UserGraph and RiskModel.                                           *)
(*                                                                         *)
(* Neither awaits anything, so a process runs one at a time; several       *)
(* processes (vercel.json) share Neo4j and MongoDB.  A statement of the    *)
(* graph may fail, unnoticed, and a process may die between any two        *)
(* writes.  MongoDB answers (Storage is about what happens if not).        *)
(***************************************************************************)
EXTENDS UserGraph, RiskModel

CONSTANTS
  Logins,       \* login events that arrive
  Processes,    \* server processes
  Events,       \* what an event may hold: [user, ip, client, device]
  Readings,     \* pairs of a decision of the forest and an ip_entropy
  ClusterSizes, Thresholds,  \* the thresholds that sweeps are made with
  MaxCrashes    \* bound: deaths of processes

ASSUME EventsAssumption ==
  \A e \in Events : e.user \in Users /\ BehaviorHash(e) \in Hashes
ASSUME ReadingsAssumption == Readings \subseteq Decisions \X Hundredths
ASSUME SweepsAssumption == ClusterSizes \subseteq Int /\ Thresholds \subseteq Int
ASSUME BoundsAssumption == MaxCrashes \in Nat

VARIABLES
  pc,         \* where each login is
  at,         \* the process that handles it
  event,      \* its event
  score,      \* its risk_score
  saved,      \* the risk_score in the newest login event of each user
  crashes,    \* deaths so far
  crossed,    \* history: logins that overlapped another of the same user
  spoiled,    \* history: users whose last login did not reach the graph whole
  unreset     \* history: users whose flag may outlive the risk it was set for

loginVars == <<pc, at, event, score>>
historyVars == <<crossed, spoiled, unreset>>
vars == <<graphVars, loginVars, saved, crashes, historyVars>>

Running == {"user", "behavior", "density", "event", "risk"}

NoEvent == [user |-> Absent]

Init ==
  /\ GraphInit
  /\ pc = [l \in Logins |-> "new"]
  /\ at = [l \in Logins |-> "none"]
  /\ event = [l \in Logins |-> NoEvent]
  /\ score = [l \in Logins |-> 0]
  /\ saved = [u \in Users |-> Absent]
  /\ crashes = 0
  /\ crossed = {} /\ spoiled = {} /\ unreset = {}

LoopFree(p) == \A l \in Logins : at[l] = p => pc[l] \notin Running

Handling(u) == {l \in Logins : pc[l] \in Running /\ event[l].user = u}

GoTo(l, where) == pc' = [pc EXCEPT ![l] = where]

-----------------------------------------------------------------------------
(* simulate_login.                                                         *)

Arrive(l, p, e) ==
  /\ pc[l] = "new"
  /\ LoopFree(p)
  /\ GoTo(l, "user")
  /\ at' = [at EXCEPT ![l] = p]
  /\ event' = [event EXCEPT ![l] = e]
  /\ crossed' = IF Handling(e.user) = {} THEN crossed
                                         ELSE crossed \cup Handling(e.user) \cup {l}
  /\ UNCHANGED <<graphVars, score, saved, crashes, spoiled, unreset>>

(* add_user_node with risk 0; if a statement fails the rest is skipped.    *)
AddUser(l, answers) ==
  /\ pc[l] = "user"
  /\ IF answers THEN MergeUser(event[l].user, 0) /\ GoTo(l, "behavior")
                ELSE UNCHANGED graphVars /\ GoTo(l, "density")
  /\ unreset' = IF answers THEN unreset \ {event[l].user} ELSE unreset \cup {event[l].user}
  /\ UNCHANGED <<at, event, score, saved, crashes, crossed, spoiled>>

AddBehavior(l, answers) ==
  /\ pc[l] = "behavior"
  /\ IF answers THEN MergeBehavior(event[l].user, BehaviorHash(event[l]))
                ELSE UNCHANGED graphVars
  /\ GoTo(l, "density")
  /\ UNCHANGED <<at, event, score, saved, crashes, historyVars>>

(* get_cluster_density (0 if it fails) and calculate_risk_score.           *)
Score(l, reading, density) ==
  /\ pc[l] = "density"
  /\ density \in Densities(event[l].user)
  /\ score' = [score EXCEPT ![l] = RiskScore(reading[1], reading[2], density)]
  /\ GoTo(l, "event")
  /\ UNCHANGED <<graphVars, at, event, saved, crashes, historyVars>>

(* save_login_event                                                        *)
SaveEvent(l) ==
  /\ pc[l] = "event"
  /\ saved' = [saved EXCEPT ![event[l].user] = score[l]]
  /\ GoTo(l, "risk")
  /\ UNCHANGED <<graphVars, at, event, score, crashes, historyVars>>

(* Mutant of FinalRisk: the risk that add_user_node was given.             *)
InitialRisk(l) == 0

FinalRisk(l) == score[l]

(* update_user_risk; then the background task is queued and the answer     *)
(* sent.                                                                   *)
UpdateRisk(l, answers) ==
  /\ pc[l] = "risk"
  /\ IF answers THEN UpdateUserRisk(event[l].user, FinalRisk(l)) ELSE UNCHANGED graphVars
  /\ spoiled' = IF answers /\ event[l].user \in Nodes /\ l \notin crossed
                THEN spoiled \ {event[l].user} ELSE spoiled \cup {event[l].user}
  /\ unreset' = IF l \in crossed THEN unreset \cup {event[l].user} ELSE unreset
  /\ GoTo(l, "queued")
  /\ UNCHANGED <<at, event, score, saved, crashes, crossed>>

-----------------------------------------------------------------------------
(* process_blockchain_actions: it keeps the event loop for both calls of   *)
(* the ledger (AlgorandLedger), which it does not read again.              *)
BackgroundTask(l) ==
  /\ pc[l] = "queued"
  /\ LoopFree(at[l])
  /\ GoTo(l, "done")
  /\ UNCHANGED <<graphVars, at, event, score, saved, crashes, historyVars>>

-----------------------------------------------------------------------------
(* What else reaches the graph: the sweeps flag users, and the freezes     *)
(* clear flags (FreezeLifecycle).                                          *)

Sweep(p, size, threshold) ==
  /\ LoopFree(p)
  /\ GetFlaggedUsers(size, threshold)
  /\ UNCHANGED <<loginVars, saved, crashes, historyVars>>

Freeze(p, u) ==
  /\ LoopFree(p)
  /\ ClearFlag(u)
  /\ UNCHANGED <<loginVars, saved, crashes, historyVars>>

(* A process dies with its handler and its queued tasks.                   *)
Crash(p) ==
  /\ crashes < MaxCrashes
  /\ crashes' = crashes + 1
  /\ pc' = [l \in Logins |-> IF at[l] = p /\ pc[l] \in Running \cup {"queued"}
                             THEN "killed" ELSE pc[l]]
  /\ spoiled' = spoiled \cup
       {event[l].user : l \in {m \in Logins : at[m] = p /\ pc[m] \in Running}}
  /\ UNCHANGED <<graphVars, at, event, score, saved, crossed, unreset>>

-----------------------------------------------------------------------------
Idle == (\A l \in Logins : pc[l] \in {"done", "killed"}) /\ UNCHANGED vars

Step(l) ==
  \/ \E answers \in BOOLEAN :
       \/ AddUser(l, answers) \/ AddBehavior(l, answers) \/ UpdateRisk(l, answers)
  \/ \E reading \in Readings, density \in Densities(event[l].user) : Score(l, reading, density)
  \/ SaveEvent(l) \/ BackgroundTask(l)

Next ==
  \/ \E l \in Logins, p \in Processes, e \in Events : Arrive(l, p, e)
  \/ \E l \in Logins : Step(l)
  \/ \E p \in Processes :
       \/ \E size \in ClusterSizes, threshold \in Thresholds : Sweep(p, size, threshold)
       \/ \E u \in Users : Freeze(p, u)
       \/ Crash(p)
  \/ Idle

Spec == Init /\ [][Next]_vars

-----------------------------------------------------------------------------
(* Properties.                                                             *)

Scores == 0 .. 10000

TypeOK ==
  /\ risk \in [Users -> Scores \cup {Absent}]
  /\ flagged \subseteq Nodes
  /\ used \subseteq Nodes \X Hashes
  /\ pc \in [Logins -> {"new", "queued", "done", "killed"} \cup Running]
  /\ at \in [Logins -> Processes \cup {"none"}]
  /\ event \in [Logins -> Events \cup {NoEvent}]
  /\ \A l \in Logins : pc[l] # "new" => at[l] \in Processes /\ event[l] \in Events
  /\ score \in [Logins -> Scores]
  /\ saved \in [Users -> Scores \cup {Absent}]
  /\ crashes \in 0 .. MaxCrashes
  /\ crossed \subseteq Logins /\ spoiled \subseteq Users /\ unreset \subseteq Users

(* Between logins the graph holds the risk of the newest login event,      *)
(* unless the last login of the user failed to reach the graph, died, or   *)
(* overlapped another in a second process; the next whole login repairs it.*)
RiskIsOfLastLogin ==
  \A u \in Users \ spoiled : Handling(u) = {} => risk[u] = saved[u]

(* A flagged user still has the peers and the risk for which some sweep    *)
(* flags users: a login takes the flag away together with the old risk,    *)
(* and no sweep can flag the user before the new one is known.  Not so if  *)
(* the statement that resets both failed, or logins of the user overlapped.*)
FlaggedAreRisky ==
  \A u \in flagged \ unreset :
    \E size \in ClusterSizes, threshold \in Thresholds : Exceeds(u, size, threshold)

(* README.md:350-355 shows the twelve logins of an attack, each with a     *)
(* score above 0.83 and "SUSPICIOUS", and counts "Flagged as suspicious    *)
(* individually: 12/12"; the threshold it sets in its line 271 is the      *)
(* default.  The logins of this property are those of bots.                *)
BotsAreSuspicious ==
  \A l \in Logins : pc[l] \in {"queued", "done"} => Suspicious(score[l])

(* What holds instead: whatever the forest, the address and the graph say, *)
(* no login is ever suspicious by the default threshold, since no caller   *)
(* passes a cluster to compare with; no sweep with that threshold flags    *)
(* anyone.                                                                 *)
NoneIsSuspicious ==
  /\ \A l \in Logins : ~Suspicious(score[l])
  /\ FlaggedUsers(1, RiskScoreThreshold) = {}
=============================================================================
