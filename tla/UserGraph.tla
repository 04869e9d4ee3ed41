----------------------------- MODULE UserGraph -----------------------------
(***************************************************************************)
(* graph.py: the users and the behaviour hashes they share, in Neo4j.      *)
(*                                                                         *)
(* Every statement is a transaction of its own, and every function of the  *)
(* module swallows its exceptions; an action here is one statement.  Edges *)
(* to devices and to address groups are written and never read; they are   *)
(* left out, like the queries for display and detect_clusters_louvain,     *)
(* which nothing calls.                                                    *)
(***************************************************************************)
EXTENDS Integers, FiniteSets

CONSTANTS
  Users,      \* identifiers of users; numbers, since the queries compare them
  Hashes      \* behaviour hashes

ASSUME UsersAssumption == Users \subseteq Nat /\ IsFiniteSet(Users)
ASSUME HashesAssumption == IsFiniteSet(Hashes)

VARIABLES
  risk,       \* risk_score of every user node, or Absent
  flagged,    \* users whose node has flagged = true
  used        \* the USED_BEHAVIOR edges

graphVars == <<risk, flagged, used>>

Absent == -1

GraphInit ==
  /\ risk = [u \in Users |-> Absent]
  /\ flagged = {}
  /\ used = {}

Nodes == {u \in Users : risk[u] # Absent}

(* Mutant of Unflagged: the statement sets the risk only.                  *)
StillFlagged(u) == flagged

Unflagged(u) == flagged \ {u}

(* add_user_node, first statement: MERGE the node, reset risk and flag.    *)
MergeUser(u, r) ==
  /\ risk' = [risk EXCEPT ![u] = r]
  /\ flagged' = Unflagged(u)
  /\ UNCHANGED used

(* add_user_node, the statements about the behaviour: MATCH the node and   *)
(* MERGE the edge.                                                         *)
MergeBehavior(u, h) ==
  /\ used' = IF u \in Nodes THEN used \cup {<<u, h>>} ELSE used
  /\ UNCHANGED <<risk, flagged>>

(* update_user_risk: only a node that exists, and not its flag.            *)
UpdateUserRisk(u, r) ==
  /\ risk' = IF u \in Nodes THEN [risk EXCEPT ![u] = r] ELSE risk
  /\ UNCHANGED <<flagged, used>>

ClearFlag(u) ==
  /\ flagged' = flagged \ {u}
  /\ UNCHANGED <<risk, used>>

-----------------------------------------------------------------------------
(* The patterns (u)-[:USED_BEHAVIOR]->(b)<-[:USED_BEHAVIOR]-(peer).        *)

Sharing(h) == {u \in Users : <<u, h>> \in used}

Peers(u) == {v \in Users \ {u} : \E h \in Hashes : {u, v} \subseteq Sharing(h)}

(* One row for every hash that u and a peer share.                         *)
PeerRows(u) == {row \in Peers(u) \X Hashes : {u, row[1]} \subseteq Sharing(row[2])}

(* Mutant of Exceeds: the size alone decides.                              *)
ExceedsInSize(u, size, threshold) == Cardinality(Peers(u)) >= size

Exceeds(u, size, threshold) ==
  Cardinality(Peers(u)) >= size /\ risk[u] >= threshold

(* get_flagged_users: who is flagged and returned.                         *)
FlaggedUsers(size, threshold) == {u \in Nodes : Exceeds(u, size, threshold)}

GetFlaggedUsers(size, threshold) ==
  /\ flagged' = flagged \cup FlaggedUsers(size, threshold)
  /\ UNCHANGED <<risk, used>>

(* get_cluster_density, in hundredths.  The last line of the query counts  *)
(* the one row that is left, not the connected pairs, so that the density  *)
(* falls with the size; Neo4j 5 refuses the line, and the density is 0.    *)
Densities(u) ==
  LET n == Cardinality(PeerRows(u))
  IN {0} \cup {100 \div ((n * (n - 1)) \div 2) : m \in {k \in {n} : k > 1}}
=============================================================================
