--------------------------- MODULE AlgorandLedger ---------------------------
(***************************************************************************)
(* blockchain/: log_freeze, update_reputation and mint_badge build one     *)
(* transaction each and give it to AlgorandClient.send_transaction, which  *)
(* submits it to a node and waits some rounds for it to be confirmed.      *)
(*                                                                         *)
(* The calls block the event loop, so a process makes one at a time, and   *)
(* several processes (vercel.json) use one account.  The node and the      *)
(* network are external: rounds follow each other, a node may fail to      *)
(* answer, and a transaction may be confirmed long after the call.         *)
(***************************************************************************)
EXTENDS Naturals, FiniteSets

CONSTANTS
  Calls,        \* the calls, each made once; bound: finitely many
  Processes,    \* server processes
  Host,         \* the process that makes each call
  Users,        \* whom they are about
  Kinds,        \* kinds of transactions that are made
  Timeout,      \* rounds to wait: timeout = 10
  MaxRound      \* bound: the last round

ASSUME KindsAssumption == Kinds \subseteq {"FREEZE", "REPUTATION", "BADGE"}
ASSUME HostAssumption == Host \in [Calls -> Processes]
ASSUME TimeoutAssumption == Timeout \in Nat /\ Timeout >= 2
ASSUME BoundsAssumption == MaxRound \in Nat \ {0} /\ IsFiniteSet(Calls)

VARIABLES
  configured,   \* ALGORAND_MNEMONIC is set
  round,        \* the node's last round
  network,      \* transactions that were submitted and are not confirmed
  evicted,      \* those that the node reports a pool-error for
  ledger,       \* the round in which each transaction was confirmed, or 0
  pc,           \* where each call is, or how it ended
  tx,           \* the transaction of each call
  base,         \* last-round at the beginning of its wait
  left,         \* iterations of its loop that are left
  submitted,    \* history: calls whose transaction the node accepted as new
  repeated,     \* history: calls whose transaction it had already
  troubled,     \* history: calls with a poll that failed or a wait cut short
  crossed       \* history: pairs of calls that were open at once

nodeVars == <<round, network, evicted, ledger>>
historyVars == <<submitted, repeated, troubled, crossed>>
vars == <<configured, nodeVars, pc, tx, base, left, historyVars>>

Working == {"params", "send", "status", "poll", "wait"}
Ended   == {"ok", "timeout", "error"}

Stamps == 0 .. MaxRound + Cardinality(Calls)
Txs    == [kind : Kinds, user : Users, stamp : Stamps]
NoTx   == [kind |-> "none"]

Init ==
  /\ configured \in BOOLEAN
  /\ round = 1
  /\ network = {} /\ evicted = {}
  /\ ledger = [t \in Txs |-> 0]
  /\ pc = [c \in Calls |-> "idle"]
  /\ tx = [c \in Calls |-> NoTx]
  /\ base = [c \in Calls |-> 0]
  /\ left = [c \in Calls |-> Timeout]
  /\ submitted = {} /\ repeated = {} /\ troubled = {} /\ crossed = {}

GoTo(c, where) == pc' = [pc EXCEPT ![c] = where]

(* The locals of the loop are gone when a call returns or dies in it.      *)
Forget(some) ==
  /\ base' = [c \in Calls |-> IF c \in some THEN 0 ELSE base[c]]
  /\ left' = [c \in Calls |-> IF c \in some THEN Timeout ELSE left[c]]

-----------------------------------------------------------------------------
(* The methods of FreezeLedger, ReputationManager and NFTBadge.            *)

(* Mutant of NoteStamp: the note has no timestamp.                         *)
Unstamped == 0

(* The notes of log_freeze and update_reputation hold the time of the      *)
(* call, which no two calls share.                                         *)
NoteStamp == Cardinality({c \in Calls : pc[c] # "idle"})

(* mint_badge does not put its metadata into the transaction, so that only *)
(* the round of the suggested parameters tells two badges of a user apart. *)
Built(t) == IF t.kind = "BADGE" THEN [t EXCEPT !.stamp = round] ELSE t

Open == {c \in Calls : pc[c] \in Working}

LoopFree(p) == \A d \in Open : Host[d] # p

(* A method is called.  It ends at once if there is no account, or if the  *)
(* risk is too high for a badge.                                           *)
Begin(c, k, u, risky) ==
  /\ pc[c] = "idle"
  /\ LoopFree(Host[c])
  /\ k # "BADGE" => ~risky
  /\ IF configured /\ ~risky
     THEN /\ GoTo(c, "params")
          /\ tx' = [tx EXCEPT ![c] = [kind |-> k, user |-> u, stamp |-> NoteStamp]]
          /\ crossed' = crossed \cup {{c, d} : d \in Open}
     ELSE GoTo(c, "error") /\ UNCHANGED <<tx, crossed>>
  /\ UNCHANGED <<configured, nodeVars, base, left, submitted, repeated, troubled>>

(* suggested_params answers, and the transaction is built.                 *)
BuildTransaction(c) ==
  /\ pc[c] = "params"
  /\ tx' = [tx EXCEPT ![c] = Built(@)]
  /\ GoTo(c, "send")
  /\ UNCHANGED <<configured, nodeVars, base, left, historyVars>>

(* Any call of the node outside the loop's try raises: an error is         *)
(* reported.                                                               *)
NodeFails(c) ==
  /\ pc[c] \in {"params", "send", "status", "wait"}
  /\ GoTo(c, "error")
  /\ Forget({c})
  /\ UNCHANGED <<configured, nodeVars, tx, historyVars>>

-----------------------------------------------------------------------------
(* send_transaction and wait_for_confirmation.                             *)

Known(t) == t \in network \/ ledger[t] > 0

(* The node accepts the transaction; its answer may get lost, and then the *)
(* call reports an error.                                                  *)
Send(c) ==
  /\ pc[c] = "send"
  /\ ~Known(tx[c])
  /\ network' = network \cup {tx[c]}
  /\ submitted' = submitted \cup {c}
  /\ GoTo(c, "status") \/ GoTo(c, "error")
  /\ UNCHANGED <<configured, round, evicted, ledger, tx, base, left, repeated,
                 troubled, crossed>>

(* The node refuses a transaction that it has already.                     *)
SendAgain(c) ==
  /\ pc[c] = "send"
  /\ Known(tx[c])
  /\ repeated' = repeated \cup {c}
  /\ GoTo(c, "error")
  /\ UNCHANGED <<configured, nodeVars, tx, base, left, submitted, troubled, crossed>>

Status(c) ==
  /\ pc[c] = "status"
  /\ base' = [base EXCEPT ![c] = round]
  /\ GoTo(c, "poll")
  /\ UNCHANGED <<configured, nodeVars, tx, left, historyVars>>

(* Mutant of Confirmed: any answer without an error is taken for it.       *)
NotRefused(t) == t \notin evicted

Confirmed(t) == ledger[t] > 0

Poll(c) ==
  /\ pc[c] = "poll"
  /\ IF Confirmed(tx[c]) \/ tx[c] \in evicted
     THEN GoTo(c, IF Confirmed(tx[c]) THEN "ok" ELSE "error") /\ Forget({c})
     ELSE GoTo(c, "wait") /\ UNCHANGED <<base, left>>
  /\ UNCHANGED <<configured, nodeVars, tx, historyVars>>

(* The bare except: a poll that fails is like one that found nothing.      *)
PollFails(c) ==
  /\ pc[c] = "poll"
  /\ GoTo(c, "wait")
  /\ troubled' = troubled \cup {c}
  /\ UNCHANGED <<configured, nodeVars, tx, base, left, submitted, repeated, crossed>>

(* Mutant of CurrentRound: it starts at last_round.                        *)
CurrentRoundTooLow(c) == base[c] + Timeout - left[c]

(* current_round starts at last_round + 1 and grows with the iterations.   *)
CurrentRound(c) == base[c] + 1 + Timeout - left[c]

(* Mutants of NextIteration: not counted, and one too many.                *)
NextIterationUncounted(c) == GoTo(c, "poll") /\ UNCHANGED left

NextIterationTooMany(c) ==
  /\ left' = [left EXCEPT ![c] = @ - 1]
  /\ GoTo(c, IF left[c] = 0 THEN "timeout" ELSE "poll")

(* After the last wait the transaction is not looked at again.             *)
NextIteration(c) ==
  /\ left' = [left EXCEPT ![c] = @ - 1]
  /\ GoTo(c, IF left[c] = 1 THEN "timeout" ELSE "poll")

(* status_after_block(current_round) answers when there is a later block,  *)
(* or after a time of the node's own; the code does not look which.        *)
Wait(c) ==
  /\ pc[c] = "wait"
  /\ NextIteration(c)
  /\ troubled' = IF round > CurrentRound(c) THEN troubled ELSE troubled \cup {c}
  /\ UNCHANGED <<configured, nodeVars, tx, base, submitted, repeated, crossed>>

-----------------------------------------------------------------------------
(* The environment.                                                        *)

(* A round confirms some of the transactions.                              *)
NewRound ==
  /\ round < MaxRound
  /\ round' = round + 1
  /\ \E confirmed \in SUBSET network :
       /\ network' = network \ confirmed
       /\ ledger' = [t \in Txs |-> IF t \in confirmed THEN round' ELSE ledger[t]]
  /\ UNCHANGED <<configured, evicted, pc, tx, base, left, historyVars>>

(* The node drops a transaction; another may still confirm it.  Nobody     *)
(* sees it unless a call is waiting for that transaction.                  *)
Evict(t) ==
  /\ t \in network \ evicted
  /\ \E c \in Calls : pc[c] \in {"poll", "wait"} /\ tx[c] = t
  /\ evicted' = evicted \cup {t}
  /\ UNCHANGED <<configured, round, network, ledger, pc, tx, base, left, historyVars>>

(* A process dies, and with it its call; what that submitted stays         *)
(* submitted, and the next process finds nothing to repair.                *)
Crash(p) ==
  LET dying == {c \in Open : Host[c] = p}
  IN  /\ dying # {}
      /\ pc' = [c \in Calls |-> IF c \in dying THEN "error" ELSE pc[c]]
      /\ Forget(dying)
      /\ UNCHANGED <<configured, nodeVars, tx, historyVars>>

Idle == (\A c \in Calls : pc[c] \in Ended) /\ UNCHANGED vars

-----------------------------------------------------------------------------
Step(c) ==
  \/ BuildTransaction(c) \/ NodeFails(c)
  \/ Send(c) \/ SendAgain(c) \/ Status(c)
  \/ Poll(c) \/ PollFails(c) \/ Wait(c)

Next ==
  \/ \E c \in Calls :
       \/ \E k \in Kinds, u \in Users, risky \in BOOLEAN : Begin(c, k, u, risky)
       \/ Step(c)
  \/ NewRound
  \/ \E t \in network : Evict(t)
  \/ \E p \in Processes : Crash(p)
  \/ Idle

Spec == Init /\ [][Next]_vars

(* A call goes on as long as the node answers or fails; the node answers   *)
(* status_after_block after some time whether or not there is a block.     *)
FairSpec == Spec /\ \A c \in Calls : WF_vars(Step(c))

-----------------------------------------------------------------------------
(* Properties.                                                             *)

TypeOK ==
  /\ configured \in BOOLEAN
  /\ round \in 1 .. MaxRound
  /\ network \subseteq Txs /\ evicted \subseteq Txs
  /\ ledger \in [Txs -> 0 .. MaxRound]
  /\ pc \in [Calls -> {"idle"} \cup Working \cup Ended]
  /\ tx \in [Calls -> Txs \cup {NoTx}]
  /\ base \in [Calls -> 0 .. MaxRound]
  /\ left \in [Calls -> 0 .. Timeout]
  /\ \A c \in Calls : pc[c] \in Working => left[c] > 0
  /\ submitted \subseteq Calls /\ repeated \subseteq Calls /\ troubled \subseteq Calls
  /\ crossed \subseteq SUBSET Calls

(* "Timeout waiting for confirmation": if the node answered every poll and *)
(* every wait with a block, the transaction was not confirmed within       *)
(* Timeout rounds from the one the wait began in, though it may have been  *)
(* in the round after, which the loop awaits and does not look at.         *)
TimeoutIsLate ==
  \A c \in Calls :
    pc[c] = "timeout" /\ c \notin troubled /\ ledger[tx[c]] > 0
      => ledger[tx[c]] > base[c] + Timeout

(* A transaction is refused as a repetition only if it is a badge.  The    *)
(* call that submitted it first has not reported success, unless two       *)
(* processes were inside mint_badge at once: then one user's badge may be  *)
(* reported minted by the one process and failed by the other.             *)
RepeatsAreUnsettledBadges ==
  \A c \in repeated :
    /\ tx[c].kind = "BADGE"
    /\ \A d \in submitted :
         tx[d] = tx[c] /\ pc[d] = "ok" => {c, d} \in crossed /\ Host[c] # Host[d]

(* Every call ends.                                                        *)
EveryCallEnds == \A c \in Calls : pc[c] # "idle" ~> pc[c] \in Ended

-----------------------------------------------------------------------------
(* This module implements LedgerCalls.                                     *)

CallStatus(c) ==
  CASE pc[c] \in Working            -> "open"
    [] pc[c] \in {"error", "timeout"} -> "failed"
    [] OTHER                        -> pc[c]

Settled == {c \in submitted : ledger[tx[c]] > 0}

Abstract == INSTANCE LedgerCalls WITH status <- [c \in Calls |-> CallStatus(c)],
                                      settled <- Settled

(* One transaction per call at most, success only if it is on the ledger,  *)
(* and it may get there after a failure was reported.                      *)
ImplementsLedgerCalls == Abstract!LedgerSpec
=============================================================================
