----------------------------- MODULE LedgerCalls -----------------------------
(***************************************************************************)
(* What a call that writes to Algorand promises its caller: log_freeze,    *)
(* update_reputation and mint_badge, all by AlgorandClient.send_transaction.*)
(*                                                                         *)
(* A call submits one transaction at most.  A transaction that was         *)
(* submitted may get on the ledger at any time, also after the call has    *)
(* reported failure or died.  A call reports success only if its           *)
(* transaction is on the ledger.  AlgorandLedger implements this.          *)
(***************************************************************************)

CONSTANT Calls

VARIABLES
  status,      \* of each call
  submitted,   \* calls whose transaction a node accepted
  settled      \* calls whose transaction is on the ledger

ledgerVars == <<status, submitted, settled>>

LedgerInit ==
  /\ status = [c \in Calls |-> "idle"]
  /\ submitted = {} /\ settled = {}

Open(c) ==
  /\ status[c] = "idle"
  /\ status' = [status EXCEPT ![c] = "open"]
  /\ UNCHANGED <<submitted, settled>>

Submit(c) ==
  /\ status[c] = "open" /\ c \notin submitted
  /\ submitted' = submitted \cup {c}
  /\ UNCHANGED settled
  /\ \/ UNCHANGED status
     \/ status' = [status EXCEPT ![c] = "failed"]

Settle ==
  /\ settled' \in SUBSET submitted
  /\ settled \subseteq settled'
  /\ UNCHANGED <<status, submitted>>

Close(c, outcome) ==
  /\ status[c] \in {"idle", "open"}
  /\ outcome = "ok" => c \in settled
  /\ status' = [status EXCEPT ![c] = outcome]
  /\ UNCHANGED <<submitted, settled>>

LedgerNext ==
  \/ \E c \in Calls :
       Open(c) \/ Submit(c) \/ \E outcome \in {"ok", "failed"} : Close(c, outcome)
  \/ Settle

LedgerSpec == LedgerInit /\ [][LedgerNext]_ledgerVars
=============================================================================
