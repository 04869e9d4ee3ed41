------------------------ MODULE AlgorandLedgerProofs ------------------------
(***************************************************************************)
(* Theorems about AlgorandLedger, for any number of calls, rounds and      *)
(* crashes: which transactions a node refuses as repetitions, what a       *)
(* timeout tells, and that LedgerCalls is implemented.                     *)
(***************************************************************************)
EXTENDS AlgorandLedger, FiniteSetTheorems, TLAPS

-----------------------------------------------------------------------------
(* The parts of the inductive invariant.                                   *)

(* A call keeps the event loop of its process, so that calls that are open *)
(* at once, which is noted, are made by two.                               *)
OneAtATime ==
  /\ \A c, d \in Open : c # d => {c, d} \in crossed
  /\ \A c, d \in Calls : c # d /\ {c, d} \in crossed => Host[c] # Host[d]

(* Where a call is tells what it has: its iterations, its transaction and  *)
(* whether a node has accepted that or refused it as a repetition.         *)
Unsent == {"idle", "params", "send"}

CallsInOrder ==
  \A c \in Calls :
    /\ pc[c] \in Unsent \cup {"status"} => left[c] = Timeout
    /\ pc[c] \in Working \/ c \in submitted \cup repeated => tx[c] \in Txs
    /\ c \in submitted \cup repeated => pc[c] \notin Unsent
    /\ pc[c] \in {"status", "poll", "wait", "ok", "timeout"} => c \in submitted
    /\ c \in repeated => c \notin submitted /\ pc[c] = "error"

(* The network and the ledger hold what calls have submitted, each         *)
(* transaction in one place.                                               *)
KnownAreSubmitted ==
  /\ \A t \in network : ledger[t] = 0
  /\ \A c \in submitted : Known(tx[c])
  /\ \A t \in Txs : Known(t) => \E d \in submitted : tx[d] = t

(* Whoever submitted what is refused as a repetition has failed before,    *)
(* or was open at the same time.                                           *)
RepeatsAreKnown ==
  \A c \in repeated :
    /\ Known(tx[c])
    /\ tx[c].kind = "BADGE"
    /\ \A d \in submitted :
         tx[d] = tx[c] => pc[d] \in {"error", "timeout"} \/ {c, d} \in crossed

(* No two notes have the same stamp.                                       *)
IsNote(t) == t \in Txs /\ t.kind # "BADGE"

NotesInOrder ==
  /\ \A c \in Calls : IsNote(tx[c]) => tx[c].stamp < NoteStamp
  /\ \A c, d \in Calls :
       IsNote(tx[c]) /\ IsNote(tx[d]) /\ tx[c].stamp = tx[d].stamp => c = d

(* A transaction is confirmed after the round it was built in.             *)
RoundsInOrder ==
  /\ \A t \in Txs : ledger[t] <= round
  /\ \A c \in Calls : (c \in submitted \/ pc[c] = "send") /\ tx[c].kind = "BADGE" =>
         /\ tx[c].stamp <= round
         /\ ledger[tx[c]] > 0 /\ c \in submitted => tx[c].stamp < ledger[tx[c]]

(* Success is reported of confirmed transactions only, and a badge whose   *)
(* call begins afterwards is built in a later round.                       *)
OkIsConfirmed ==
  \A d \in Calls : pc[d] = "ok" =>
    /\ ledger[tx[d]] > 0
    /\ \A c \in Calls : pc[c] = "send" /\ tx[c].kind = "BADGE" /\ {c, d} \notin crossed
                          => ledger[tx[d]] <= tx[c].stamp

(* The round that an untroubled call has seen at least when it polls.      *)
Seen(c) == IF left[c] = Timeout THEN base[c] ELSE base[c] + 1 + Timeout - left[c]

WaitsSeeRounds ==
  \A c \in Calls : c \notin troubled =>
    /\ pc[c] \in {"poll", "wait"} => round >= Seen(c)
    /\ pc[c] = "wait" /\ ledger[tx[c]] > 0 => ledger[tx[c]] > Seen(c)
    /\ pc[c] = "timeout" => round >= base[c] + Timeout

Inductive ==
  /\ TypeOK
  /\ OneAtATime
  /\ CallsInOrder
  /\ KnownAreSubmitted
  /\ RepeatsAreKnown
  /\ NotesInOrder
  /\ RoundsInOrder
  /\ OkIsConfirmed
  /\ WaitsSeeRounds
  /\ TimeoutIsLate

-----------------------------------------------------------------------------
(* Stamps and transactions.                                                *)

LEMMA NotesAreCounted ==
  NoteStamp \in Nat /\ Cardinality(Calls) \in Nat /\ NoteStamp <= Cardinality(Calls)
BY BoundsAssumption, FS_CardinalityType, FS_Subset,
   {c \in Calls : pc[c] # "idle"} \subseteq Calls DEF NoteStamp

LEMMA NotesStay ==
  ASSUME \A d \in Calls : pc'[d] = "idle" <=> pc[d] = "idle"
  PROVE  NoteStamp' = NoteStamp
BY {c \in Calls : pc'[c] # "idle"} = {c \in Calls : pc[c] # "idle"} DEF NoteStamp

LEMMA NoteIsAdded ==
  ASSUME NEW c \in Calls, pc[c] = "idle", pc'[c] # "idle",
         \A d \in Calls \ {c} : pc'[d] = pc[d]
  PROVE  NoteStamp' = NoteStamp + 1
<1> DEFINE begun == {d \in Calls : pc[d] # "idle"}
<1>1. {d \in Calls : pc'[d] # "idle"} = begun \cup {c} /\ c \notin begun
  OBVIOUS
<1>2. IsFiniteSet(begun)
  BY BoundsAssumption, FS_Subset, begun \subseteq Calls
<1>3. Cardinality(begun \cup {c}) = Cardinality(begun) + 1
  <2> HIDE DEF begun
  <2> QED BY <1>1, <1>2, FS_AddElement
<1> QED BY <1>1, <1>3 DEF NoteStamp

LEMMA BuiltIsTyped ==
  ASSUME round \in 1 .. MaxRound, NEW t \in Txs
  PROVE  /\ Built(t) \in Txs /\ Built(t).kind = t.kind
         /\ t.kind = "BADGE" => Built(t).stamp = round
         /\ t.kind # "BADGE" => Built(t) = t
<1>1. round \in Stamps
  BY NotesAreCounted, BoundsAssumption DEF Stamps
<1> QED BY <1>1 DEF Built, Txs

(* What follows from the types alone, in the form the steps need it.       *)
LEMMA TypesOfCalls ==
  ASSUME TypeOK, NEW c \in Calls
  PROVE  /\ base[c] \in Nat /\ left[c] \in 0 .. Timeout /\ Timeout \in Nat /\ Timeout >= 2
         /\ round \in Nat /\ round >= 1
         /\ pc[c] \in {"idle"} \cup Working \cup Ended
         /\ tx[c] \in Txs => /\ tx[c].stamp \in Nat /\ tx[c].kind \in Kinds /\ tx[c].user \in Users
                             /\ ledger[tx[c]] \in Nat
<1>1. MaxRound \in Nat /\ \A n \in Stamps : n \in Nat
  BY BoundsAssumption, NotesAreCounted DEF Stamps
<1>2. \A t \in Txs : t.stamp \in Nat /\ t.kind \in Kinds /\ t.user \in Users
  BY <1>1 DEF Txs
<1>3. \A t \in Txs : ledger[t] \in Nat
  BY <1>1 DEF TypeOK
<1> QED BY <1>1, <1>2, <1>3, TimeoutAssumption DEF TypeOK

-----------------------------------------------------------------------------
LEMMA InitIsInductive ==
  ASSUME Init
  PROVE  Inductive
<1>1. TypeOK
  BY TimeoutAssumption, BoundsAssumption DEF Init, TypeOK, Working
<1>2. \A c \in Calls : pc[c] = "idle" /\ left[c] = Timeout
  BY DEF Init
<1>3. /\ submitted = {} /\ repeated = {} /\ crossed = {} /\ network = {} /\ round = 1
      /\ \A t \in Txs : ledger[t] = 0
  BY DEF Init
<1>4. OneAtATime /\ CallsInOrder
  BY <1>2, <1>3 DEF OneAtATime, CallsInOrder, Open, Working, Unsent
<1>5. KnownAreSubmitted /\ RepeatsAreKnown
  BY <1>3 DEF KnownAreSubmitted, RepeatsAreKnown, Known
<1>6. NotesInOrder /\ RoundsInOrder /\ OkIsConfirmed
  <2>1. \A c \in Calls : ~IsNote(tx[c])
    <3>1. NoTx \notin Txs
      BY DEF NoTx, Txs
    <3> QED BY <3>1 DEF Init, IsNote
  <2> QED BY <1>2, <1>3, <2>1 DEF NotesInOrder, RoundsInOrder, OkIsConfirmed
<1>7. WaitsSeeRounds /\ TimeoutIsLate
  BY <1>2 DEF WaitsSeeRounds, TimeoutIsLate
<1> QED BY <1>1, <1>4, <1>5, <1>6, <1>7 DEF Inductive

-----------------------------------------------------------------------------
(* Steps that neither send nor build a transaction: working calls go on or *)
(* end, and everything but the waits is as before.                         *)

Quiet ==
  /\ UNCHANGED <<round, network, ledger, tx, submitted, repeated, crossed>>
  /\ \A d \in Calls : pc'[d] = pc[d] => left'[d] = left[d]
  /\ \A d \in Calls : pc'[d] # pc[d] =>
       /\ pc[d] \in Working /\ pc'[d] \in {"poll", "wait", "ok", "timeout", "error"}
       /\ pc'[d] # "error" => pc[d] \in {"status", "poll", "wait"}
       /\ pc'[d] = "ok" => ledger[tx[d]] > 0

LEMMA QuietKeeps ==
  ASSUME Inductive, Quiet
  PROVE  /\ OneAtATime' /\ CallsInOrder' /\ KnownAreSubmitted' /\ RepeatsAreKnown'
         /\ NotesInOrder' /\ RoundsInOrder' /\ OkIsConfirmed'
<1>1. /\ \A d \in Calls : pc'[d] \in Working => pc[d] \in Working
      /\ \A d \in Calls : pc'[d] \in Unsent \cup {"status"} => pc'[d] = pc[d]
      /\ \A d \in Calls : pc[d] \notin Working => pc'[d] = pc[d]
      /\ \A d \in Calls : pc'[d] = "idle" <=> pc[d] = "idle"
  BY DEF Quiet, Working, Unsent
<1>2. NoteStamp' = NoteStamp
  BY <1>1, NotesStay
<1>3. UNCHANGED <<round, network, ledger, tx, submitted, repeated, crossed>>
  BY DEF Quiet
<1>4. OneAtATime'
  BY <1>1, <1>3 DEF Inductive, OneAtATime, Open
<1>5. CallsInOrder'
  <2> SUFFICES ASSUME NEW c \in Calls
               PROVE  /\ pc'[c] \in Unsent \cup {"status"} => left'[c] = Timeout
                      /\ pc'[c] \in Working \/ c \in submitted \cup repeated => tx[c] \in Txs
                      /\ c \in submitted \cup repeated => pc'[c] \notin Unsent
                      /\ pc'[c] \in {"status", "poll", "wait", "ok", "timeout"} => c \in submitted
                      /\ c \in repeated => c \notin submitted /\ pc'[c] = "error"
    BY <1>3 DEF CallsInOrder
  <2>1. CallsInOrder
    BY DEF Inductive
  <2>2. pc'[c] \in Unsent \cup {"status"} => left'[c] = Timeout
    BY <1>1, <2>1 DEF CallsInOrder, Quiet, Unsent
  <2>3. pc'[c] \in {"status", "poll", "wait", "ok", "timeout"} => c \in submitted
    BY <2>1 DEF CallsInOrder, Quiet
  <2>4. c \in repeated => pc'[c] = "error"
    BY <1>1, <2>1 DEF CallsInOrder, Working
  <2> QED BY <1>1, <2>1, <2>2, <2>3, <2>4 DEF CallsInOrder
<1>6. KnownAreSubmitted'
  BY <1>3 DEF Inductive, KnownAreSubmitted, Known
<1>7. RepeatsAreKnown'
  BY <1>1, <1>3 DEF Inductive, TypeOK, RepeatsAreKnown, Known, Working
<1>8. NotesInOrder'
  BY <1>2, <1>3 DEF Inductive, NotesInOrder, IsNote
<1>9. RoundsInOrder'
  BY <1>1, <1>3 DEF Inductive, RoundsInOrder, Unsent
<1>10. OkIsConfirmed'
  <2> SUFFICES ASSUME NEW d \in Calls, pc'[d] = "ok"
               PROVE  /\ ledger[tx[d]] > 0
                      /\ \A c \in Calls :
                           pc'[c] = "send" /\ tx[c].kind = "BADGE" /\ {c, d} \notin crossed
                             => ledger[tx[d]] <= tx[c].stamp
    BY <1>3 DEF OkIsConfirmed
  <2>1. CASE pc[d] = "ok"
    BY <1>1, <2>1 DEF Inductive, OkIsConfirmed, Unsent
  <2>2. CASE pc[d] # "ok"
    <3>1. pc[d] \in Working /\ ledger[tx[d]] > 0
      BY <2>2 DEF Quiet
    <3>2. ASSUME NEW c \in Calls, pc'[c] = "send"
          PROVE  {c, d} \in crossed
      <4>1. pc[c] = "send" /\ c # d
        BY <1>1, <3>2 DEF Unsent
      <4> QED BY <3>1, <4>1 DEF Inductive, OneAtATime, Open, Working
    <3> QED BY <3>1, <3>2
  <2> QED BY <2>1, <2>2
<1> QED BY <1>4, <1>5, <1>6, <1>7, <1>8, <1>9, <1>10

(* The quiet steps, each with its type and what it shows of the waits.     *)

WaitsKept == TypeOK' /\ WaitsSeeRounds' /\ TimeoutIsLate'

LEMMA QuietThenInductive ==
  ASSUME Inductive, Quiet, WaitsKept
  PROVE  Inductive'
BY QuietKeeps DEF Inductive, WaitsKept

LEMMA ForgetIsTyped ==
  ASSUME TypeOK, NEW some, Forget(some)
  PROVE  base' \in [Calls -> 0 .. MaxRound] /\ left' \in [Calls -> 0 .. Timeout]
<1>1. 0 \in 0 .. MaxRound /\ Timeout \in 0 .. Timeout
  BY BoundsAssumption, TimeoutAssumption
<1> QED BY <1>1 DEF TypeOK, Forget

(* Errors end calls: what the others have seen is as before.               *)
LEMMA ErrorsKeep ==
  ASSUME Inductive, UNCHANGED <<configured, nodeVars, tx, historyVars>>,
         NEW some \in SUBSET Calls, Forget(some), \A d \in some : pc[d] \in Working,
         pc' = [d \in Calls |-> IF d \in some THEN "error" ELSE pc[d]]
  PROVE  Inductive'
<1>1. /\ \A d \in some : pc'[d] = "error" /\ pc[d] \in Working
      /\ \A d \in Calls \ some : pc'[d] = pc[d] /\ base'[d] = base[d] /\ left'[d] = left[d]
      /\ UNCHANGED <<configured, nodeVars, tx, historyVars>>
  BY DEF Forget
<1>2. Quiet
  BY <1>1 DEF Quiet, nodeVars, historyVars, Working
<1>3. TypeOK'
  <2>1. pc' \in [Calls -> {"idle"} \cup Working \cup Ended]
    BY DEF Inductive, TypeOK, Ended
  <2>2. \A d \in Calls : pc'[d] \in Working => left'[d] > 0
    BY <1>1 DEF Inductive, TypeOK, Working
  <2> QED BY <1>1, <2>1, <2>2, ForgetIsTyped DEF Inductive, TypeOK, nodeVars, historyVars
<1>4. WaitsSeeRounds' /\ TimeoutIsLate'
  <2>1. \A d \in Calls : pc'[d] \in {"poll", "wait", "timeout"} => d \notin some
    BY <1>1
  <2> QED BY <1>1, <2>1 DEF Inductive, WaitsSeeRounds, TimeoutIsLate, Seen, nodeVars, historyVars
<1> QED BY <1>2, <1>3, <1>4, QuietThenInductive DEF WaitsKept

LEMMA NodeFailsKeeps ==
  ASSUME Inductive, NEW c \in Calls, NodeFails(c)
  PROVE  Inductive'
<1>1. pc' = [d \in Calls |-> IF d \in {c} THEN "error" ELSE pc[d]]
  BY DEF Inductive, TypeOK, NodeFails, GoTo
<1>2. pc[c] \in Working /\ Forget({c}) /\ UNCHANGED <<configured, nodeVars, tx, historyVars>>
  BY DEF NodeFails, Working
<1> QED BY <1>1, <1>2, ErrorsKeep, {c} \in SUBSET Calls

LEMMA CrashKeeps ==
  ASSUME Inductive, NEW p \in Processes, Crash(p)
  PROVE  Inductive'
<1> DEFINE dying == {c \in Open : Host[c] = p}
<1>1. /\ dying \in SUBSET Calls /\ \A d \in dying : pc[d] \in Working
      /\ pc' = [d \in Calls |-> IF d \in dying THEN "error" ELSE pc[d]]
      /\ Forget(dying) /\ UNCHANGED <<configured, nodeVars, tx, historyVars>>
  BY DEF Crash, Open
<1> HIDE DEF dying
<1> QED BY <1>1, ErrorsKeep

(* Eviction changes what later polls find and nothing that was seen.       *)
LEMMA EvictKeeps ==
  ASSUME Inductive, NEW t \in network, Evict(t)
  PROVE  Inductive'
<1>1. Quiet
  BY DEF Evict, Quiet, historyVars
<1>2. TypeOK'
  BY DEF Inductive, TypeOK, Evict, historyVars
<1>3. WaitsSeeRounds' /\ TimeoutIsLate'
  BY DEF Inductive, WaitsSeeRounds, TimeoutIsLate, Seen, Evict, historyVars
<1> QED BY <1>1, <1>2, <1>3, QuietThenInductive DEF WaitsKept

(* The wait begins in the present round.                                   *)
LEMMA StatusKeeps ==
  ASSUME Inductive, NEW c \in Calls, Status(c)
  PROVE  Inductive'
<1>1. /\ pc[c] = "status" /\ pc'[c] = "poll" /\ base'[c] = round
      /\ \A d \in Calls \ {c} : pc'[d] = pc[d] /\ base'[d] = base[d]
      /\ UNCHANGED <<configured, nodeVars, tx, left, historyVars>>
  BY DEF Inductive, TypeOK, Status, GoTo
<1>2. Quiet
  BY <1>1 DEF Quiet, nodeVars, historyVars, Working
<1>3. TypeOK'
  BY BoundsAssumption DEF Inductive, TypeOK, Status, GoTo, Working, nodeVars, historyVars
<1>4. left[c] = Timeout
  BY <1>1 DEF Inductive, CallsInOrder
<1>5. WaitsSeeRounds'
  <2> SUFFICES ASSUME NEW d \in Calls, d \notin troubled
               PROVE  (/\ pc[d] \in {"poll", "wait"} => round >= Seen(d)
                       /\ pc[d] = "wait" /\ ledger[tx[d]] > 0 => ledger[tx[d]] > Seen(d)
                       /\ pc[d] = "timeout" => round >= base[d] + Timeout)'
    BY <1>1 DEF WaitsSeeRounds, historyVars
  <2>1. CASE d = c
    BY <1>1, <1>4, <2>1, TypesOfCalls DEF Inductive, Seen, nodeVars
  <2>2. CASE d # c
    BY <1>1, <2>2 DEF Inductive, WaitsSeeRounds, Seen, nodeVars, historyVars
  <2> QED BY <2>1, <2>2
<1>6. TimeoutIsLate'
  BY <1>1 DEF Inductive, TimeoutIsLate, nodeVars, historyVars
<1> QED BY <1>2, <1>3, <1>5, <1>6, QuietThenInductive DEF WaitsKept

(* A poll that finds the transaction neither confirmed nor refused goes on *)
(* to wait for a later round.                                              *)
LEMMA PollKeeps ==
  ASSUME Inductive, NEW c \in Calls, Poll(c)
  PROVE  Inductive'
<1>1. /\ pc[c] = "poll" /\ pc'[c] \in {"ok", "error", "wait"}
      /\ pc'[c] = "ok" <=> ledger[tx[c]] > 0
      /\ pc'[c] = "wait" => base'[c] = base[c] /\ left'[c] = left[c]
      /\ \A d \in Calls \ {c} : pc'[d] = pc[d] /\ base'[d] = base[d] /\ left'[d] = left[d]
      /\ UNCHANGED <<configured, nodeVars, tx, historyVars>>
  BY DEF Inductive, TypeOK, Poll, GoTo, Confirmed, Forget
<1>2. Quiet
  BY <1>1 DEF Quiet, nodeVars, historyVars, Working
<1>3. TypeOK'
  <2>1. pc' \in [Calls -> {"idle"} \cup Working \cup Ended]
    BY DEF Inductive, TypeOK, Poll, GoTo, Working, Ended
  <2>2. base' \in [Calls -> 0 .. MaxRound] /\ left' \in [Calls -> 0 .. Timeout]
    BY ForgetIsTyped DEF Inductive, TypeOK, Poll
  <2>3. \A d \in Calls : pc'[d] \in Working => left'[d] > 0
    BY <1>1 DEF Inductive, TypeOK, Working
  <2> QED BY <1>1, <2>1, <2>2, <2>3 DEF Inductive, TypeOK, nodeVars, historyVars
<1>4. WaitsSeeRounds'
  <2> SUFFICES ASSUME NEW d \in Calls, d \notin troubled
               PROVE  (/\ pc[d] \in {"poll", "wait"} => round >= Seen(d)
                       /\ pc[d] = "wait" /\ ledger[tx[d]] > 0 => ledger[tx[d]] > Seen(d)
                       /\ pc[d] = "timeout" => round >= base[d] + Timeout)'
    BY <1>1 DEF WaitsSeeRounds, historyVars
  <2>1. CASE d = c
    BY <1>1, <2>1 DEF Inductive, WaitsSeeRounds, Seen, nodeVars
  <2>2. CASE d # c
    BY <1>1, <2>2 DEF Inductive, WaitsSeeRounds, Seen, nodeVars
  <2> QED BY <2>1, <2>2
<1>5. TimeoutIsLate'
  <2>1. \A d \in Calls : pc'[d] = "timeout" => d # c
    BY <1>1
  <2> QED BY <1>1, <2>1 DEF Inductive, TimeoutIsLate, nodeVars, historyVars
<1> QED BY <1>2, <1>3, <1>4, <1>5, QuietThenInductive DEF WaitsKept

(* A call whose poll fails has had trouble: nothing is claimed of it.      *)
LEMMA PollFailsKeeps ==
  ASSUME Inductive, NEW c \in Calls, PollFails(c)
  PROVE  Inductive'
<1>1. /\ pc[c] = "poll" /\ pc'[c] = "wait" /\ troubled' = troubled \cup {c}
      /\ \A d \in Calls \ {c} : pc'[d] = pc[d]
      /\ UNCHANGED <<configured, nodeVars, tx, base, left, submitted, repeated, crossed>>
  BY DEF Inductive, TypeOK, PollFails, GoTo
<1>2. Quiet
  BY <1>1 DEF Quiet, nodeVars, Working
<1>3. TypeOK'
  <2>1. pc' \in [Calls -> {"idle"} \cup Working \cup Ended]
    BY DEF Inductive, TypeOK, PollFails, GoTo, Working
  <2> QED BY <1>1, <2>1 DEF Inductive, TypeOK, Working, nodeVars
<1>4. WaitsSeeRounds'
  BY <1>1 DEF Inductive, WaitsSeeRounds, Seen, nodeVars
<1>5. TimeoutIsLate'
  BY <1>1 DEF Inductive, TimeoutIsLate, nodeVars
<1> QED BY <1>2, <1>3, <1>4, <1>5, QuietThenInductive DEF WaitsKept

(* An untroubled wait has seen the round it waited for: with it, one more  *)
(* than the last iteration had.                                            *)
LEMMA WaitKeeps ==
  ASSUME Inductive, NEW c \in Calls, Wait(c)
  PROVE  Inductive'
<1>1. /\ pc[c] = "wait" /\ left'[c] = left[c] - 1
      /\ pc'[c] = IF left[c] = 1 THEN "timeout" ELSE "poll"
      /\ \A d \in Calls \ {c} : pc'[d] = pc[d] /\ left'[d] = left[d]
      /\ UNCHANGED <<configured, nodeVars, tx, base, submitted, repeated, crossed>>
      /\ troubled \subseteq troubled' /\ troubled' \subseteq troubled \cup {c}
      /\ c \notin troubled' => c \notin troubled /\ round > CurrentRound(c)
  BY DEF Inductive, TypeOK, Wait, NextIteration, GoTo
<1>2. left[c] \in 1 .. Timeout
  BY <1>1, TimeoutAssumption DEF Inductive, TypeOK, Working
<1>3. Quiet
  BY <1>1 DEF Quiet, nodeVars, Working
<1>4. TypeOK'
  <2>1. pc' \in [Calls -> {"idle"} \cup Working \cup Ended]
    BY DEF Inductive, TypeOK, Wait, NextIteration, GoTo, Working, Ended
  <2>2. left' \in [Calls -> 0 .. Timeout]
    BY <1>2, TimeoutAssumption DEF Inductive, TypeOK, Wait, NextIteration
  <2>3. \A d \in Calls : pc'[d] \in Working => left'[d] > 0
    <3> SUFFICES ASSUME NEW d \in Calls, pc'[d] \in Working PROVE left'[d] > 0
      OBVIOUS
    <3>1. CASE d = c
      BY <1>1, <1>2, <3>1, TimeoutAssumption DEF Working
    <3>2. CASE d # c
      BY <1>1, <3>2 DEF Inductive, TypeOK
    <3> QED BY <3>1, <3>2
  <2>4. troubled' \subseteq Calls
    BY <1>1 DEF Inductive, TypeOK
  <2> QED BY <1>1, <2>1, <2>2, <2>3, <2>4 DEF Inductive, TypeOK, nodeVars
<1>5. WaitsSeeRounds'
  <2> SUFFICES ASSUME NEW d \in Calls, d \notin troubled'
               PROVE  (/\ pc[d] \in {"poll", "wait"} => round >= Seen(d)
                       /\ pc[d] = "wait" /\ ledger[tx[d]] > 0 => ledger[tx[d]] > Seen(d)
                       /\ pc[d] = "timeout" => round >= base[d] + Timeout)'
    BY DEF WaitsSeeRounds
  <2>1. CASE d = c
    BY <1>1, <1>2, <2>1, TypesOfCalls DEF Inductive, Seen, CurrentRound, nodeVars
  <2>2. CASE d # c
    BY <1>1, <2>2 DEF Inductive, WaitsSeeRounds, Seen, nodeVars
  <2> QED BY <2>1, <2>2
<1>6. TimeoutIsLate'
  <2> SUFFICES ASSUME NEW d \in Calls, pc'[d] = "timeout", d \notin troubled', ledger[tx[d]] > 0
               PROVE  ledger[tx[d]] > base[d] + Timeout
    BY <1>1 DEF TimeoutIsLate, nodeVars
  <2>1. CASE d = c
    <3>1. ledger[tx[c]] > Seen(c) /\ left[c] = 1
      BY <1>1, <2>1 DEF Inductive, WaitsSeeRounds
    <3>2. Seen(c) = base[c] + Timeout
      BY <3>1, TypesOfCalls DEF Inductive, Seen
    <3> QED BY <2>1, <3>1, <3>2
  <2>2. CASE d # c
    BY <1>1, <2>2 DEF Inductive, TimeoutIsLate
  <2> QED BY <2>1, <2>2
<1> QED BY <1>3, <1>4, <1>5, <1>6, QuietThenInductive DEF WaitsKept

-----------------------------------------------------------------------------
(* A round confirms transactions of the network, none of which is on the   *)
(* ledger yet: they are confirmed later than anything so far.              *)
LEMMA NewRoundKeeps ==
  ASSUME Inductive, NewRound
  PROVE  Inductive'
<1> PICK confirmed \in SUBSET network :
      /\ network' = network \ confirmed
      /\ ledger' = [t \in Txs |-> IF t \in confirmed THEN round' ELSE ledger[t]]
  BY DEF NewRound
<1>1. /\ round' = round + 1 /\ round < MaxRound /\ round \in Nat /\ MaxRound \in Nat
      /\ UNCHANGED <<configured, evicted, pc, tx, base, left, historyVars>>
      /\ UNCHANGED <<submitted, repeated, troubled, crossed>>
  BY BoundsAssumption DEF Inductive, TypeOK, NewRound, historyVars
<1>2. TypeOK'
  <2>1. round' \in 1 .. MaxRound /\ round' \in 0 .. MaxRound
    BY <1>1
  <2>2. ledger' \in [Txs -> 0 .. MaxRound] /\ network' \subseteq Txs
    BY <2>1 DEF Inductive, TypeOK
  <2> QED BY <1>1, <2>1, <2>2 DEF Inductive, TypeOK
<1>3. ASSUME NEW t \in Txs
      PROVE  /\ ledger[t] \in Nat /\ ledger[t] <= round
             /\ ledger'[t] = ledger[t] \/ (ledger'[t] = round + 1 /\ ledger[t] = 0)
             /\ ledger'[t] > 0 /\ t \notin confirmed => ledger[t] > 0
             /\ t \in confirmed <=> t \in network /\ ledger'[t] = round + 1
             /\ t \in confirmed => ledger'[t] > 0
             /\ Known(t)' <=> Known(t)
  <2>1. ledger[t] \in Nat /\ ledger[t] <= round
    BY BoundsAssumption DEF Inductive, TypeOK, RoundsInOrder
  <2>2. t \in network => ledger[t] = 0
    BY DEF Inductive, KnownAreSubmitted
  <2>3. ledger'[t] = IF t \in confirmed THEN round + 1 ELSE ledger[t]
    BY <1>1
  <2> QED BY <1>1, <2>1, <2>2, <2>3 DEF Known
<1>4. /\ \A c \in submitted \cup repeated : tx[c] \in Txs
      /\ \A c \in Calls : pc[c] \in Working \cup {"ok", "timeout"} => tx[c] \in Txs
  BY DEF Inductive, TypeOK, CallsInOrder
<1>5. OneAtATime' /\ CallsInOrder'
  BY <1>1 DEF Inductive, OneAtATime, Open, CallsInOrder
<1>6. KnownAreSubmitted'
  <2>1. \A t \in network' : ledger'[t] = 0
    BY <1>3 DEF Inductive, TypeOK, KnownAreSubmitted
  <2>2. \A c \in submitted : Known(tx[c])'
    BY <1>1, <1>3, <1>4 DEF Inductive, KnownAreSubmitted, Known
  <2>3. \A t \in Txs : Known(t)' => \E d \in submitted : tx[d] = t
    BY <1>3 DEF Inductive, KnownAreSubmitted
  <2> QED BY <1>1, <2>1, <2>2, <2>3 DEF KnownAreSubmitted, Known
<1>7. RepeatsAreKnown'
  BY <1>1, <1>3, <1>4 DEF Inductive, RepeatsAreKnown, Known
<1>8. NotesInOrder'
  <2>1. NoteStamp' = NoteStamp
    BY <1>1 DEF NoteStamp
  <2> QED BY <1>1, <2>1 DEF Inductive, NotesInOrder, IsNote
<1>9. RoundsInOrder'
  <2>1. \A t \in Txs : ledger'[t] <= round'
    BY <1>1, <1>3
  <2>2. ASSUME NEW c \in Calls, c \in submitted \/ pc[c] = "send", tx[c].kind = "BADGE"
        PROVE  /\ tx[c].stamp <= round'
               /\ ledger'[tx[c]] > 0 /\ c \in submitted => tx[c].stamp < ledger'[tx[c]]
    <3>1. tx[c] \in Txs /\ tx[c].stamp \in Nat /\ tx[c].stamp <= round
      BY <1>4, <2>2, TypesOfCalls DEF Inductive, RoundsInOrder, Working
    <3>2. ledger[tx[c]] > 0 /\ c \in submitted => tx[c].stamp < ledger[tx[c]]
      BY <2>2 DEF Inductive, RoundsInOrder
    <3> QED BY <1>1, <1>3, <3>1, <3>2
  <2> QED BY <1>1, <2>1, <2>2 DEF RoundsInOrder
<1>10. OkIsConfirmed'
  <2>1. ASSUME NEW d \in Calls, pc[d] = "ok"
        PROVE  ledger[tx[d]] > 0 /\ ledger'[tx[d]] = ledger[tx[d]]
    <3>1. tx[d] \in Txs /\ ledger[tx[d]] > 0
      BY <1>4, <2>1 DEF Inductive, OkIsConfirmed
    <3> QED BY <1>3, <3>1
  <2> QED BY <1>1, <2>1 DEF Inductive, OkIsConfirmed
<1>11. WaitsSeeRounds'
  <2> SUFFICES ASSUME NEW c \in Calls, c \notin troubled
               PROVE  (/\ pc[c] \in {"poll", "wait"} => round >= Seen(c)
                       /\ pc[c] = "wait" /\ ledger[tx[c]] > 0 => ledger[tx[c]] > Seen(c)
                       /\ pc[c] = "timeout" => round >= base[c] + Timeout)'
    BY <1>1 DEF WaitsSeeRounds
  <2>1. Seen(c)' = Seen(c) /\ Seen(c) \in Int /\ base[c] + Timeout \in Int
    BY <1>1, TypesOfCalls DEF Inductive, Seen
  <2>2. /\ pc[c] \in {"poll", "wait"} => round >= Seen(c)
        /\ pc[c] = "wait" /\ ledger[tx[c]] > 0 => ledger[tx[c]] > Seen(c)
        /\ pc[c] = "timeout" => round >= base[c] + Timeout
    BY DEF Inductive, WaitsSeeRounds
  <2>3. pc[c] = "wait" => tx[c] \in Txs
    BY <1>4 DEF Working
  <2> QED BY <1>1, <1>3, <2>1, <2>2, <2>3
<1>12. TimeoutIsLate'
  <2> SUFFICES ASSUME NEW c \in Calls, pc[c] = "timeout", c \notin troubled, ledger'[tx[c]] > 0
               PROVE  ledger'[tx[c]] > base[c] + Timeout
    BY <1>1 DEF TimeoutIsLate
  <2>1. tx[c] \in Txs /\ round >= base[c] + Timeout /\ base[c] + Timeout \in Nat
    BY <1>4, TypesOfCalls DEF Inductive, WaitsSeeRounds
  <2>2. ledger[tx[c]] > 0 => ledger[tx[c]] > base[c] + Timeout
    BY DEF Inductive, TimeoutIsLate
  <2> QED BY <1>1, <1>3, <2>1, <2>2
<1> QED BY <1>2, <1>5, <1>6, <1>7, <1>8, <1>9, <1>10, <1>11, <1>12 DEF Inductive

-----------------------------------------------------------------------------
(* Whatever call begins takes a new stamp, later than that of every note,  *)
(* and crosses every call that is open.                                    *)
LEMMA BeginKeeps ==
  ASSUME Inductive, NEW c \in Calls, NEW k \in Kinds, NEW u \in Users, NEW risky \in BOOLEAN,
         Begin(c, k, u, risky)
  PROVE  Inductive'
<1>1. /\ pc[c] = "idle" /\ pc'[c] \in {"params", "error"} /\ LoopFree(Host[c])
      /\ \A d \in Calls \ {c} : pc'[d] = pc[d] /\ tx'[d] = tx[d]
      /\ UNCHANGED <<configured, round, network, evicted, ledger, base, left,
                     submitted, repeated, troubled>>
  BY DEF Inductive, TypeOK, Begin, GoTo, nodeVars
<1>2. NoteStamp' = NoteStamp + 1 /\ NoteStamp \in Nat
  BY <1>1, NoteIsAdded, NotesAreCounted
<1> DEFINE note == [kind |-> k, user |-> u, stamp |-> NoteStamp]
<1>14. /\ tx' \in [Calls -> Txs \cup {NoTx}]
       /\ \/ pc'[c] = "params" /\ tx'[c] = note /\ crossed' = crossed \cup {{c, d} : d \in Open}
          \/ pc'[c] = "error" /\ tx'[c] = tx[c] /\ crossed' = crossed
       /\ note \in Txs /\ note.stamp = NoteStamp
  <2>1. NoteStamp \in Stamps
    BY BoundsAssumption, NotesAreCounted DEF Stamps
  <2>2. note \in Txs
    BY <2>1 DEF Txs
  <2> QED BY <2>2 DEF Inductive, TypeOK, Begin, GoTo
<1> HIDE DEF note
<1>3. c \notin submitted /\ c \notin repeated /\ left[c] = Timeout
  BY <1>1 DEF Inductive, CallsInOrder, Unsent
<1>4. TypeOK'
  <2>1. pc' \in [Calls -> {"idle"} \cup Working \cup Ended]
    BY DEF Inductive, TypeOK, Begin, GoTo, Working, Ended
  <2>2. \A d \in Calls : pc'[d] \in Working => left[d] > 0
    BY <1>1, <1>3, TimeoutAssumption DEF Inductive, TypeOK
  <2>3. crossed' \subseteq SUBSET Calls
    BY <1>14 DEF Inductive, TypeOK, Open
  <2> QED BY <1>1, <1>14, <2>1, <2>2, <2>3 DEF Inductive, TypeOK
<1>5. OneAtATime'
  <2>1. \A d, e \in Open' : d # e => {d, e} \in crossed'
    <3> SUFFICES ASSUME NEW d \in Open', NEW e \in Open', d # e PROVE {d, e} \in crossed'
      OBVIOUS
    <3>1. \A f \in Open' : f = c \/ f \in Open
      BY <1>1 DEF Open
    <3>2. CASE d # c /\ e # c
      BY <1>14, <3>1, <3>2 DEF Inductive, OneAtATime
    <3>3. CASE d = c \/ e = c
      <4>1. pc'[c] = "params"
        BY <1>14, <3>3 DEF Open, Working
      <4>2. {d, e} \in {{c, f} : f \in Open}
        BY <3>1, <3>3
      <4> QED BY <1>14, <4>1, <4>2
    <3> QED BY <3>2, <3>3
  <2>2. ASSUME NEW d \in Calls, NEW e \in Calls, d # e, {d, e} \in crossed'
        PROVE  Host[d] # Host[e]
    <3>1. CASE {d, e} \in crossed
      BY <2>2, <3>1 DEF Inductive, OneAtATime
    <3>2. CASE {d, e} \notin crossed
      <4>1. PICK f \in Open : {d, e} = {c, f}
        BY <1>14, <2>2, <3>2
      <4>2. Host[f] # Host[c]
        BY <1>1 DEF LoopFree
      <4> QED BY <2>2, <4>1, <4>2
    <3> QED BY <3>1, <3>2
  <2> QED BY <2>1, <2>2 DEF OneAtATime
<1>6. CallsInOrder'
  <2> SUFFICES ASSUME NEW d \in Calls
               PROVE  /\ pc'[d] \in Unsent \cup {"status"} => left[d] = Timeout
                      /\ pc'[d] \in Working \/ d \in submitted \cup repeated => tx'[d] \in Txs
                      /\ d \in submitted \cup repeated => pc'[d] \notin Unsent
                      /\ pc'[d] \in {"status", "poll", "wait", "ok", "timeout"} => d \in submitted
                      /\ d \in repeated => d \notin submitted /\ pc'[d] = "error"
    BY <1>1 DEF CallsInOrder
  <2>1. CASE d = c
    BY <1>1, <1>3, <1>14, <2>1 DEF Inductive, CallsInOrder, Working
  <2>2. CASE d # c
    BY <1>1, <2>2 DEF Inductive, CallsInOrder
  <2> QED BY <2>1, <2>2
<1>7. \A d \in submitted \cup repeated : d \in Calls \ {c}
  BY <1>3 DEF Inductive, TypeOK
<1>8. KnownAreSubmitted' /\ RepeatsAreKnown'
  <2>1. \A d \in submitted \cup repeated : tx'[d] = tx[d] /\ pc'[d] = pc[d]
    BY <1>1, <1>7
  <2>2. crossed \subseteq crossed'
    BY <1>14
  <2> QED BY <1>1, <2>1, <2>2 DEF Inductive, KnownAreSubmitted, RepeatsAreKnown, Known
<1>10. NotesInOrder'
  <2>1. ASSUME NEW d \in Calls, IsNote(tx'[d])
        PROVE  \/ IsNote(tx[d]) /\ tx'[d] = tx[d] /\ tx[d].stamp < NoteStamp /\ tx[d].stamp \in Nat
               \/ d = c /\ tx'[d].stamp = NoteStamp
    <3>1. CASE tx'[d] = tx[d]
      <4>1. IsNote(tx[d]) /\ tx[d] \in Txs
        BY <2>1, <3>1 DEF IsNote
      <4> QED BY <3>1, <4>1, TypesOfCalls DEF Inductive, NotesInOrder
    <3>2. CASE tx'[d] # tx[d]
      BY <1>1, <1>14, <3>2
    <3> QED BY <3>1, <3>2
  <2>2. \A d \in Calls : IsNote(tx'[d]) => tx'[d].stamp < NoteStamp'
    BY <1>2, <2>1
  <2>3. \A d, e \in Calls :
          IsNote(tx'[d]) /\ IsNote(tx'[e]) /\ tx'[d].stamp = tx'[e].stamp => d = e
    <3> SUFFICES ASSUME NEW d \in Calls, NEW e \in Calls, IsNote(tx'[d]), IsNote(tx'[e]),
                        tx'[d].stamp = tx'[e].stamp, d # e
                 PROVE  FALSE
      OBVIOUS
    <3>1. \/ IsNote(tx[d]) /\ tx'[d] = tx[d] /\ tx[d].stamp < NoteStamp /\ tx[d].stamp \in Nat
          \/ d = c /\ tx'[d].stamp = NoteStamp
      BY <2>1
    <3>2. \/ IsNote(tx[e]) /\ tx'[e] = tx[e] /\ tx[e].stamp < NoteStamp /\ tx[e].stamp \in Nat
          \/ e = c /\ tx'[e].stamp = NoteStamp
      BY <2>1
    <3> QED BY <1>2, <3>1, <3>2 DEF Inductive, NotesInOrder
  <2> QED BY <2>2, <2>3 DEF NotesInOrder, IsNote
<1>11. RoundsInOrder' /\ OkIsConfirmed'
  <2>1. \A d \in Calls : pc'[d] \in {"send", "ok"} => d # c
    BY <1>1
  <2>4. \A d \in submitted : tx'[d] = tx[d]
    BY <1>1, <1>7
  <2>2. RoundsInOrder'
    BY <1>1, <1>7, <2>1, <2>4 DEF Inductive, RoundsInOrder
  <2>5. crossed \subseteq crossed'
    BY <1>14
  <2>3. OkIsConfirmed'
    BY <1>1, <2>1, <2>5 DEF Inductive, OkIsConfirmed
  <2> QED BY <2>2, <2>3
<1>12. WaitsSeeRounds' /\ TimeoutIsLate'
  <2>1. \A d \in Calls : pc'[d] \in {"poll", "wait", "timeout"} => d # c
    BY <1>1
  <2>2. WaitsSeeRounds'
    BY <1>1, <2>1 DEF Inductive, WaitsSeeRounds, Seen
  <2>3. TimeoutIsLate'
    BY <1>1, <2>1 DEF Inductive, TimeoutIsLate
  <2> QED BY <2>2, <2>3
<1> QED BY <1>4, <1>5, <1>6, <1>8, <1>10, <1>11, <1>12 DEF Inductive

(* A note is stamped with the number of its call, a badge with the present *)
(* round: no earlier than those of any call that has reported success.     *)
LEMMA BuildTransactionKeeps ==
  ASSUME Inductive, NEW c \in Calls, BuildTransaction(c)
  PROVE  Inductive'
<1>1. /\ pc[c] = "params" /\ pc'[c] = "send" /\ tx[c] \in Txs
      /\ \A d \in Calls \ {c} : pc'[d] = pc[d] /\ tx'[d] = tx[d]
      /\ UNCHANGED <<configured, round, network, evicted, ledger, base, left,
                     submitted, repeated, troubled, crossed>>
  BY DEF Inductive, TypeOK, CallsInOrder, BuildTransaction, GoTo, Working, nodeVars, historyVars
<1>2. /\ tx'[c] \in Txs /\ tx'[c].kind = tx[c].kind
      /\ tx[c].kind = "BADGE" => tx'[c].stamp = round
      /\ tx[c].kind # "BADGE" => tx'[c] = tx[c]
      /\ tx' \in [Calls -> Txs \cup {NoTx}]
  <2>1. tx' = [tx EXCEPT ![c] = Built(tx[c])] /\ tx'[c] = Built(tx[c])
    BY DEF Inductive, TypeOK, BuildTransaction
  <2> QED BY <1>1, <2>1, BuiltIsTyped DEF Inductive, TypeOK
<1>3. NoteStamp' = NoteStamp
  BY <1>1, NotesStay
<1>4. c \notin submitted /\ c \notin repeated /\ left[c] = Timeout
  BY <1>1 DEF Inductive, CallsInOrder, Unsent
<1>5. TypeOK'
  <2>1. pc' \in [Calls -> {"idle"} \cup Working \cup Ended]
    BY DEF Inductive, TypeOK, BuildTransaction, GoTo, Working
  <2> QED BY <1>1, <1>2, <2>1 DEF Inductive, TypeOK, Working
<1>6. OneAtATime'
  BY <1>1 DEF Inductive, OneAtATime, Open, Working
<1>7. CallsInOrder'
  <2> SUFFICES ASSUME NEW d \in Calls
               PROVE  /\ pc'[d] \in Unsent \cup {"status"} => left[d] = Timeout
                      /\ pc'[d] \in Working \/ d \in submitted \cup repeated => tx'[d] \in Txs
                      /\ d \in submitted \cup repeated => pc'[d] \notin Unsent
                      /\ pc'[d] \in {"status", "poll", "wait", "ok", "timeout"} => d \in submitted
                      /\ d \in repeated => d \notin submitted /\ pc'[d] = "error"
    BY <1>1 DEF CallsInOrder
  <2>1. CASE d = c
    BY <1>1, <1>2, <1>4, <2>1
  <2>2. CASE d # c
    BY <1>1, <2>2 DEF Inductive, CallsInOrder
  <2> QED BY <2>1, <2>2
<1>8. \A d \in submitted \cup repeated : d \in Calls \ {c} /\ tx'[d] = tx[d] /\ pc'[d] = pc[d]
  BY <1>1, <1>4 DEF Inductive, TypeOK
<1>9. KnownAreSubmitted' /\ RepeatsAreKnown'
  BY <1>1, <1>8 DEF Inductive, KnownAreSubmitted, RepeatsAreKnown, Known
<1>11. NotesInOrder'
  <2>1. \A d \in Calls : IsNote(tx'[d]) => IsNote(tx[d]) /\ tx'[d] = tx[d]
    BY <1>1, <1>2 DEF IsNote
  <2> QED BY <1>3, <2>1 DEF Inductive, NotesInOrder, IsNote
<1>12. RoundsInOrder'
  <2> SUFFICES ASSUME NEW d \in Calls, d \in submitted \/ pc'[d] = "send", tx'[d].kind = "BADGE"
               PROVE  /\ tx'[d].stamp <= round
                      /\ ledger[tx'[d]] > 0 /\ d \in submitted => tx'[d].stamp < ledger[tx'[d]]
    BY <1>1 DEF Inductive, RoundsInOrder
  <2>1. CASE d = c
    BY <1>2, <1>4, <2>1, TypesOfCalls DEF Inductive
  <2>2. CASE d # c
    BY <1>1, <2>2 DEF Inductive, RoundsInOrder
  <2> QED BY <2>1, <2>2
<1>13. OkIsConfirmed'
  <2> SUFFICES ASSUME NEW d \in Calls, pc'[d] = "ok"
               PROVE  /\ ledger[tx'[d]] > 0
                      /\ \A e \in Calls :
                           pc'[e] = "send" /\ tx'[e].kind = "BADGE" /\ {e, d} \notin crossed
                             => ledger[tx'[d]] <= tx'[e].stamp
    BY <1>1 DEF OkIsConfirmed
  <2>1. d # c /\ tx'[d] = tx[d] /\ pc[d] = "ok" /\ ledger[tx[d]] > 0
    BY <1>1 DEF Inductive, OkIsConfirmed
  <2>2. ledger[tx[d]] <= round
    BY <2>1 DEF Inductive, CallsInOrder, RoundsInOrder
  <2>3. ASSUME NEW e \in Calls, pc'[e] = "send", tx'[e].kind = "BADGE", {e, d} \notin crossed
        PROVE  ledger[tx[d]] <= tx'[e].stamp
    <3>1. CASE e = c
      BY <1>2, <2>2, <2>3, <3>1
    <3>2. CASE e # c
      BY <1>1, <2>1, <2>3, <3>2 DEF Inductive, OkIsConfirmed
    <3> QED BY <3>1, <3>2
  <2> QED BY <2>1, <2>3
<1>14. WaitsSeeRounds'
  BY <1>1 DEF Inductive, WaitsSeeRounds, Seen
<1>15. TimeoutIsLate'
  BY <1>1 DEF Inductive, TimeoutIsLate
<1> QED BY <1>5, <1>6, <1>7, <1>9, <1>11, <1>12, <1>13, <1>14, <1>15 DEF Inductive

-----------------------------------------------------------------------------
(* A transaction that is sent for the first time is on no ledger, and no   *)
(* call was refused it: those that were had one that was known.            *)
LEMMA SendKeeps ==
  ASSUME Inductive, NEW c \in Calls, Send(c)
  PROVE  Inductive'
<1>1. /\ pc[c] = "send" /\ pc'[c] \in {"status", "error"} /\ ~Known(tx[c])
      /\ \A d \in Calls \ {c} : pc'[d] = pc[d]
      /\ network' = network \cup {tx[c]} /\ submitted' = submitted \cup {c}
      /\ UNCHANGED <<configured, round, evicted, ledger, tx, base, left, repeated,
                     troubled, crossed>>
  BY DEF Inductive, TypeOK, Send, GoTo
<1>2. /\ c \notin submitted /\ c \notin repeated /\ left[c] = Timeout
      /\ tx[c] \in Txs /\ ledger[tx[c]] = 0
  <2>1. tx[c] \in Txs
    BY <1>1 DEF Inductive, CallsInOrder, Working
  <2>2. ledger[tx[c]] \in Nat /\ ~(ledger[tx[c]] > 0)
    BY <1>1, <2>1, TypesOfCalls DEF Inductive, Known
  <2> QED BY <1>1, <2>1, <2>2 DEF Inductive, CallsInOrder, Unsent
<1>3. NoteStamp' = NoteStamp
  BY <1>1, NotesStay
<1>4. TypeOK'
  <2>1. pc' \in [Calls -> {"idle"} \cup Working \cup Ended]
    BY DEF Inductive, TypeOK, Send, GoTo, Working, Ended
  <2> QED BY <1>1, <1>2, <2>1 DEF Inductive, TypeOK, Working
<1>5. \A d \in Calls : pc'[d] \in Working => pc[d] \in Working
  BY <1>1 DEF Working
<1>6. OneAtATime'
  BY <1>1, <1>5 DEF Inductive, OneAtATime, Open
<1>7. CallsInOrder'
  <2> SUFFICES ASSUME NEW d \in Calls
               PROVE  /\ pc'[d] \in Unsent \cup {"status"} => left[d] = Timeout
                      /\ pc'[d] \in Working \/ d \in submitted' \cup repeated => tx[d] \in Txs
                      /\ d \in submitted' \cup repeated => pc'[d] \notin Unsent
                      /\ pc'[d] \in {"status", "poll", "wait", "ok", "timeout"} => d \in submitted'
                      /\ d \in repeated => d \notin submitted' /\ pc'[d] = "error"
    BY <1>1 DEF CallsInOrder
  <2>1. CASE d = c
    BY <1>1, <1>2, <2>1 DEF Unsent
  <2>2. CASE d # c
    BY <1>1, <2>2 DEF Inductive, CallsInOrder
  <2> QED BY <2>1, <2>2
<1>8. KnownAreSubmitted'
  <2>1. \A t \in network' : ledger[t] = 0
    BY <1>1, <1>2 DEF Inductive, KnownAreSubmitted
  <2>2. \A d \in submitted' : tx[d] \in network' \/ ledger[tx[d]] > 0
    BY <1>1 DEF Inductive, KnownAreSubmitted, Known
  <2>3. \A t \in Txs : t \in network' \/ ledger[t] > 0 => \E d \in submitted' : tx[d] = t
    BY <1>1 DEF Inductive, KnownAreSubmitted, Known
  <2> QED BY <1>1, <2>1, <2>2, <2>3 DEF KnownAreSubmitted, Known
<1>9. \A e \in repeated : e # c /\ e \in Calls /\ tx[e] # tx[c] /\ pc'[e] = pc[e]
  BY <1>1, <1>2 DEF Inductive, TypeOK, RepeatsAreKnown
<1>10. \A d \in submitted : d # c /\ d \in Calls /\ pc'[d] = pc[d]
  BY <1>1, <1>2 DEF Inductive, TypeOK
<1>11. RepeatsAreKnown'
  <2> SUFFICES ASSUME NEW e \in repeated
               PROVE  /\ tx[e] \in network' \/ ledger[tx[e]] > 0
                      /\ tx[e].kind = "BADGE"
                      /\ \A d \in submitted' : tx[d] = tx[e] =>
                           pc'[d] \in {"error", "timeout"} \/ {e, d} \in crossed
    BY <1>1 DEF RepeatsAreKnown, Known
  <2> QED BY <1>1, <1>9, <1>10 DEF Inductive, RepeatsAreKnown, Known
<1>13. NotesInOrder'
  BY <1>1, <1>3 DEF Inductive, NotesInOrder, IsNote
<1>14. RoundsInOrder'
  <2> SUFFICES ASSUME NEW d \in Calls, d \in submitted' \/ pc'[d] = "send", tx[d].kind = "BADGE"
               PROVE  /\ tx[d].stamp <= round
                      /\ ledger[tx[d]] > 0 /\ d \in submitted' => tx[d].stamp < ledger[tx[d]]
    BY <1>1 DEF Inductive, RoundsInOrder
  <2>1. CASE d = c
    BY <1>1, <1>2, <2>1 DEF Inductive, RoundsInOrder
  <2>2. CASE d # c
    BY <1>1, <2>2 DEF Inductive, RoundsInOrder
  <2> QED BY <2>1, <2>2
<1>15. OkIsConfirmed'
  <2>1. \A d \in Calls : pc'[d] \in {"send", "ok"} => d # c
    BY <1>1
  <2> QED BY <1>1, <2>1 DEF Inductive, OkIsConfirmed
<1>16. WaitsSeeRounds'
  BY <1>1 DEF Inductive, WaitsSeeRounds, Seen
<1>17. TimeoutIsLate'
  BY <1>1 DEF Inductive, TimeoutIsLate
<1> QED BY <1>4, <1>6, <1>7, <1>8, <1>11, <1>13, <1>14, <1>15, <1>16, <1>17 DEF Inductive

(* What a node refuses as a repetition is a badge, for the notes of two    *)
(* calls differ; and its first sender did not see it confirmed before this *)
(* call began, for then the round would have been a later one.             *)
LEMMA SendAgainKeeps ==
  ASSUME Inductive, NEW c \in Calls, SendAgain(c)
  PROVE  Inductive'
<1>1. /\ pc[c] = "send" /\ pc'[c] = "error" /\ Known(tx[c])
      /\ \A d \in Calls \ {c} : pc'[d] = pc[d]
      /\ repeated' = repeated \cup {c}
      /\ UNCHANGED <<configured, round, network, evicted, ledger, tx, base, left, submitted,
                     troubled, crossed>>
  BY DEF Inductive, TypeOK, SendAgain, GoTo, nodeVars
<1>2. /\ tx[c] \in Txs /\ c \notin submitted /\ c \notin repeated
      /\ submitted \subseteq Calls /\ repeated \subseteq Calls
  BY <1>1 DEF Inductive, TypeOK, CallsInOrder, Working, Unsent
<1>3. NoteStamp' = NoteStamp
  BY <1>1, NotesStay
<1>4. \A d \in Calls : pc'[d] \in Working => pc[d] \in Working
  BY <1>1 DEF Working
<1>5. TypeOK'
  <2>1. pc' \in [Calls -> {"idle"} \cup Working \cup Ended]
    BY DEF Inductive, TypeOK, SendAgain, GoTo, Working, Ended
  <2> QED BY <1>1, <1>4, <2>1 DEF Inductive, TypeOK
<1>6. OneAtATime'
  BY <1>1, <1>4 DEF Inductive, OneAtATime, Open
<1>7. CallsInOrder'
  <2> SUFFICES ASSUME NEW d \in Calls
               PROVE  /\ pc'[d] \in Unsent \cup {"status"} => left[d] = Timeout
                      /\ pc'[d] \in Working \/ d \in submitted \cup repeated' => tx[d] \in Txs
                      /\ d \in submitted \cup repeated' => pc'[d] \notin Unsent
                      /\ pc'[d] \in {"status", "poll", "wait", "ok", "timeout"} => d \in submitted
                      /\ d \in repeated' => d \notin submitted /\ pc'[d] = "error"
    BY <1>1 DEF CallsInOrder
  <2>1. CASE d = c
    BY <1>1, <1>2, <2>1 DEF Unsent
  <2>2. CASE d # c
    BY <1>1, <2>2 DEF Inductive, CallsInOrder
  <2> QED BY <2>1, <2>2
<1>8. KnownAreSubmitted'
  BY <1>1 DEF Inductive, KnownAreSubmitted, Known
<1>9. \A d \in submitted : d # c /\ pc'[d] = pc[d]
  BY <1>1, <1>2
<1>10. tx[c].kind = "BADGE"
  <2> SUFFICES ASSUME tx[c].kind # "BADGE" PROVE FALSE
    OBVIOUS
  <2>1. PICK d \in submitted : tx[d] = tx[c]
    BY <1>1, <1>2 DEF Inductive, KnownAreSubmitted
  <2> QED BY <1>2, <1>9, <2>1 DEF Inductive, NotesInOrder, IsNote
<1>11. ASSUME NEW d \in submitted, tx[d] = tx[c], {c, d} \notin crossed
       PROVE  pc[d] \in {"error", "timeout"}
  <2>1. pc[d] \notin Working
    BY <1>1, <1>2, <1>9, <1>11 DEF Inductive, OneAtATime, Open, Working
  <2>2. pc[d] # "idle"
    BY <1>2 DEF Inductive, CallsInOrder, Unsent
  <2>3. pc[d] # "ok"
    <3> SUFFICES ASSUME pc[d] = "ok" PROVE FALSE
      OBVIOUS
    <3>1. ledger[tx[d]] > 0 /\ ledger[tx[d]] <= tx[c].stamp
      BY <1>1, <1>2, <1>10, <1>11 DEF Inductive, OkIsConfirmed
    <3>2. tx[d].stamp < ledger[tx[d]]
      BY <1>2, <1>10, <1>11, <3>1 DEF Inductive, RoundsInOrder
    <3>3. tx[c].stamp \in Nat /\ ledger[tx[c]] \in Nat
      BY <1>2, TypesOfCalls DEF Inductive
    <3> QED BY <1>11, <3>1, <3>2, <3>3
  <2> QED BY <1>2, <2>1, <2>2, <2>3, TypesOfCalls DEF Inductive, Ended
<1>14. RepeatsAreKnown'
  <2> SUFFICES ASSUME NEW e \in repeated'
               PROVE  /\ Known(tx[e]) /\ tx[e].kind = "BADGE"
                      /\ \A d \in submitted : tx[d] = tx[e] =>
                           pc[d] \in {"error", "timeout"} \/ {e, d} \in crossed
    BY <1>1, <1>9 DEF RepeatsAreKnown, Known
  <2>1. CASE e = c
    BY <1>1, <1>10, <1>11, <2>1
  <2>2. CASE e # c
    BY <1>1, <2>2 DEF Inductive, RepeatsAreKnown
  <2> QED BY <2>1, <2>2
<1>16. NotesInOrder'
  BY <1>1, <1>3 DEF Inductive, NotesInOrder, IsNote
<1>17. \A d \in Calls : pc'[d] # pc[d] => pc'[d] = "error"
  BY <1>1
<1>18. RoundsInOrder' /\ OkIsConfirmed'
  BY <1>1, <1>17 DEF Inductive, RoundsInOrder, OkIsConfirmed
<1>19. WaitsSeeRounds' /\ TimeoutIsLate'
  BY <1>1, <1>17 DEF Inductive, WaitsSeeRounds, TimeoutIsLate, Seen
<1> QED BY <1>5, <1>6, <1>7, <1>8, <1>14, <1>16, <1>18, <1>19 DEF Inductive
-----------------------------------------------------------------------------
LEMMA StutterKeeps ==
  ASSUME Inductive, UNCHANGED vars
  PROVE  Inductive'
<1>1. NoteStamp' = NoteStamp
  BY DEF NoteStamp, vars
<1> QED BY <1>1 DEF Inductive, TypeOK, OneAtATime, Open, CallsInOrder, KnownAreSubmitted,
             RepeatsAreKnown, NotesInOrder, IsNote, RoundsInOrder, OkIsConfirmed,
             WaitsSeeRounds, TimeoutIsLate, Known, Seen, vars, nodeVars, historyVars

(* Every reachable state satisfies the inductive invariant.                *)
THEOREM LedgerInvariant == Spec => []Inductive
<1>1. Init => Inductive
  BY InitIsInductive
<1>2. Inductive /\ [Next]_vars => Inductive'
  <2> SUFFICES ASSUME Inductive, [Next]_vars PROVE Inductive'
    OBVIOUS
  <2>1. CASE \E c \in Calls, k \in Kinds, u \in Users, risky \in BOOLEAN : Begin(c, k, u, risky)
    BY <2>1, BeginKeeps
  <2>2. CASE \E c \in Calls : Step(c)
    <3>1. PICK c \in Calls : Step(c)
      BY <2>2
    <3> QED BY <3>1, BuildTransactionKeeps, NodeFailsKeeps, SendKeeps, SendAgainKeeps, StatusKeeps,
               PollKeeps, PollFailsKeeps, WaitKeeps DEF Step
  <2>3. CASE NewRound
    BY <2>3, NewRoundKeeps
  <2>4. CASE \E t \in network : Evict(t)
    BY <2>4, EvictKeeps
  <2>5. CASE \E p \in Processes : Crash(p)
    BY <2>5, CrashKeeps
  <2>6. CASE UNCHANGED vars
    BY <2>6, StutterKeeps
  <2> QED BY <2>1, <2>2, <2>3, <2>4, <2>5, <2>6 DEF Next, Idle
<1> QED BY <1>1, <1>2, PTL DEF Spec

(* Every reachable state is well typed.                                    *)
THEOREM TypeCorrect == Spec => []TypeOK
<1>1. Inductive => TypeOK
  BY DEF Inductive
<1> QED BY <1>1, LedgerInvariant, PTL

(* wait_for_confirmation's "Timeout waiting for confirmation": if every    *)
(* poll was answered and every wait ended with a block, the transaction    *)
(* did not get on the ledger within Timeout rounds of the first.           *)
THEOREM TimeoutTellsLate == Spec => []TimeoutIsLate
<1>1. Inductive => TimeoutIsLate
  BY DEF Inductive
<1> QED BY <1>1, LedgerInvariant, PTL

(* Notes carry the time of their call, mint_badge's transactions only a    *)
(* round: no note is refused as a repetition, and of a badge that is the   *)
(* first call reports success only if two processes minted at once.        *)
THEOREM RepeatsAreBadges == Spec => []RepeatsAreUnsettledBadges
<1>1. Inductive => RepeatsAreUnsettledBadges
  <2> SUFFICES ASSUME Inductive, NEW c \in repeated
               PROVE  /\ tx[c].kind = "BADGE"
                      /\ \A d \in submitted : tx[d] = tx[c] /\ pc[d] = "ok" =>
                           {c, d} \in crossed /\ Host[c] # Host[d]
    BY DEF RepeatsAreUnsettledBadges
  <2>1. c \in Calls /\ c \notin submitted /\ submitted \subseteq Calls
    BY DEF Inductive, TypeOK, CallsInOrder
  <2>2. \A d \in submitted : tx[d] = tx[c] /\ pc[d] = "ok" => {c, d} \in crossed
    BY DEF Inductive, RepeatsAreKnown
  <2>3. \A d \in submitted : {c, d} \in crossed => Host[c] # Host[d]
    BY <2>1 DEF Inductive, OneAtATime
  <2> QED BY <2>2, <2>3 DEF Inductive, RepeatsAreKnown
<1> QED BY <1>1, LedgerInvariant, PTL

-----------------------------------------------------------------------------
(* LedgerCalls is implemented.                                             *)

StatusOf == [c \in Calls |-> CallStatus(c)]

LEMMA StatusesOf ==
  ASSUME TypeOK, TypeOK', NEW c \in Calls
  PROVE  /\ StatusOf[c] = IF pc[c] \in Working THEN "open"
                          ELSE IF pc[c] \in {"error", "timeout"} THEN "failed" ELSE pc[c]
         /\ StatusOf'[c] = IF pc'[c] \in Working THEN "open"
                           ELSE IF pc'[c] \in {"error", "timeout"} THEN "failed" ELSE pc'[c]
BY DEF TypeOK, StatusOf, CallStatus, Working, Ended

(* A step of one call changes one status.                                  *)
LEMMA OneStatusChanges ==
  ASSUME TypeOK, TypeOK', NEW c \in Calls, \A d \in Calls \ {c} : pc'[d] = pc[d]
  PROVE  StatusOf' = [StatusOf EXCEPT ![c] = StatusOf'[c]]
<1>1. \A d \in Calls \ {c} : StatusOf'[d] = StatusOf[d]
  BY StatusesOf
<1> QED BY <1>1 DEF StatusOf

(* What is on the ledger changes only with the rounds.                     *)
LEMMA SettledStays ==
  ASSUME Inductive, UNCHANGED <<ledger, submitted>>, \A d \in submitted : tx'[d] = tx[d]
  PROVE  Settled' = Settled
BY DEF Settled

LEMMA CallsImplement ==
  ASSUME Inductive, Inductive', NEW c \in Calls,
         Step(c) \/ \E k \in Kinds, u \in Users, risky \in BOOLEAN : Begin(c, k, u, risky)
  PROVE  [Abstract!LedgerNext]_(Abstract!ledgerVars)
<1>1. TypeOK /\ TypeOK' /\ (c \in submitted => pc[c] \notin Unsent)
  BY DEF Inductive, CallsInOrder
<1> DEFINE st == StatusOf[c]
           stNext == StatusOf'[c]
<1>2. /\ st = IF pc[c] \in Working THEN "open"
              ELSE IF pc[c] \in {"error", "timeout"} THEN "failed" ELSE pc[c]
      /\ stNext = IF pc'[c] \in Working THEN "open"
                  ELSE IF pc'[c] \in {"error", "timeout"} THEN "failed" ELSE pc'[c]
  BY <1>1, StatusesOf
<1>3. /\ \A d \in Calls \ {c} : pc'[d] = pc[d]
      /\ \A d \in submitted : tx'[d] = tx[d]
      /\ UNCHANGED ledger
  <2>1. \A d \in Calls \ {c} : pc'[d] = pc[d]
    BY <1>1 DEF TypeOK, Step, Begin, BuildTransaction, NodeFails, Send, SendAgain, Status, Poll,
                PollFails, Wait, NextIteration, GoTo
  <2>2. \A d \in submitted : tx'[d] = tx[d]
    BY <1>1 DEF TypeOK, Step, Begin, BuildTransaction, NodeFails, Send, SendAgain, Status, Poll,
                PollFails, Wait, Unsent
  <2>3. UNCHANGED ledger
    BY DEF Step, Begin, BuildTransaction, NodeFails, Send, SendAgain, Status, Poll,
           PollFails, Wait, nodeVars
  <2> QED BY <2>1, <2>2, <2>3
<1>4. StatusOf' = [StatusOf EXCEPT ![c] = stNext]
  BY <1>1, <1>3, OneStatusChanges
<1>5. stNext = st => StatusOf' = StatusOf
  BY <1>4 DEF StatusOf
<1>6. submitted' = submitted => Settled' = Settled
  BY <1>3, SettledStays
<1> HIDE DEF st, stNext
<1> USE DEF StatusOf
<1>7. CASE \E k \in Kinds, u \in Users, risky \in BOOLEAN : Begin(c, k, u, risky)
  <2>1. pc[c] = "idle" /\ pc'[c] \in {"params", "error"} /\ UNCHANGED submitted
    BY <1>1, <1>7 DEF TypeOK, Begin, GoTo, historyVars
  <2>2. st = "idle" /\ stNext \in {"open", "failed"}
    BY <1>2, <2>1 DEF Working
  <2>3. Abstract!Open(c) \/ Abstract!Close(c, "failed")
    BY <1>4, <1>6, <2>1, <2>2 DEF Abstract!Open, Abstract!Close, st
  <2> QED BY <2>3 DEF Abstract!LedgerNext
<1>8. CASE Send(c)
  <2>1. pc[c] = "send" /\ pc'[c] \in {"status", "error"} /\ submitted' = submitted \cup {c}
    BY <1>1, <1>8 DEF TypeOK, Send, GoTo
  <2>2. st = "open" /\ stNext \in {"open", "failed"} /\ c \notin submitted
    BY <1>1, <1>2, <2>1 DEF Working, Unsent
  <2>3. Settled' = Settled
    BY <1>3, <1>8, <2>1 DEF Send, Settled, Known
  <2>4. Abstract!Submit(c)
    BY <1>4, <1>5, <2>1, <2>2, <2>3 DEF Abstract!Submit, st
  <2> QED BY <2>4 DEF Abstract!LedgerNext
<1>9. CASE Step(c) /\ ~Send(c)
  <2>1. /\ UNCHANGED submitted /\ pc[c] \in Working
        /\ pc'[c] \in Working \cup {"ok", "error", "timeout"}
        /\ pc'[c] = "ok" => pc[c] = "poll" /\ ledger[tx[c]] > 0
    BY <1>1, <1>9 DEF TypeOK, Step, BuildTransaction, NodeFails, SendAgain, Status, Poll, PollFails,
                Wait, NextIteration, Confirmed, GoTo, Working, historyVars
  <2>2. st = "open" /\ stNext \in {"open", "ok", "failed"}
    BY <1>2, <2>1 DEF Working
  <2>3. stNext = "ok" => c \in Settled
    <3>1. stNext = "ok" => pc'[c] = "ok"
      BY <1>2
    <3> QED BY <2>1, <3>1 DEF Inductive, CallsInOrder, Settled
  <2>4. CASE stNext = "open"
    BY <1>5, <1>6, <2>1, <2>2, <2>4 DEF Abstract!ledgerVars
  <2>5. CASE stNext \in {"ok", "failed"}
    <3>1. Abstract!Close(c, stNext)
      BY <1>4, <1>6, <2>1, <2>2, <2>3, <2>5 DEF Abstract!Close, st
    <3> QED BY <2>5, <3>1 DEF Abstract!LedgerNext
  <2> QED BY <2>2, <2>4, <2>5
<1> QED BY <1>7, <1>8, <1>9

(* A round settles calls; nothing unsettles them.                          *)
LEMMA RoundImplements ==
  ASSUME Inductive, Inductive', NewRound
  PROVE  Abstract!Settle
<1>1. UNCHANGED <<pc, tx, submitted>>
  BY DEF NewRound, historyVars
<1>2. \A c \in submitted : ledger[tx[c]] > 0 => ledger'[tx[c]] > 0
  <2> SUFFICES ASSUME NEW c \in submitted, ledger[tx[c]] > 0 PROVE ledger'[tx[c]] > 0
    OBVIOUS
  <2>1. tx[c] \in Txs
    BY DEF Inductive, TypeOK, CallsInOrder
  <2>2. ledger'[tx[c]] = round' \/ ledger'[tx[c]] = ledger[tx[c]]
    BY <2>1 DEF NewRound
  <2>3. round' > 0
    BY BoundsAssumption DEF Inductive, TypeOK, NewRound
  <2> QED BY <2>2, <2>3
<1>3. Settled' \in SUBSET submitted /\ Settled \subseteq Settled'
  BY <1>1, <1>2 DEF Settled
<1>4. UNCHANGED StatusOf
  BY <1>1 DEF StatusOf, CallStatus
<1> QED BY <1>1, <1>3, <1>4 DEF Abstract!Settle, StatusOf

(* One call dies with the process: it made only one.                       *)
LEMMA CrashImplements ==
  ASSUME Inductive, Inductive', NEW p \in Processes, Crash(p)
  PROVE  \E c \in Calls : Abstract!Close(c, "failed")
<1>1. PICK c \in Open : Host[c] = p
  BY DEF Crash
<1>2. TypeOK /\ TypeOK' /\ c \in Calls /\ pc[c] \in Working
  BY DEF Inductive, Open
<1>3. \A d \in Open : d # c => Host[d] # p
  BY <1>1, <1>2 DEF Inductive, OneAtATime, Open
<1>4. pc'[c] = "error" /\ \A d \in Calls \ {c} : pc'[d] = pc[d]
  BY <1>1, <1>2, <1>3 DEF Crash
<1>5. StatusOf[c] = "open" /\ StatusOf'[c] = "failed"
  BY <1>2, <1>4, StatusesOf DEF Working
<1>6. StatusOf' = [StatusOf EXCEPT ![c] = "failed"]
  BY <1>2, <1>4, <1>5, OneStatusChanges
<1>7. UNCHANGED <<submitted, Settled>>
  BY SettledStays DEF Crash, nodeVars, historyVars
<1>8. Abstract!Close(c, "failed")
  BY <1>2, <1>5, <1>6, <1>7 DEF Abstract!Close, StatusOf
<1> QED BY <1>2, <1>8

LEMMA StepsImplement ==
  ASSUME Inductive, Inductive', [Next]_vars
  PROVE  [Abstract!LedgerNext]_(Abstract!ledgerVars)
<1>1. CASE NewRound
  BY <1>1, RoundImplements DEF Abstract!LedgerNext
<1>2. CASE \E p \in Processes : Crash(p)
  BY <1>2, CrashImplements DEF Abstract!LedgerNext
<1>3. CASE (\E t \in network : Evict(t)) \/ UNCHANGED vars
  <2>1. UNCHANGED <<pc, tx, submitted, ledger>>
    BY <1>3 DEF Evict, vars, nodeVars, historyVars
  <2>2. UNCHANGED <<StatusOf, Settled>>
    BY <2>1 DEF StatusOf, CallStatus, Settled
  <2> QED BY <2>1, <2>2 DEF Abstract!ledgerVars, StatusOf
<1>4. ASSUME NEW c \in Calls,
             Step(c) \/ \E k \in Kinds, u \in Users, risky \in BOOLEAN : Begin(c, k, u, risky)
      PROVE  [Abstract!LedgerNext]_(Abstract!ledgerVars)
  BY <1>4, CallsImplement
<1> QED BY <1>1, <1>2, <1>3, <1>4 DEF Next, Idle

(* log_freeze, update_reputation and mint_badge keep what LedgerCalls      *)
(* promises: one transaction per call at most, success only if it is on    *)
(* the ledger, and it may get there after a failure was reported.          *)
THEOREM LedgerKeepsItsPromise == Spec => ImplementsLedgerCalls
<1>1. Init => Abstract!LedgerInit
  <2> SUFFICES ASSUME Init PROVE Abstract!LedgerInit
    OBVIOUS
  <2>1. \A c \in Calls : CallStatus(c) = "idle"
    BY DEF Init, CallStatus, Working
  <2> QED BY <2>1 DEF Init, Abstract!LedgerInit, Settled
<1>2. Inductive /\ Inductive' /\ [Next]_vars => [Abstract!LedgerNext]_(Abstract!ledgerVars)
  BY StepsImplement
<1> QED BY <1>1, <1>2, LedgerInvariant, PTL DEF Spec, ImplementsLedgerCalls, Abstract!LedgerSpec
=============================================================================
