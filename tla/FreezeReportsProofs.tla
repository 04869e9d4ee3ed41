------------------------ MODULE FreezeReportsProofs ------------------------
(***************************************************************************)
(* More theorems about FreezeLifecycle: the handlers use auth0_client as   *)
(* BlockCalls allows, what they report is true, a flag belongs to a sweep, *)
(* and the notes on the ledger are backed by the log and by Auth0.         *)
(***************************************************************************)
EXTENDS FreezeLifecycleProofs, FiniteSetTheorems

-----------------------------------------------------------------------------
(* The handlers and BlockCalls.                                            *)

(* Every step of the server is a step of BlockCalls, or leaves it alone.   *)
LEMMA StepIsCallStep == TypeOK /\ [Next]_vars => [CallNext]_callVars
<1> SUFFICES ASSUME TypeOK, [Next]_vars PROVE [CallNext]_callVars
  OBVIOUS
<1>1. ASSUME NEW r \in Callers, Arrive(r) PROVE UNCHANGED callVars
  BY <1>1 DEF Arrive, ArriveManual, ArriveSweep, Start
<1>2. ASSUME NEW r \in Callers, Step(r) PROVE [CallNext]_callVars
  <2>1. ASSUME NEW u \in Users, CallAuth0(r, u) PROVE CallNext
    <3>1. <<r, u>> \in Calls /\ Blocks(route[r]) \in BOOLEAN
      BY DEF Calls, Blocks
    <3> QED BY <2>1, <3>1 DEF CallAuth0, CallNext
  <2>2. ASSUME Writes(r) PROVE UNCHANGED callVars
    BY <2>2 DEF Writes, Log, Mark, Chain, Clear, StepTaken
  <2>3. ASSUME Finish(r) PROVE UNCHANGED callVars
    BY <2>3 DEF Finish
  <2> QED BY <1>2, <2>1, <2>2, <2>3 DEF Step, Writes
<1>3. ASSUME NEW r \in Callers, Send(r) PROVE CallNext
  <2>1. <<r, user[r]>> \in Calls
    BY <1>3, AtUser DEF Send
  <2> QED BY <1>3, <2>1 DEF Send, CallNext
<1>4. ASSUME NEW r \in Callers, NEW o \in Outcomes, Return(r, o) PROVE CallNext
  <2>1. <<r, user[r]>> \in Calls
    BY <1>4, AtUser DEF Return
  <2> QED BY <1>4, <2>1 DEF Return, CallNext
<1>5. ASSUME NEW c \in Calls, Apply(c) \/ Drop(c) PROVE CallNext
  BY <1>5 DEF Apply, Drop, CallNext
<1>6. ASSUME Crash PROVE CallNext
  BY <1>6 DEF Crash, CallNext
<1>7. ASSUME UNCHANGED vars PROVE UNCHANGED callVars
  BY <1>7 DEF vars
<1>8. ASSUME NEW u \in Users, LogFreezeNote(u) PROVE UNCHANGED callVars
  BY <1>8, NoteStep
<1> QED
  BY <1>1, <1>2, <1>3, <1>4, <1>5, <1>6, <1>7, <1>8
     DEF Next, Answer, Auth0Acts, AllAnswered

(* The composition is sound: with its handlers, crashes and faults the     *)
(* server makes only the calls that BlockCalls specifies, so whatever      *)
(* Auth0Client is shown to implement is what the handlers rely on.         *)
THEOREM HandlersObeyBlockCalls == Spec => CallSpec
<1>1. Init => CallInit
  BY DEF Init
<1>2. TypeOK /\ [Next]_vars => [CallNext]_callVars
  BY StepIsCallStep
<1> QED BY <1>1, <1>2, TypeCorrect, PTL DEF Spec, CallSpec

-----------------------------------------------------------------------------
(* What every step preserves: a call that was made is not made again, and  *)
(* a handler keeps its route.                                              *)

IdleIsUnapplied ==
  \A r \in Callers, u \in Users :
    call[<<r, u>>].status = "idle" => call[<<r, u>>].applied = 0

CallsGrow ==
  \A r \in Callers, u \in Users : call[<<r, u>>].status # "idle" =>
    /\ call'[<<r, u>>].status # "idle"
    /\ call'[<<r, u>>].block = call[<<r, u>>].block
    /\ call'[<<r, u>>].applied >= call[<<r, u>>].applied

(* One call grows, and the others stay as they are.                        *)
LEMMA CallsGrowNext ==
  ASSUME TypeOK, CallsFollowHandlers, IdleIsUnapplied, [Next]_vars
  PROVE  CallsGrow /\ IdleIsUnapplied'
<1> USE DEF CallRecord, Outcomes
<1>0. /\ call \in [Calls -> CallRecord]
      /\ \A r \in Callers, u \in Users : <<r, u>> \in Calls
  BY DEF TypeOK, CallTypeOK, Calls
<1> DEFINE Grows(d) ==
      /\ call[d].status # "idle" =>
           /\ call'[d].status # "idle"
           /\ call'[d].block = call[d].block
           /\ call'[d].applied >= call[d].applied
      /\ call'[d].status = "idle" => call'[d].applied = 0
<1>1. SUFFICES ASSUME NEW r \in Callers, NEW u \in Users PROVE Grows(<<r, u>>)
  BY DEF CallsGrow, IdleIsUnapplied
<1>2. PICK d \in Calls : d = <<r, u>>
  BY <1>0
<1>3. /\ call[d] \in CallRecord
      /\ call[d].status = "idle" => call[d].applied = 0 /\ call[d].wire = 0
  BY <1>0, <1>2 DEF IdleIsUnapplied, CallsFollowHandlers, IdleIsSilent
<1>4. ASSUME NEW c \in Calls, NEW b \in BOOLEAN, OpenCall(c, b) PROVE Grows(d)
  BY <1>0, <1>3, <1>4 DEF OpenCall, NewCall
<1>5. ASSUME NEW c \in Calls, SendPatch(c) PROVE Grows(d)
  BY <1>0, <1>3, <1>5 DEF SendPatch
<1>6. ASSUME NEW c \in Calls, ApplyPatch(c) PROVE Grows(d)
  BY <1>0, <1>3, <1>6 DEF ApplyPatch
<1>7. ASSUME NEW c \in Calls, DropPatch(c) PROVE Grows(d)
  BY <1>0, <1>3, <1>7 DEF DropPatch
<1>8. ASSUME NEW c \in Calls, NEW o \in Outcomes, CloseCall(c, o) PROVE Grows(d)
  BY <1>0, <1>3, <1>8 DEF CloseCall
<1>9. ASSUME AbandonCalls PROVE Grows(d)
  BY <1>0, <1>3, <1>9 DEF AbandonCalls
<1>10. ASSUME UNCHANGED callVars PROVE Grows(d)
  BY <1>0, <1>3, <1>10 DEF callVars
<1>11. Grows(d)
  BY StepIsCallStep, <1>4, <1>5, <1>6, <1>7, <1>8, <1>9, <1>10 DEF CallNext
<1> QED BY <1>2, <1>11

(* A handler that has not started has nothing.                             *)
NewHasNothing ==
  \A r \in Callers : pc[r] = "new" => reported[r] = {} /\ route[r] = "none"

RoutesKept ==
  \A r \in Callers : pc[r] # "new" => route'[r] = route[r] /\ pc'[r] # "new"

(* What each kind of step does to the handlers.                            *)
LEMMA ArriveStep ==
  ASSUME TypeOK, NEW r \in Callers, Arrive(r)
  PROVE  \E k \in ManualRoutes \cup SweepRoutes, S \in SUBSET Users : \E F \in SUBSET S :
           /\ pc[r] = "new" /\ pc' = [pc EXCEPT ![r] = "pick"]
           /\ route' = [route EXCEPT ![r] = k]
           /\ todo' = [todo EXCEPT ![r] = S]
           /\ flagged' = flagged \cup F
           /\ F # {} => k \in SweepRoutes
           /\ UNCHANGED <<call, user, reported, freezeLog, chain, noted, crashes>>
<1>1. ASSUME NEW k \in ManualRoutes, NEW u \in Users, ArriveManual(r, k, u)
      PROVE  /\ pc[r] = "new" /\ pc' = [pc EXCEPT ![r] = "pick"]
             /\ route' = [route EXCEPT ![r] = k]
             /\ todo' = [todo EXCEPT ![r] = {u}]
             /\ flagged' = flagged \cup {}
             /\ UNCHANGED <<call, user, reported, freezeLog, chain, noted, crashes>>
  BY <1>1 DEF ArriveManual, Start, callVars
<1>2. ASSUME NEW k \in SweepRoutes, NEW S \in SUBSET Users, NEW F \in SUBSET S,
             ArriveSweep(r, k, F, S)
      PROVE  /\ pc[r] = "new" /\ pc' = [pc EXCEPT ![r] = "pick"]
             /\ route' = [route EXCEPT ![r] = k]
             /\ todo' = [todo EXCEPT ![r] = S]
             /\ flagged' = flagged \cup F
             /\ UNCHANGED <<call, user, reported, freezeLog, chain, noted, crashes>>
  BY <1>2 DEF ArriveSweep, Start, callVars
<1>3. CASE \E k \in ManualRoutes, u \in Users : ArriveManual(r, k, u)
  <2>1. PICK k \in ManualRoutes, u \in Users : ArriveManual(r, k, u)
    BY <1>3
  <2>2. {u} \in SUBSET Users /\ {} \in SUBSET {u}
    OBVIOUS
  <2> QED BY <1>1, <2>1, <2>2
<1>4. CASE \E k \in SweepRoutes : \E S \in SUBSET Users : \E F \in SUBSET S :
             ArriveSweep(r, k, F, S)
  BY <1>2, <1>4
<1> QED BY <1>3, <1>4 DEF Arrive

LEMMA CallStep ==
  ASSUME TypeOK, NEW r \in Callers, NEW u \in Users, CallAuth0(r, u)
  PROVE  /\ pc[r] = "pick" /\ pc' = [pc EXCEPT ![r] = "await"]
         /\ u \in todo[r] /\ todo' = [todo EXCEPT ![r] = @ \ {u}]
         /\ user' = [user EXCEPT ![r] = u]
         /\ pc'[r] = "await" /\ user'[r] = u /\ todo'[r] = todo[r] \ {u}
         /\ call'[<<r, u>>].status # "idle"
         /\ UNCHANGED <<route, reported, freezeLog, chain, noted, flagged, crashes>>
<1>1. call \in [Calls -> CallRecord] /\ <<r, u>> \in Calls
  BY DEF TypeOK, CallTypeOK, Calls
<1>2. call'[<<r, u>>] = NewCall("open", Blocks(route[r]))
  BY <1>1 DEF CallAuth0, OpenCall
<1>3. /\ pc' = [pc EXCEPT ![r] = "await"] /\ user' = [user EXCEPT ![r] = u]
      /\ todo' = [todo EXCEPT ![r] = @ \ {u}]
      /\ pc[r] = "pick" /\ u \in todo[r]
      /\ UNCHANGED <<route, reported, freezeLog, chain, noted, flagged, crashes>>
  BY DEF CallAuth0, storeVars
<1>4. pc'[r] = "await" /\ user'[r] = u /\ todo'[r] = todo[r] \ {u}
  BY <1>3 DEF TypeOK
<1>5. call'[<<r, u>>].status # "idle"
  BY <1>2 DEF NewCall
<1> QED BY <1>3, <1>4, <1>5

(* Only freeze-all goes on after a call that did not succeed.              *)
LEMMA ReturnStep ==
  ASSUME TypeOK, CallsFollowHandlers, NEW r \in Callers, NEW o \in Outcomes, Return(r, o)
  PROVE  /\ pc[r] = "await" /\ user[r] \in Users
         /\ pc' = [pc EXCEPT ![r] = AfterCall(route[r], o)]
         /\ user' = [user EXCEPT ![r] = IF Proceeds(route[r], o) THEN @ ELSE NoUser]
         /\ \A q \in Callers : todo'[q] \subseteq todo[q]
         /\ \A q \in Callers \ {r} : todo'[q] = todo[q]
         /\ route[r] = "freeze_all" => todo' = todo
         /\ IF Proceeds(route[r], o)
            THEN AfterCall(route[r], o) = IF route[r] = "freeze_all" THEN "chain" ELSE "log"
            ELSE AfterCall(route[r], o) \in {"error", "pick"}
         /\ Proceeds(route[r], o) /\ route[r] # "freeze_all" =>
              /\ call[<<r, user[r]>>].applied > 0
              /\ call[<<r, user[r]>>].block <=> Blocks(route[r])
         /\ call[<<r, user[r]>>].status # "idle"
         /\ pc'[r] = AfterCall(route[r], o)
         /\ user'[r] = IF Proceeds(route[r], o) THEN user[r] ELSE NoUser
         /\ UNCHANGED <<route, reported, freezeLog, chain, noted, flagged, crashes>>
<1>1. pc[r] = "await" /\ user[r] \in Users
  BY AtUser DEF Return
<1>2. call[<<r, user[r]>>].status = "open"
  BY DEF Return, CloseCall
<1>3. call[<<r, user[r]>>].block <=> Blocks(route[r])
  BY <1>1, <1>2 DEF CallsFollowHandlers, CallAsksForRoute
<1>4. o = "ok" => call[<<r, user[r]>>].applied > 0
  BY DEF Return, CloseCall, MayClose
<1>5. /\ Proceeds(route[r], o) => AfterCall(route[r], o) = FirstStep(route[r])
      /\ ~Proceeds(route[r], o) => AfterCall(route[r], o) \in {"error", "pick"}
  BY DEF AfterCall
<1>6. route[r] = "freeze_all" => AfterCall(route[r], o) # "error"
  BY DEF AfterCall, Proceeds, FirstStep
<1>7. /\ pc' = [pc EXCEPT ![r] = AfterCall(route[r], o)]
      /\ user' = [user EXCEPT ![r] = IF Proceeds(route[r], o) THEN @ ELSE NoUser]
      /\ todo' = [todo EXCEPT ![r] = IF AfterCall(route[r], o) = "error" THEN {} ELSE @]
      /\ UNCHANGED <<route, reported, freezeLog, chain, noted, flagged, crashes>>
  BY DEF Return, storeVars
<1>8. Proceeds(route[r], o) /\ route[r] # "freeze_all" => o = "ok"
  BY DEF Proceeds
<1>9. /\ \A q \in Callers : todo'[q] \subseteq todo[q]
      /\ \A q \in Callers \ {r} : todo'[q] = todo[q]
      /\ route[r] = "freeze_all" => todo' = todo
  BY <1>6, <1>7 DEF TypeOK
<1>10. /\ pc'[r] = AfterCall(route[r], o)
       /\ user'[r] = IF Proceeds(route[r], o) THEN user[r] ELSE NoUser
  BY <1>7 DEF TypeOK
<1> QED BY <1>1, <1>2, <1>3, <1>4, <1>5, <1>7, <1>8, <1>9, <1>10 DEF FirstStep

LEMMA ReportStep ==
  ASSUME TypeOK, NEW r \in Callers, Writes(r)
  PROVE  /\ user[r] \in Users
         /\ reported'[r] = IF NextStep(route[r], pc[r]) = "pick"
                           THEN reported[r] \cup {user[r]} ELSE reported[r]
         /\ \A q \in Callers \ {r} : reported'[q] = reported[q]
<1>1. pc[r] \in Recording /\ StepTaken(r, pc[r])
  BY DEF Writes, Log, Mark, Chain, Clear, StepTaken, Recording
<1>2. \/ /\ NextStep(route[r], pc[r]) = "pick"
         /\ reported' = [reported EXCEPT ![r] = @ \cup {user[r]}]
      \/ NextStep(route[r], pc[r]) # "pick" /\ reported' = reported
  BY <1>1 DEF StepTaken
<1> QED BY <1>1, <1>2, AtUser DEF TypeOK

(* A handler's step leaves the other handlers where they are.              *)
OthersKept(r) ==
  \A q \in Callers \ {r} : /\ pc'[q] = pc[q] /\ user'[q] = user[q]
                           /\ todo'[q] = todo[q] /\ route'[q] = route[q]

LEMMA OthersKeptByArrive ==
  ASSUME TypeOK, NEW r \in Callers, Arrive(r) PROVE OthersKept(r)
BY ArriveStep DEF OthersKept, TypeOK

LEMMA OthersKeptByCall ==
  ASSUME TypeOK, NEW r \in Callers, NEW u \in Users, CallAuth0(r, u) PROVE OthersKept(r)
<1>1. /\ pc' = [pc EXCEPT ![r] = "await"] /\ user' = [user EXCEPT ![r] = u]
      /\ todo' = [todo EXCEPT ![r] = @ \ {u}] /\ route' = route
  BY DEF CallAuth0
<1> QED BY <1>1 DEF OthersKept, TypeOK

LEMMA OthersKeptByReturn ==
  ASSUME TypeOK, CallsFollowHandlers, NEW r \in Callers, NEW o \in Outcomes, Return(r, o)
  PROVE  OthersKept(r)
<1>1. /\ pc' = [pc EXCEPT ![r] = AfterCall(route[r], o)]
      /\ user' = [user EXCEPT ![r] = IF Proceeds(route[r], o) THEN @ ELSE NoUser]
      /\ \A q \in Callers \ {r} : todo'[q] = todo[q]
      /\ route' = route
  BY ReturnStep
<1> QED BY <1>1 DEF OthersKept, TypeOK

LEMMA OthersKeptByWrite ==
  ASSUME TypeOK, NEW r \in Callers, Writes(r) PROVE OthersKept(r)
<1>1. /\ \A q \in Callers \ {r} : pc'[q] = pc[q] /\ user'[q] = user[q]
      /\ UNCHANGED <<route, todo>>
  BY WriteStep
<1> QED BY <1>1 DEF OthersKept

LEMMA CrashStep ==
  ASSUME TypeOK, Crash
  PROVE  /\ \A q \in Callers :
              /\ pc'[q] = IF InProgress(q) THEN "killed" ELSE pc[q]
              /\ pc'[q] \in {"new"} \cup Final
              /\ user'[q] = NoUser /\ todo'[q] = {}
         /\ crashes' = crashes + 1
         /\ UNCHANGED <<route, reported, freezeLog, chain, noted, flagged>>
BY DEF Crash, storeVars, TypeOK, InProgress, Positions, Final, Running

(* The steps that leave the handlers, the log and the flags alone, and the *)
(* ledger, too, or make a note by hand.                                    *)
QuietStep == UNCHANGED <<handlerVars, freezeLog, flagged, crashes>>

QuietOnLedger == UNCHANGED <<chain, noted>> \/ \E v \in Users : LogFreezeNote(v)

(* The steps of the server, as the proofs below split them.                *)
LEMMA StepKinds ==
  ASSUME [Next]_vars
  PROVE  \/ \E r \in Callers : Arrive(r)
         \/ \E r \in Callers, u \in Users : CallAuth0(r, u)
         \/ \E r \in Callers, o \in Outcomes : Return(r, o)
         \/ \E r \in Callers : Log(r) \/ Mark(r) \/ Chain(r) \/ Clear(r)
         \/ \E r \in Callers : Finish(r)
         \/ Crash
         \/ QuietStep /\ QuietOnLedger
<1>1. ASSUME UNCHANGED <<handlerVars, storeVars, crashes>> PROVE QuietStep /\ QuietOnLedger
  BY <1>1 DEF QuietStep, QuietOnLedger, storeVars
<1>2. ASSUME NEW r \in Callers, Send(r) PROVE QuietStep /\ QuietOnLedger
  BY <1>1, <1>2 DEF Send
<1>3. ASSUME NEW c \in Calls, Apply(c) \/ Drop(c) PROVE QuietStep /\ QuietOnLedger
  BY <1>1, <1>3 DEF Apply, Drop
<1>4. ASSUME UNCHANGED vars PROVE QuietStep /\ QuietOnLedger
  BY <1>1, <1>4 DEF vars
<1>5. ASSUME NEW v \in Users, LogFreezeNote(v) PROVE QuietStep /\ QuietOnLedger
  BY <1>5, NoteStep DEF QuietStep, QuietOnLedger
<1> QED
  BY <1>2, <1>3, <1>4, <1>5 DEF Next, Step, Answer, Auth0Acts, AllAnswered

-----------------------------------------------------------------------------
(* The invariant.                                                          *)

Arrived == {r \in Callers : pc[r] # "new"}

FinitelyManyArrived == IsFiniteSet(Arrived)

(* A handler that records has Auth0's confirmation, except in freeze-all,  *)
(* which has made the call; and unfreeze-user writes no note.              *)
RecordsConfirmed ==
  \A r \in Callers : pc[r] \in Recording =>
    /\ call[<<r, user[r]>>].status # "idle"
    /\ route[r] # "freeze_all" => /\ call[<<r, user[r]>>].applied > 0
                                  /\ call[<<r, user[r]>>].block <=> Blocks(route[r])
    /\ pc[r] = "chain" => route[r] # "unfreeze"

(* After the step "log" the entry is in the log.                           *)
PastLog(r) == pc[r] \in {"mark", "clear"} \/ (pc[r] = "chain" /\ route[r] # "freeze_all")

HasEntry(u, action) == \E i \in DOMAIN freezeLog[u] : freezeLog[u][i] = action

LoggedOncePast ==
  \A r \in Callers : PastLog(r) => HasEntry(user[r], ActionOf(route[r]))

(* The handlers that may have written a note for u: their part of u is     *)
(* begun and the step "chain" is not ahead of them any more.               *)
NoteIsAhead(r, u) ==
  \/ pc[r] = "new"
  \/ u \in todo[r]
  \/ user[r] = u /\ \/ pc[r] \in {"await", "chain"}
                    \/ pc[r] \in {"log", "mark"} /\ route[r] # "freeze_all"

Backs(r, u) ==
  \/ call[<<r, u>>].applied > 0 /\ call[<<r, u>>].block
  \/ call[<<r, u>>].status # "idle" /\ route[r] = "freeze_all"

Writers(u) == {r \in Callers : Backs(r, u) /\ ~NoteIsAhead(r, u)}

(* The notes for u that were not asked for by hand.  (A fault may keep one *)
(* that was from the ledger: then there are fewer.)                        *)
Notes(u) == chain[u] - noted[u]

NotesHaveWriters == \A u \in Users : Notes(u) <= Cardinality(Writers(u))

(* How the ledger and the log can differ on u.  A handler owes the note of *)
(* a freeze that it has logged; freeze-all writes the note first, and when *)
(* it is killed then, the entry is never written.                          *)
Owes(r, u)    == user[r] = u /\ pc[r] \in {"mark", "chain"}
                   /\ route[r] \notin {"freeze_all", "unfreeze"}
IsAhead(r, u) == user[r] = u /\ pc[r] = "log" /\ route[r] = "freeze_all"

One(b) == IF b THEN 1 ELSE 0

Debt(u)   == One(\E r \in Callers : Owes(r, u))
Credit(u) == One(\E r \in Callers : IsAhead(r, u))

KilledSweeps == {r \in Callers : route[r] = "freeze_all" /\ pc[r] = "killed"}

Recorded(u) == Cardinality(FreezesLogged(u))

Gap(u) == (Notes(u) + Debt(u)) - (Recorded(u) + Credit(u))

NotesAreLogged == \A u \in Users : Gap(u) <= Cardinality(KilledSweeps)

LoggedHaveNotes ==
  crashes = 0 /\ "ledger" \notin Faults => \A u \in Users : Gap(u) = 0

(* The inductive invariant: its parts, with those of Inductive.            *)
Reports ==
  /\ FinitelyManyArrived
  /\ IdleIsUnapplied
  /\ NewHasNothing
  /\ RecordsConfirmed
  /\ LoggedOncePast
  /\ SuccessMeansApplied
  /\ FlagsBelongToASweep
  /\ NotesHaveWriters
  /\ NotesAreLogged
  /\ LoggedHaveNotes

-----------------------------------------------------------------------------
(* The simple parts.                                                       *)

(* A request that has arrived stays so, and keeps its route.               *)
LEMMA RoutesKeptNext ==
  ASSUME TypeOK, CallsFollowHandlers, [Next]_vars
  PROVE  RoutesKept
<1> USE DEF RoutesKept, TypeOK
<1>1. ASSUME NEW r \in Callers, Arrive(r) PROVE RoutesKept
  BY <1>1, ArriveStep
<1>2. ASSUME NEW r \in Callers, NEW u \in Users, CallAuth0(r, u) PROVE RoutesKept
  BY <1>2, CallStep
<1>3. ASSUME NEW r \in Callers, NEW o \in Outcomes, Return(r, o) PROVE RoutesKept
  <2>1. AfterCall(route[r], o) # "new"
    BY DEF AfterCall, FirstStep
  <2> QED BY <1>3, <2>1, ReturnStep
<1>4. ASSUME NEW r \in Callers, Writes(r) PROVE RoutesKept
  BY <1>4, WriteStep DEF Recording
<1>5. ASSUME NEW r \in Callers, Finish(r) PROVE RoutesKept
  BY <1>5 DEF Finish
<1>6. ASSUME Crash PROVE RoutesKept
  BY <1>6, CrashStep
<1>7. ASSUME QuietStep PROVE RoutesKept
  BY <1>7 DEF QuietStep, handlerVars
<1> QED BY StepKinds, <1>1, <1>2, <1>3, <1>4, <1>5, <1>6, <1>7 DEF Writes

(* One request arrives at a time.                                          *)
LEMMA ArrivedNext ==
  ASSUME TypeOK, CallsFollowHandlers, FinitelyManyArrived, [Next]_vars
  PROVE  FinitelyManyArrived'
<1> USE DEF TypeOK
<1>1. SUFFICES \E r : Arrived' \subseteq Arrived \cup {r}
  <2>1. PICK r : Arrived' \subseteq Arrived \cup {r}
    BY <1>1
  <2>2. IsFiniteSet(Arrived \cup {r})
    BY FS_AddElement DEF FinitelyManyArrived
  <2>3. IsFiniteSet(Arrived')
    BY <2>1, <2>2, FS_Subset
  <2> QED BY <2>3 DEF FinitelyManyArrived
<1> USE DEF Arrived
<1>2. ASSUME NEW r \in Callers, Arrive(r) PROVE Arrived' \subseteq Arrived \cup {r}
  BY <1>2, ArriveStep
<1>3. ASSUME NEW r \in Callers, NEW u \in Users, CallAuth0(r, u)
      PROVE  Arrived' \subseteq Arrived \cup {r}
  BY <1>3, CallStep
<1>4. ASSUME NEW r \in Callers, NEW o \in Outcomes, Return(r, o)
      PROVE  Arrived' \subseteq Arrived \cup {r}
  BY <1>4, ReturnStep
<1>5. ASSUME NEW r \in Callers, Writes(r) PROVE Arrived' \subseteq Arrived \cup {r}
  BY <1>5, WriteStep
<1>6. ASSUME NEW r \in Callers, Finish(r) PROVE Arrived' \subseteq Arrived \cup {r}
  BY <1>6 DEF Finish
<1>7. ASSUME Crash PROVE Arrived' \subseteq Arrived
  BY <1>7, CrashStep DEF InProgress, Running, Recording
<1>8. ASSUME QuietStep PROVE Arrived' \subseteq Arrived
  BY <1>8 DEF QuietStep, handlerVars
<1> QED BY StepKinds, <1>2, <1>3, <1>4, <1>5, <1>6, <1>7, <1>8 DEF Writes

(* A handler has a route and reports only after it has started.            *)
LEMMA NewNext ==
  ASSUME TypeOK, CallsFollowHandlers, NewHasNothing, [Next]_vars
  PROVE  NewHasNothing'
<1> USE DEF NewHasNothing, TypeOK
<1>1. ASSUME NEW r \in Callers, Arrive(r) PROVE NewHasNothing'
  BY <1>1, ArriveStep
<1>2. ASSUME NEW r \in Callers, NEW u \in Users, CallAuth0(r, u) PROVE NewHasNothing'
  BY ZenonT(30), <1>2, CallStep
<1>3. ASSUME NEW r \in Callers, NEW o \in Outcomes, Return(r, o) PROVE NewHasNothing'
  <2>1. AfterCall(route[r], o) # "new"
    BY DEF AfterCall, FirstStep
  <2> QED BY ZenonT(30), <1>3, <2>1, ReturnStep
<1>4. ASSUME NEW r \in Callers, Writes(r) PROVE NewHasNothing'
  <2>1. /\ pc[r] # "new" /\ pc'[r] # "new" /\ route' = route
        /\ \A q \in Callers \ {r} : pc'[q] = pc[q]
    BY <1>4, WriteStep DEF Recording
  <2>2. \A q \in Callers \ {r} : reported'[q] = reported[q]
    BY <1>4, ReportStep
  <2> QED BY <2>1, <2>2
<1>5. ASSUME NEW r \in Callers, Finish(r) PROVE NewHasNothing'
  BY <1>5 DEF Finish
<1>6. ASSUME Crash PROVE NewHasNothing'
  BY <1>6, CrashStep
<1>7. ASSUME QuietStep PROVE NewHasNothing'
  BY <1>7 DEF QuietStep, handlerVars
<1> QED BY StepKinds, <1>1, <1>2, <1>3, <1>4, <1>5, <1>6, <1>7 DEF Writes

(* What a handler needs to know when it starts to record, it got from the  *)
(* answer of its call; calls only grow afterwards.                         *)
LEMMA RecordsConfirmedNext ==
  ASSUME TypeOK, CallsFollowHandlers, IdleIsUnapplied, RecordsConfirmed, [Next]_vars
  PROVE  RecordsConfirmed'
<1> USE DEF TypeOK
<1>0. CallsGrow
  BY CallsGrowNext
<1> DEFINE Confirmed(r) ==
      pc[r] \in Recording =>
        /\ call[<<r, user[r]>>].status # "idle"
        /\ route[r] # "freeze_all" => /\ call[<<r, user[r]>>].applied > 0
                                      /\ call[<<r, user[r]>>].block <=> Blocks(route[r])
        /\ pc[r] = "chain" => route[r] # "unfreeze"
<1> DEFINE Frame(r) ==
      pc'[r] \in Recording => /\ pc[r] \in Recording
                              /\ user'[r] = user[r] /\ route'[r] = route[r]
                              /\ pc'[r] = "chain" => route[r] # "unfreeze"
<1>1. ASSUME NEW r \in Callers, Frame(r) PROVE Confirmed(r)'
  <2>1. SUFFICES ASSUME pc'[r] \in Recording PROVE Confirmed(r)'
    OBVIOUS
  <2>2. user[r] \in Users
    BY <1>1, <2>1, AtUser
  <2>3. /\ call[<<r, user[r]>>].status # "idle"
        /\ route[r] # "freeze_all" => /\ call[<<r, user[r]>>].applied > 0
                                      /\ call[<<r, user[r]>>].block <=> Blocks(route[r])
    BY <1>1, <2>1 DEF RecordsConfirmed
  <2>4. /\ call'[<<r, user[r]>>].status # "idle"
        /\ call'[<<r, user[r]>>].block = call[<<r, user[r]>>].block
        /\ call'[<<r, user[r]>>].applied >= call[<<r, user[r]>>].applied
    BY <1>0, <2>2, <2>3 DEF CallsGrow
  <2>5. call[<<r, user[r]>>].applied \in Nat /\ call'[<<r, user[r]>>].applied \in Nat
    <3>1. TypeOK'
      BY TypeNext
    <3>2. <<r, user[r]>> \in Calls
      BY <2>2 DEF Calls
    <3>3. /\ call[<<r, user[r]>>].applied \in 0 .. Attempts
          /\ call'[<<r, user[r]>>].applied \in 0 .. Attempts
      BY <3>1, <3>2 DEF TypeOK, CallTypeOK, CallRecord
    <3> QED BY <3>3
  <2>6. /\ user'[r] = user[r] /\ route'[r] = route[r]
        /\ pc'[r] = "chain" => route[r] # "unfreeze"
    BY <1>1, <2>1
  <2>7. call[<<r, user[r]>>].applied > 0 => call'[<<r, user[r]>>].applied > 0
    BY <2>4, <2>5
  <2> HIDE DEF Frame
  <2> QED BY <2>3, <2>4, <2>6, <2>7 DEF Blocks
<1>2. ASSUME NEW q \in Callers, pc[q] \in Recording PROVE pc[q] = "chain" => route[q] # "unfreeze"
  BY <1>2 DEF RecordsConfirmed
<1>a. ASSUME NEW q \in Callers, pc'[q] = pc[q], user'[q] = user[q], route'[q] = route[q]
      PROVE  Frame(q)
  BY <1>2, <1>a
<1> HIDE DEF Confirmed
<1>3. ASSUME NEW r \in Callers, Arrive(r), NEW q \in Callers PROVE Confirmed(q)'
  <2>1. Frame(q)
    BY <1>2, <1>3, ArriveStep DEF Recording
  <2> QED BY <1>1, <2>1
<1>4. ASSUME NEW r \in Callers, NEW u \in Users, CallAuth0(r, u), NEW q \in Callers
      PROVE  Confirmed(q)'
  <2>1. Frame(q)
    BY <1>2, <1>4, CallStep DEF Recording
  <2> QED BY <1>1, <2>1
<1>5. ASSUME NEW r \in Callers, NEW o \in Outcomes, Return(r, o), NEW q \in Callers
      PROVE  Confirmed(q)'
  <2>1. CASE q # r
    <3>1. Frame(q)
      BY ZenonT(30), <1>a, <1>5, <2>1, ReturnStep
    <3> QED BY <1>1, <3>1
  <2>2. CASE q = r /\ ~Proceeds(route[r], o)
    <3>1. pc'[q] \notin Recording
      BY <1>5, <2>2, ReturnStep DEF Recording
    <3> QED BY <1>1, <3>1
  <2>3. CASE q = r /\ Proceeds(route[r], o)
    <3>1. pc'[r] = IF route[r] = "freeze_all" THEN "chain" ELSE "log"
      BY <1>5, <2>3, ReturnStep
    <3>2. user'[r] = user[r] /\ route'[r] = route[r]
      BY <1>5, <2>3, ReturnStep
    <3>3. <<r, user[r]>> \in Calls
      BY <1>5, AtUser DEF Return
    <3>4. /\ call'[<<r, user[r]>>].status = o
          /\ call'[<<r, user[r]>>].applied = call[<<r, user[r]>>].applied
          /\ call'[<<r, user[r]>>].block = call[<<r, user[r]>>].block
      BY <1>5, <3>3 DEF Return, CloseCall, CallTypeOK, CallRecord, Outcomes
    <3>5. route[r] # "freeze_all" => /\ call[<<r, user[r]>>].applied > 0
                                     /\ call[<<r, user[r]>>].block <=> Blocks(route[r])
      BY <1>5, <2>3, ReturnStep
    <3> QED BY <2>3, <3>1, <3>2, <3>4, <3>5 DEF Outcomes, Confirmed
  <2> QED BY <2>1, <2>2, <2>3
<1>6. ASSUME NEW r \in Callers, Writes(r), NEW q \in Callers PROVE Confirmed(q)'
  <2>1. /\ pc[r] \in Recording /\ pc'[r] = NextStep(route[r], pc[r])
        /\ route' = route
        /\ NextStep(route[r], pc[r]) # "pick" => user'[r] = user[r]
    BY <1>6, WriteStep
  <2>2. NextStep(route[r], pc[r]) = "chain" => route[r] # "unfreeze"
    BY <2>1 DEF NextStep, Recording
  <2>3. CASE q = r
    <3>1. Frame(q)
      BY <2>1, <2>2, <2>3 DEF Recording
    <3> QED BY <1>1, <3>1
  <2>4. CASE q # r
    <3>1. Frame(q)
      BY <1>a, <1>6, <2>1, <2>4, WriteStep
    <3> QED BY <1>1, <3>1
  <2> QED BY <2>3, <2>4
<1>7. ASSUME NEW r \in Callers, Finish(r), NEW q \in Callers PROVE Confirmed(q)'
  <2>1. Frame(q)
    BY <1>2, <1>7 DEF Finish, Recording
  <2> QED BY <1>1, <2>1
<1>8. ASSUME Crash, NEW q \in Callers PROVE Confirmed(q)'
  <2>1. Frame(q)
    BY <1>8, CrashStep DEF Recording, Final
  <2> QED BY <1>1, <2>1
<1>9. ASSUME QuietStep, NEW q \in Callers PROVE Confirmed(q)'
  <2>1. Frame(q)
    BY <1>a, <1>9 DEF QuietStep, handlerVars
  <2> QED BY <1>1, <2>1
<1>10. ASSUME NEW q \in Callers PROVE Confirmed(q)'
  BY StepKinds, <1>3, <1>4, <1>5, <1>6, <1>7, <1>8, <1>9 DEF Writes
<1> QED BY <1>10 DEF RecordsConfirmed, Confirmed

-----------------------------------------------------------------------------
(* What is reported is true.                                               *)

EntriesKept ==
  \A u \in Users, action \in {"freeze", "unfreeze"} :
    HasEntry(u, action) => HasEntry(u, action)'

(* The log is appended to by the step "log" and by nothing else.           *)
LEMMA OnlyLogAppends ==
  ASSUME TypeOK, CallsFollowHandlers, [Next]_vars
  PROVE  (\E r \in Callers : Log(r)) \/ UNCHANGED freezeLog
<1>1. ASSUME NEW r \in Callers, Arrive(r) PROVE UNCHANGED freezeLog
  BY <1>1, ArriveStep
<1>2. ASSUME NEW r \in Callers, NEW u \in Users, CallAuth0(r, u) PROVE UNCHANGED freezeLog
  BY <1>2, CallStep
<1>3. ASSUME NEW r \in Callers, NEW o \in Outcomes, Return(r, o) PROVE UNCHANGED freezeLog
  BY <1>3, ReturnStep
<1>4. ASSUME NEW r \in Callers, Mark(r) \/ Chain(r) \/ Clear(r) PROVE UNCHANGED freezeLog
  BY <1>4 DEF Mark, Chain, Clear
<1>5. ASSUME NEW r \in Callers, Finish(r) PROVE UNCHANGED freezeLog
  BY <1>5 DEF Finish, storeVars
<1>6. ASSUME Crash PROVE UNCHANGED freezeLog
  BY <1>6, CrashStep
<1>7. ASSUME QuietStep PROVE UNCHANGED freezeLog
  BY <1>7 DEF QuietStep
<1> QED BY StepKinds, <1>1, <1>2, <1>3, <1>4, <1>5, <1>6, <1>7

(* Appending keeps the entries and adds one.                               *)
LEMMA EntryAppended ==
  ASSUME TypeOK, NEW r \in Callers, Log(r)
  PROVE  EntriesKept /\ HasEntry(user[r], ActionOf(route[r]))'
<1>1. user[r] \in Users
  BY AtUser DEF Log, StepTaken, Recording
<1>2. ActionOf(route[r]) \in {"freeze", "unfreeze"} /\ route' = route
  BY DEF ActionOf, Log, StepTaken
<1>3. /\ freezeLog'[user[r]] = Append(freezeLog[user[r]], ActionOf(route[r]))
      /\ \A u \in Users \ {user[r]} : freezeLog'[u] = freezeLog[u]
      /\ freezeLog[user[r]] \in Seq({"freeze", "unfreeze"})
  BY <1>1 DEF Log, TypeOK
<1> DEFINE s == freezeLog[user[r]]
           a == ActionOf(route[r])
<1>4. ASSUME NEW t \in Seq({"freeze", "unfreeze"}), NEW b \in {"freeze", "unfreeze"}
      PROVE  /\ Append(t, b)[Len(t) + 1] = b /\ Len(t) + 1 \in DOMAIN Append(t, b)
             /\ \A i \in DOMAIN t : i \in DOMAIN Append(t, b) /\ Append(t, b)[i] = t[i]
  OBVIOUS
<1>5. ASSUME NEW u \in Users, NEW action, HasEntry(u, action) PROVE HasEntry(u, action)'
  <2>1. CASE u = user[r]
    <3>1. PICK i \in DOMAIN s : s[i] = action
      BY <1>5, <2>1 DEF HasEntry
    <3>2. i \in DOMAIN freezeLog'[u] /\ freezeLog'[u][i] = action
      BY <1>2, <1>3, <1>4, <2>1, <3>1
    <3> QED BY <3>2 DEF HasEntry
  <2>2. CASE u # user[r]
    BY <1>3, <1>5, <2>2 DEF HasEntry
  <2> QED BY <2>1, <2>2
<1>6. \E i \in DOMAIN freezeLog'[user[r]] : freezeLog'[user[r]][i] = a
  <2> HIDE DEF a, s
  <2> QED BY <1>2, <1>3, <1>4 DEF a, s
<1>7. HasEntry(user[r], ActionOf(route[r]))'
       <=> \E i \in DOMAIN freezeLog'[user'[r]] : freezeLog'[user'[r]][i] = ActionOf(route'[r])
  BY DEF HasEntry
<1>8. user'[r] = user[r]
  BY DEF Log, StepTaken, NextStep
<1>9. HasEntry(user[r], ActionOf(route[r]))'
  BY <1>2, <1>6, <1>7, <1>8
<1> QED BY <1>5, <1>9 DEF EntriesKept

(* The entries are kept by every step.                                     *)
LEMMA EntriesKeptNext ==
  ASSUME TypeOK, CallsFollowHandlers, [Next]_vars
  PROVE  EntriesKept
<1>1. CASE UNCHANGED freezeLog
  BY <1>1 DEF EntriesKept, HasEntry
<1> QED BY <1>1, OnlyLogAppends, EntryAppended

LEMMA ActionsAreActions == \A k : ActionOf(k) \in {"freeze", "unfreeze"}
BY DEF ActionOf

(* A handler that is past the step "log" has its entry in the log.         *)
LEMMA LoggedOncePastNext ==
  ASSUME TypeOK, CallsFollowHandlers, LoggedOncePast, [Next]_vars
  PROVE  LoggedOncePast'
<1> USE DEF TypeOK
<1>0. EntriesKept
  BY EntriesKeptNext
<1> DEFINE Has(r)   == PastLog(r) => HasEntry(user[r], ActionOf(route[r]))
           Frame(r) == PastLog(r)' => PastLog(r) /\ user'[r] = user[r] /\ route'[r] = route[r]
<1>1. ASSUME NEW q \in Callers, Frame(q) PROVE Has(q)'
  <2>1. SUFFICES ASSUME PastLog(q)' PROVE HasEntry(user[q], ActionOf(route[q]))'
    OBVIOUS
  <2>2. PastLog(q) /\ user'[q] = user[q] /\ route'[q] = route[q]
    BY <1>1, <2>1
  <2>3. user[q] \in Users
    BY <2>2, AtUser DEF PastLog, Recording
  <2>4. HasEntry(user[q], ActionOf(route[q]))
    BY <2>2 DEF LoggedOncePast
  <2>5. \E i \in DOMAIN freezeLog'[user[q]] : freezeLog'[user[q]][i] = ActionOf(route[q])
    BY <1>0, <2>3, <2>4, ActionsAreActions DEF EntriesKept, HasEntry
  <2> QED BY <2>2, <2>5 DEF HasEntry
<1> HIDE DEF Has
<1>2. ASSUME NEW q \in Callers, pc'[q] = pc[q], user'[q] = user[q], route'[q] = route[q]
      PROVE  Frame(q)
  BY <1>2 DEF PastLog
<1>3. ASSUME NEW r \in Callers, Arrive(r), NEW q \in Callers PROVE Frame(q)
  BY <1>3, ArriveStep DEF PastLog
<1>4. ASSUME NEW r \in Callers, NEW u \in Users, CallAuth0(r, u), NEW q \in Callers
      PROVE  Frame(q)
  BY <1>4, CallStep DEF PastLog
<1>5. ASSUME NEW r \in Callers, NEW o \in Outcomes, Return(r, o), NEW q \in Callers
      PROVE  Frame(q)
  <2>1. CASE q # r
    <3>1. pc'[q] = pc[q] /\ user'[q] = user[q] /\ route'[q] = route[q]
      BY <1>5, <2>1, OthersKeptByReturn DEF OthersKept
    <3> QED BY <1>2, <3>1
  <2>2. CASE q = r
    <3>1. ~PastLog(r)'
      BY <1>5, ReturnStep DEF PastLog
    <3> QED BY <2>2, <3>1
  <2> QED BY <2>1, <2>2
<1>6. ASSUME NEW r \in Callers, Writes(r), NEW q \in Callers PROVE Has(q)'
  <2>1. /\ pc[r] \in Recording /\ pc'[r] = NextStep(route[r], pc[r])
        /\ route' = route
        /\ NextStep(route[r], pc[r]) # "pick" => user'[r] = user[r]
    BY <1>6, WriteStep
  <2>2. CASE q # r
    <3>1. Frame(q)
      BY <1>2, <1>6, <2>1, <2>2, WriteStep
    <3> QED BY <1>1, <3>1
  <2>3. CASE q = r /\ pc[r] # "log"
    <3>1. PastLog(r)' => PastLog(r)
      BY <2>1, <2>3 DEF PastLog, NextStep, Recording
    <3>2. Frame(q)
      BY <2>1, <2>3, <3>1 DEF PastLog
    <3> QED BY <1>1, <3>2
  <2>4. CASE q = r /\ pc[r] = "log"
    <3>1. Log(r)
      BY <1>6, <2>4 DEF Writes, Mark, Chain, Clear, StepTaken
    <3> QED BY <2>4, <3>1, EntryAppended DEF Has
  <2> QED BY <2>2, <2>3, <2>4
<1>7. ASSUME NEW r \in Callers, Finish(r), NEW q \in Callers PROVE Frame(q)
  BY <1>7 DEF Finish, PastLog
<1>8. ASSUME Crash, NEW q \in Callers PROVE Frame(q)
  BY <1>8, CrashStep DEF PastLog, Final
<1>9. ASSUME QuietStep, NEW q \in Callers PROVE Frame(q)
  BY <1>2, <1>9 DEF QuietStep, handlerVars
<1>10. ASSUME NEW q \in Callers PROVE Has(q)'
  BY StepKinds, <1>1, <1>3, <1>4, <1>5, <1>6, <1>7, <1>8, <1>9 DEF Writes
<1> QED BY <1>10 DEF LoggedOncePast, Has

(* A user is reported by the last write of a handler, which has the        *)
(* confirmation and the entry; both outlast it.                            *)
LEMMA SuccessMeansAppliedNext ==
  ASSUME TypeOK, CallsFollowHandlers, IdleIsUnapplied, NewHasNothing, RecordsConfirmed,
         LoggedOncePast, SuccessMeansApplied, [Next]_vars
  PROVE  SuccessMeansApplied'
<1> USE DEF TypeOK
<1>0. CallsGrow /\ EntriesKept /\ RoutesKept /\ TypeOK'
  BY CallsGrowNext, EntriesKeptNext, RoutesKeptNext, TypeNext
<1> DEFINE True(r, u) ==
      /\ route[r] # "freeze_all" => call[<<r, u>>].applied > 0
      /\ HasEntry(u, ActionOf(route[r]))
<1>1. ASSUME NEW r \in Callers, NEW u \in Users, True(r, u), pc[r] # "new"
      PROVE  True(r, u)'
  <2>1. <<r, u>> \in Calls
    BY DEF Calls
  <2>2. call[<<r, u>>].applied \in Nat /\ call'[<<r, u>>].applied \in Nat
    <3>1. /\ call[<<r, u>>].applied \in 0 .. Attempts
          /\ call'[<<r, u>>].applied \in 0 .. Attempts
      BY <1>0, <2>1 DEF CallTypeOK, CallRecord
    <3> QED BY <3>1
  <2>3. route'[r] = route[r]
    BY <1>0, <1>1 DEF RoutesKept
  <2>4. call[<<r, u>>].applied > 0 => call'[<<r, u>>].applied > 0
    <3>1. call[<<r, u>>].applied > 0 => call[<<r, u>>].status # "idle"
      BY <2>2 DEF IdleIsUnapplied
    <3> QED BY <1>0, <2>2, <3>1 DEF CallsGrow
  <2>5. HasEntry(u, ActionOf(route[r]))'
    <3>1. \E i \in DOMAIN freezeLog'[u] : freezeLog'[u][i] = ActionOf(route[r])
      BY <1>0, <1>1, ActionsAreActions DEF EntriesKept, HasEntry
    <3> QED BY <2>3, <3>1 DEF HasEntry
  <2> QED BY <1>1, <2>3, <2>4, <2>5
<1>2. \A r \in Callers : \A u \in reported[r] : True(r, u) /\ pc[r] # "new" /\ u \in Users
  BY DEF SuccessMeansApplied, HasEntry, NewHasNothing
<1>3. ASSUME NEW r \in Callers, Writes(r), NextStep(route[r], pc[r]) = "pick"
      PROVE  True(r, user[r]) /\ pc[r] # "new" /\ user[r] \in Users
  <2>1. pc[r] \in Recording /\ user[r] \in Users
    BY <1>3, WriteStep, ReportStep
  <2>2. PastLog(r)
    BY <1>3, <2>1 DEF NextStep, PastLog, Recording
  <2>3. HasEntry(user[r], ActionOf(route[r]))
    BY <2>2 DEF LoggedOncePast
  <2> QED BY <2>1, <2>3 DEF RecordsConfirmed, Recording
<1>4. \A r \in Callers : \A u \in reported'[r] :
        u \in reported[r] \/ (Writes(r) /\ NextStep(route[r], pc[r]) = "pick" /\ u = user[r])
  <2> DEFINE Unreported == \A q \in Callers : reported'[q] = reported[q]
  <2>1. ASSUME NEW r \in Callers, Arrive(r) PROVE Unreported
    BY <2>1, ArriveStep
  <2>2. ASSUME NEW r \in Callers, NEW u \in Users, CallAuth0(r, u) PROVE Unreported
    BY <2>2, CallStep
  <2>3. ASSUME NEW r \in Callers, NEW o \in Outcomes, Return(r, o) PROVE Unreported
    BY <2>3, ReturnStep
  <2>4. ASSUME NEW r \in Callers, Writes(r)
        PROVE  /\ \A q \in Callers \ {r} : reported'[q] = reported[q]
               /\ \A u \in reported'[r] :
                    u \in reported[r] \/ (NextStep(route[r], pc[r]) = "pick" /\ u = user[r])
    BY ZenonT(30), <2>4, ReportStep
  <2>5. ASSUME NEW r \in Callers, Finish(r) PROVE Unreported
    BY <2>5 DEF Finish
  <2>6. ASSUME Crash PROVE Unreported
    BY <2>6, CrashStep
  <2>7. ASSUME QuietStep PROVE Unreported
    BY <2>7 DEF QuietStep, handlerVars
  <2> QED BY StepKinds, <2>1, <2>2, <2>3, <2>4, <2>5, <2>6, <2>7 DEF Writes
<1> HIDE DEF True, TypeOK
<1>5. ASSUME NEW r \in Callers, NEW u \in reported'[r] PROVE True(r, u)'
  <2>1. CASE u \in reported[r]
    <3>1. True(r, u) /\ pc[r] # "new" /\ u \in Users
      BY <1>2, <2>1
    <3> QED BY <1>1, <3>1
  <2>2. CASE Writes(r) /\ NextStep(route[r], pc[r]) = "pick" /\ u = user[r]
    <3>1. True(r, u) /\ pc[r] # "new" /\ u \in Users
      BY <1>3, <2>2
    <3> QED BY <1>1, <3>1
  <2> QED BY <1>4, <1>5, <2>1, <2>2
<1> QED BY <1>5 DEF SuccessMeansApplied, True, HasEntry

-----------------------------------------------------------------------------
(* A flag belongs to a sweep.                                              *)

(* A sweep holds a user from its arrival to the step "clear", the last one *)
(* of freeze-all; it never skips a user, whatever its call returned.       *)
LEMMA FlagsBelongToASweepNext ==
  ASSUME TypeOK, CallsFollowHandlers, NewHasNothing, FlagsBelongToASweep, [Next]_vars
  PROVE  FlagsBelongToASweep'
<1> USE DEF TypeOK
<1>0. RoutesKept
  BY RoutesKeptNext
<1> DEFINE Holds(r, u) == route[r] = "freeze_all" /\ (u \in todo[r] \/ user[r] = u)
           Held(u) == \E r \in Callers : Holds(r, u)
<1>1. SUFFICES ASSUME crashes' = 0, "graph" \notin Faults,
                      \A r \in Callers : route'[r] # "check_clusters",
                      NEW u \in flagged'
               PROVE  Held(u)'
  BY DEF FlagsBelongToASweep
<1>2. \A r \in Callers : route[r] # "check_clusters"
  BY <1>0, <1>1 DEF RoutesKept, NewHasNothing
<1>3. crashes = 0 => \A v \in flagged : Held(v)
  BY <1>1, <1>2 DEF FlagsBelongToASweep
<1>4. ASSUME NEW r \in Callers, Arrive(r) PROVE Held(u)'
  <2>1. PICK k \in ManualRoutes \cup SweepRoutes, S \in SUBSET Users : \E F \in SUBSET S :
           /\ pc[r] = "new" /\ pc' = [pc EXCEPT ![r] = "pick"]
           /\ route' = [route EXCEPT ![r] = k]
           /\ todo' = [todo EXCEPT ![r] = S]
           /\ flagged' = flagged \cup F
           /\ F # {} => k \in SweepRoutes
           /\ UNCHANGED <<call, user, reported, freezeLog, chain, noted, crashes>>
    BY <1>4, ArriveStep
  <2>2. PICK F \in SUBSET S : flagged' = flagged \cup F /\ (F # {} => k \in SweepRoutes)
    BY <2>1
  <2>3. route[r] = "none"
    BY <2>1 DEF NewHasNothing
  <2>4. CASE u \in flagged
    <3>1. PICK q \in Callers : Holds(q, u)
      BY <1>1, <1>3, <2>1, <2>4
    <3>2. q # r
      BY <2>3, <3>1
    <3>3. Holds(q, u)'
      BY <2>1, <3>1, <3>2
    <3> QED BY <3>3
  <2>5. CASE u \in F
    <3>1. k \in SweepRoutes /\ route'[r] = k /\ todo'[r] = S
      BY <2>1, <2>2, <2>5
    <3>2. Holds(r, u)'
      BY <1>1, <2>5, <3>1 DEF SweepRoutes
    <3> QED BY <3>2
  <2> QED BY <2>2, <2>4, <2>5
<1>5. ASSUME NEW r \in Callers, NEW v \in Users, CallAuth0(r, v) PROVE Held(u)'
  <2>1. PICK q \in Callers : Holds(q, u)
    BY <1>1, <1>3, <1>5, CallStep
  <2>2. pc[r] = "pick" /\ user[r] = NoUser /\ u # NoUser
    BY <1>1, <1>5, NoUserAssumption, CallStep DEF Recording
  <2>3. route' = route /\ user'[r] = v /\ todo'[r] = todo[r] \ {v}
    BY <1>5, CallStep
  <2>4. OthersKept(r)
    BY <1>5, OthersKeptByCall
  <2>5. Holds(q, u)'
    BY <2>1, <2>2, <2>3, <2>4 DEF OthersKept
  <2> QED BY <2>5
<1>6. ASSUME NEW r \in Callers, NEW o \in Outcomes, Return(r, o) PROVE Held(u)'
  <2>1. PICK q \in Callers : Holds(q, u)
    BY <1>1, <1>3, <1>6, ReturnStep
  <2>2. route' = route
    BY <1>6, ReturnStep
  <2>3. user'[q] = user[q] /\ todo'[q] = todo[q]
    <3>1. CASE q # r
      BY <1>6, <3>1, OthersKeptByReturn DEF OthersKept
    <3>2. CASE q = r
      <4>1. Proceeds(route[r], o) /\ route[r] = "freeze_all"
        BY <2>1, <3>2 DEF Proceeds
      <4> QED BY <1>6, <3>2, <4>1, ReturnStep
    <3> QED BY <3>1, <3>2
  <2>4. Holds(q, u)'
    BY <2>1, <2>2, <2>3
  <2> QED BY <2>4
<1>7. ASSUME NEW r \in Callers, Writes(r) PROVE Held(u)'
  <2>1. /\ route' = route /\ todo' = todo /\ crashes' = crashes
        /\ \A q \in Callers \ {r} : user'[q] = user[q]
        /\ NextStep(route[r], pc[r]) # "pick" => user'[r] = user[r]
        /\ pc[r] \in Recording
    BY <1>7, WriteStep
  <2>2. flagged' \subseteq flagged /\ (pc[r] = "clear" => flagged' = flagged \ {user[r]})
    BY <1>1, <1>7 DEF Writes, Log, Mark, Chain, Clear, StepTaken
  <2>3. PICK q \in Callers : Holds(q, u)
    BY <1>1, <1>3, <2>1, <2>2
  <2>4. u \in todo[q] \/ user'[q] = u
    <3>1. CASE q # r
      BY <2>1, <2>3, <3>1
    <3>2. CASE q = r /\ pc[r] = "clear"
      BY <2>2, <2>3, <3>2
    <3>3. CASE q = r /\ pc[r] # "clear"
      <4>1. NextStep(route[r], pc[r]) # "pick"
        BY <2>1, <2>3, <3>3 DEF NextStep, Recording
      <4> QED BY <2>1, <2>3, <3>3, <4>1
    <3> QED BY <3>1, <3>2, <3>3
  <2>5. Holds(q, u)'
    BY <2>1, <2>3, <2>4
  <2> QED BY <2>5
<1>8. ASSUME NEW r \in Callers, Finish(r) PROVE Held(u)'
  <2>1. UNCHANGED <<flagged, crashes, route, todo, user>>
    BY <1>8 DEF Finish, storeVars
  <2> QED BY <1>1, <1>3, <2>1
<1>9. ASSUME Crash PROVE FALSE
  BY <1>1, <1>9, CrashStep
<1>10. ASSUME QuietStep PROVE Held(u)'
  BY <1>1, <1>3, <1>10 DEF QuietStep, handlerVars
<1> QED BY StepKinds, <1>4, <1>5, <1>6, <1>7, <1>8, <1>9, <1>10 DEF Writes

-----------------------------------------------------------------------------
(* The notes and the calls.                                                *)

(* A handler that may have written its note stays one.                     *)
LEMMA WritersGrow ==
  ASSUME TypeOK, CallsFollowHandlers, IdleIsUnapplied, [Next]_vars, NEW u \in Users
  PROVE  Writers(u) \subseteq Writers(u)'
<1> USE DEF TypeOK
<1>0. CallsGrow /\ RoutesKept /\ TypeOK'
  BY CallsGrowNext, RoutesKeptNext, TypeNext
<1>1. SUFFICES ASSUME NEW r \in Callers, Backs(r, u), ~NoteIsAhead(r, u)
               PROVE  Backs(r, u)' /\ ~NoteIsAhead(r, u)'
  BY DEF Writers
<1>2. pc[r] # "new" /\ route'[r] = route[r] /\ pc'[r] # "new" /\ u # NoUser
  BY <1>0, <1>1, NoUserAssumption DEF NoteIsAhead, RoutesKept
<1>3. Backs(r, u)'
  <2>1. <<r, u>> \in Calls
    BY DEF Calls
  <2>2. call[<<r, u>>].applied \in Nat /\ call'[<<r, u>>].applied \in Nat
    <3>1. /\ call[<<r, u>>].applied \in 0 .. Attempts
          /\ call'[<<r, u>>].applied \in 0 .. Attempts
      BY <1>0, <2>1 DEF CallTypeOK, CallRecord
    <3> QED BY <3>1
  <2>3. call[<<r, u>>].status # "idle"
    BY <1>1, <2>2 DEF Backs, IdleIsUnapplied
  <2> QED BY <1>0, <1>1, <1>2, <2>2, <2>3 DEF Backs, CallsGrow
<1>4. ~NoteIsAhead(r, u)'
  <2>1. u \notin todo[r]
    BY <1>1 DEF NoteIsAhead
  <2> DEFINE Frame == u \notin todo'[r] /\ user'[r] \in {user[r], NoUser}
                        /\ (user'[r] = u => pc'[r] = pc[r])
  <2>2. ASSUME Frame PROVE ~NoteIsAhead(r, u)'
    BY <1>1, <1>2, <2>1, <2>2 DEF NoteIsAhead
  <2>3. ASSUME NEW q \in Callers, Arrive(q) PROVE Frame
    BY <1>2, <2>1, <2>3, ArriveStep
  <2>4. ASSUME NEW q \in Callers, NEW v \in Users, CallAuth0(q, v) PROVE ~NoteIsAhead(r, u)'
    <3>1. CASE q = r
      <4>1. v # u
        BY <2>1, <2>4, <3>1, CallStep
      <4>2. user'[r] = v /\ todo'[r] = todo[r] \ {v}
        BY <2>4, <3>1, CallStep
      <4> QED BY <1>2, <2>1, <4>1, <4>2 DEF NoteIsAhead
    <3>2. CASE q # r
      <4>1. Frame
        BY <2>1, <2>4, <3>2, OthersKeptByCall DEF OthersKept
      <4> QED BY <2>2, <4>1
    <3> QED BY <3>1, <3>2
  <2>5. ASSUME NEW q \in Callers, NEW o \in Outcomes, Return(q, o) PROVE Frame
    <3>1. CASE q = r
      <4>1. user[r] # u
        BY <1>1, <2>5, <3>1, ReturnStep DEF NoteIsAhead
      <4>2. user'[r] \in {user[r], NoUser} /\ u \notin todo'[r]
        BY <2>1, <2>5, <3>1, ReturnStep
      <4> QED BY <1>2, <4>1, <4>2
    <3>2. CASE q # r
      <4>1. pc'[r] = pc[r] /\ user'[r] = user[r] /\ todo'[r] = todo[r]
        BY <2>5, <3>2, OthersKeptByReturn DEF OthersKept
      <4> QED BY <2>1, <4>1
    <3> QED BY <3>1, <3>2
  <2>6. ASSUME NEW q \in Callers, Writes(q) PROVE ~NoteIsAhead(r, u)'
    <3>0. /\ pc[q] \in Recording /\ todo' = todo
          /\ pc'[q] = NextStep(route[q], pc[q])
          /\ NextStep(route[q], pc[q]) # "pick" => user'[q] = user[q]
          /\ NextStep(route[q], pc[q]) = "pick" => user'[q] = NoUser
      BY <2>6, WriteStep
    <3>1. CASE q # r
      <4>1. pc'[r] = pc[r] /\ user'[r] = user[r]
        BY <2>6, <3>1, WriteStep
      <4> QED BY <2>1, <2>2, <3>0, <4>1
    <3>2. CASE q = r /\ user[r] # u
      <4>1. user'[r] # u
        BY <1>2, <3>0, <3>2
      <4> QED BY <1>2, <2>1, <3>0, <4>1 DEF NoteIsAhead
    <3>3. CASE q = r /\ user[r] = u
      <4>1. pc[r] = "clear" \/ (pc[r] \in {"log", "mark"} /\ route[r] = "freeze_all")
        BY <1>1, <3>0, <3>3 DEF NoteIsAhead, Recording
      <4>2. pc'[r] \in {"mark", "clear", "pick"} /\ (pc'[r] = "mark" => route[r] = "freeze_all")
        BY <3>0, <3>3, <4>1 DEF NextStep
      <4> QED BY <1>2, <2>1, <3>0, <3>3, <4>2 DEF NoteIsAhead
    <3> QED BY <3>1, <3>2, <3>3
  <2>7. ASSUME NEW q \in Callers, Finish(q) PROVE Frame
    <3>1. /\ pc[q] = "pick" /\ todo' = todo /\ user' = user
          /\ q # r => pc'[r] = pc[r]
      BY <2>7 DEF Finish
    <3>2. user[q] = NoUser
      BY <3>1 DEF Recording
    <3> QED BY <1>2, <2>1, <3>1, <3>2
  <2>8. ASSUME Crash PROVE Frame
    <3>1. user'[r] = NoUser /\ todo'[r] = {}
      BY <2>8, CrashStep
    <3> QED BY <1>2, <3>1
  <2>9. ASSUME QuietStep PROVE Frame
    BY <2>1, <2>9 DEF QuietStep, handlerVars
  <2> QED BY StepKinds, <2>2, <2>3, <2>4, <2>5, <2>6, <2>7, <2>8, <2>9 DEF Writes
<1> QED BY <1>3, <1>4

(* A note made by hand is counted as one, on the ledger or not.            *)
LEMMA NoteByHand ==
  ASSUME TypeOK, NEW v \in Users, LogFreezeNote(v), NEW u \in Users
  PROVE  /\ Notes(u)' = Notes(u) \/ ("ledger" \in Faults /\ Notes(u)' <= Notes(u))
         /\ chain'[u] \in Nat /\ noted'[u] \in Nat
<1>1. /\ chain[u] \in Nat /\ noted[u] \in Nat
      /\ chain \in [Users -> Nat] /\ noted \in [Users -> 0 .. MaxNotes]
  BY DEF TypeOK
<1>2. noted' = [noted EXCEPT ![v] = @ + 1]
  BY DEF LogFreezeNote
<1>3. \/ chain' = [chain EXCEPT ![v] = @ + 1]
      \/ "ledger" \in Faults /\ chain' = chain
  BY DEF LogFreezeNote, WriteNote
<1>4. CASE u = v
  BY <1>1, <1>2, <1>3, <1>4 DEF Notes
<1>5. CASE u # v
  BY <1>1, <1>2, <1>3, <1>5 DEF Notes
<1> QED BY <1>4, <1>5

(* In a handler only the step "chain" writes a note, at most one.          *)
LEMMA OnlyChainNotes ==
  ASSUME TypeOK, CallsFollowHandlers, [Next]_vars, NEW u \in Users
  PROVE  \/ /\ \E r \in Callers : Chain(r) /\ user[r] = u
            /\ Notes(u)' = Notes(u) + 1
         \/ Notes(u)' <= Notes(u)
<1>0. /\ chain[u] \in Nat /\ noted[u] \in Nat /\ Notes(u) \in Int
      /\ chain \in [Users -> Nat]
  BY DEF TypeOK, Notes
<1>1. ASSUME NEW r \in Callers, Arrive(r) PROVE UNCHANGED <<chain, noted>>
  BY <1>1, ArriveStep
<1>2. ASSUME NEW r \in Callers, NEW v \in Users, CallAuth0(r, v) PROVE UNCHANGED <<chain, noted>>
  BY <1>2, CallStep
<1>3. ASSUME NEW r \in Callers, NEW o \in Outcomes, Return(r, o) PROVE UNCHANGED <<chain, noted>>
  BY <1>3, ReturnStep
<1>4. ASSUME NEW r \in Callers, Log(r) \/ Mark(r) \/ Clear(r) PROVE UNCHANGED <<chain, noted>>
  BY <1>4 DEF Log, Mark, Clear, StepTaken
<1>5. ASSUME NEW r \in Callers, Chain(r)
      PROVE  \/ user[r] = u /\ Notes(u)' = Notes(u) + 1
             \/ Notes(u)' = Notes(u)
  <2>1. noted' = noted /\ user[r] \in Users
    BY <1>5, AtUser DEF Chain, StepTaken, Recording
  <2>2. \/ chain' = [chain EXCEPT ![user[r]] = @ + 1]
        \/ chain' = chain
    BY <1>5 DEF Chain, WriteNote
  <2> QED BY <1>0, <2>1, <2>2 DEF Notes
<1>6. ASSUME NEW r \in Callers, Finish(r) PROVE UNCHANGED <<chain, noted>>
  BY <1>6 DEF Finish, storeVars
<1>7. ASSUME Crash PROVE UNCHANGED <<chain, noted>>
  BY <1>7, CrashStep
<1>8. ASSUME UNCHANGED <<chain, noted>> PROVE Notes(u)' <= Notes(u)
  BY <1>0, <1>8 DEF Notes
<1>9. ASSUME QuietOnLedger PROVE Notes(u)' <= Notes(u)
  BY <1>0, <1>8, <1>9, NoteByHand DEF QuietOnLedger
<1> QED
  BY StepKinds, <1>0, <1>1, <1>2, <1>3, <1>4, <1>5, <1>6, <1>7, <1>8, <1>9

(* A handler that writes a note becomes one of the writers with that step. *)
LEMMA NotesHaveWritersNext ==
  ASSUME TypeOK, CallsFollowHandlers, IdleIsUnapplied, FinitelyManyArrived,
         RecordsConfirmed, NotesHaveWriters, [Next]_vars
  PROVE  NotesHaveWriters'
<1> USE DEF TypeOK
<1>1. SUFFICES ASSUME NEW u \in Users PROVE Notes(u)' <= Cardinality(Writers(u)')
  BY DEF NotesHaveWriters
<1>2. /\ IsFiniteSet(Writers(u)) /\ Cardinality(Writers(u)) \in Nat
      /\ IsFiniteSet(Writers(u)') /\ Cardinality(Writers(u)') \in Nat
  <2>1. IsFiniteSet(Arrived) /\ IsFiniteSet(Arrived')
    BY ArrivedNext DEF FinitelyManyArrived
  <2>2. Writers(u) \in SUBSET Arrived /\ Writers(u)' \in SUBSET Arrived'
    BY DEF Writers, Arrived, NoteIsAhead
  <2>3. IsFiniteSet(Writers(u)) /\ IsFiniteSet(Writers(u)')
    BY <2>1, <2>2, FS_Subset
  <2> QED BY <2>3, FS_CardinalityType
<1>3. Writers(u) \subseteq Writers(u)'
  BY WritersGrow
<1>4. Notes(u) \in Int /\ Notes(u) <= Cardinality(Writers(u))
  BY DEF NotesHaveWriters, Notes
<1>5. Cardinality(Writers(u)) <= Cardinality(Writers(u)')
  BY <1>2, <1>3, FS_Subset
<1>6. Notes(u)' \in Int
  <2>1. TypeOK'
    BY TypeNext
  <2>2. chain'[u] \in Nat /\ noted'[u] \in 0 .. MaxNotes
    BY <2>1
  <2> QED BY <2>2, NotesAssumption DEF Notes
<1>8. CASE Notes(u)' <= Notes(u)
  BY <1>2, <1>4, <1>5, <1>6, <1>8
<1>7. ASSUME NEW r \in Callers, Chain(r), user[r] = u, Notes(u)' = Notes(u) + 1
      PROVE  Notes(u)' <= Cardinality(Writers(u)')
  <2>1. pc[r] = "chain" /\ Writes(r)
    BY <1>7 DEF Chain, StepTaken, Writes
  <2>2. r \notin Writers(u)
    BY <1>7, <2>1 DEF Writers, NoteIsAhead
  <2>3. r \in Writers(u)'
    <3>1. Backs(r, u)
      BY <1>7, <2>1 DEF RecordsConfirmed, Recording, Backs, Blocks
    <3>2. Backs(r, u)'
      BY <2>1, <3>1, WriteStep DEF Backs
    <3>3. u \notin todo[r]
      <4>1. call[<<r, u>>].status # "idle"
        BY <1>7, <2>1 DEF RecordsConfirmed, Recording
      <4> QED BY <4>1 DEF CallsFollowHandlers, CalledInTurn
    <3>4. /\ pc'[r] = NextStep(route[r], "chain") /\ todo' = todo /\ route' = route
      BY <2>1, WriteStep
    <3>5. /\ pc'[r] \in {"log", "clear", "pick"}
          /\ pc'[r] = "log" => route[r] = "freeze_all"
      BY <3>4 DEF NextStep
    <3>6. ~NoteIsAhead(r, u)'
      BY <3>3, <3>4, <3>5 DEF NoteIsAhead
    <3> QED BY <3>2, <3>6 DEF Writers
  <2>4. Cardinality(Writers(u) \cup {r}) = Cardinality(Writers(u)) + 1
        /\ Writers(u) \cup {r} \in SUBSET Writers(u)'
    BY <1>2, <1>3, <2>2, <2>3, FS_AddElement
  <2>5. Cardinality(Writers(u)) + 1 <= Cardinality(Writers(u)')
    BY <1>2, <2>4, FS_Subset
  <2> QED BY <1>2, <1>4, <1>7, <2>5
<1> QED BY OnlyChainNotes, <1>7, <1>8

-----------------------------------------------------------------------------
(* The notes and the log.                                                  *)

Actions == {"freeze", "unfreeze"}

Freezes(s) == {i \in DOMAIN s : s[i] = "freeze"}

(* An entry that is appended counts as one more freeze, or not at all.     *)
LEMMA FreezesAppended ==
  ASSUME NEW s \in Seq(Actions), NEW a \in Actions
  PROVE  /\ Cardinality(Freezes(s)) \in Nat
         /\ Cardinality(Freezes(Append(s, a)))
              = IF a = "freeze" THEN Cardinality(Freezes(s)) + 1 ELSE Cardinality(Freezes(s))
<1>1. /\ Len(s) \in Nat /\ DOMAIN s = 1 .. Len(s)
      /\ DOMAIN Append(s, a) = 1 .. Len(s) + 1
      /\ Append(s, a)[Len(s) + 1] = a
      /\ \A i \in 1 .. Len(s) : Append(s, a)[i] = s[i]
  OBVIOUS
<1>2. IsFiniteSet(Freezes(s))
  <2>1. IsFiniteSet(1 .. Len(s))
    BY <1>1, FS_Interval
  <2> QED BY <1>1, <2>1, FS_Subset DEF Freezes
<1>3. Cardinality(Freezes(s)) \in Nat
  BY <1>2, FS_CardinalityType
<1>4. CASE a = "freeze"
  <2>1. Freezes(Append(s, a)) = Freezes(s) \cup {Len(s) + 1}
    BY <1>1, <1>4 DEF Freezes
  <2>2. Len(s) + 1 \notin Freezes(s)
    BY <1>1 DEF Freezes
  <2> QED BY <1>2, <1>3, <1>4, <2>1, <2>2, FS_AddElement
<1>5. CASE a # "freeze"
  <2>1. Freezes(Append(s, a)) = Freezes(s)
    BY <1>1, <1>5 DEF Freezes
  <2> QED BY <1>3, <1>5, <2>1
<1> QED BY <1>4, <1>5

LEMMA GapParts ==
  ASSUME TypeOK, NEW u \in Users
  PROVE  /\ chain[u] \in Nat /\ noted[u] \in Nat /\ Recorded(u) \in Nat
         /\ Debt(u) \in {0, 1} /\ Credit(u) \in {0, 1}
         /\ Gap(u) \in Int
<1>1. freezeLog[u] \in Seq(Actions) /\ chain[u] \in Nat /\ noted[u] \in Nat
  BY DEF TypeOK, Actions
<1>2. Recorded(u) = Cardinality(Freezes(freezeLog[u]))
  BY DEF Recorded, FreezesLogged, Freezes
<1>3. "freeze" \in Actions
  BY DEF Actions
<1>4. Recorded(u) \in Nat
  BY <1>1, <1>2, <1>3, FreezesAppended
<1>5. Debt(u) \in {0, 1} /\ Credit(u) \in {0, 1}
  BY DEF Debt, Credit, One
<1> QED BY <1>1, <1>4, <1>5 DEF Gap, Notes

(* What a step that concerns u does to the gap.                            *)
GapFrame(u) ==
  \A q \in Callers : /\ Owes(q, u)' <=> Owes(q, u)
                     /\ IsAhead(q, u)' <=> IsAhead(q, u)

LEMMA GapKept ==
  ASSUME NEW u \in Users, GapFrame(u), chain'[u] = chain[u], noted'[u] = noted[u],
         freezeLog'[u] = freezeLog[u]
  PROVE  Gap(u)' = Gap(u)
<1>1. Debt(u)' = Debt(u)
  BY DEF GapFrame, Debt, One
<1>2. Credit(u)' = Credit(u)
  BY DEF GapFrame, Credit, One
<1>3. Recorded(u)' = Recorded(u)
  BY DEF Recorded, FreezesLogged
<1> QED BY <1>1, <1>2, <1>3 DEF Gap, Notes

(* The user of a handler that records is at no other one's step.           *)
LEMMA AloneRecording ==
  ASSUME TypeOK, LoopExclusive, NEW r \in Callers, pc[r] \in Recording,
         NEW u \in Users, NEW q \in Callers \ {r}
  PROVE  ~Owes(q, u) /\ ~IsAhead(q, u)
BY DEF LoopExclusive, Running, Recording, Owes, IsAhead

(* The step "log": a freeze is logged and its note is owed, or, in         *)
(* freeze-all, it has been written already.                                *)
LEMMA LogKeepsGap ==
  ASSUME TypeOK, LoopExclusive, NEW r \in Callers, Log(r), NEW u \in Users
  PROVE  Gap(u)' = Gap(u)
<1>0. /\ pc[r] = "log" /\ user[r] \in Users /\ pc' = [pc EXCEPT ![r] = "mark"]
      /\ UNCHANGED <<user, route, chain, noted>>
      /\ freezeLog' = [freezeLog EXCEPT ![user[r]] = Append(@, ActionOf(route[r]))]
  BY AtUser DEF Log, StepTaken, NextStep, Recording
<1>1. CASE u # user[r]
  <2>1. GapFrame(u)
    BY <1>0, <1>1 DEF GapFrame, Owes, IsAhead, TypeOK
  <2>2. freezeLog'[u] = freezeLog[u] /\ chain'[u] = chain[u] /\ noted'[u] = noted[u]
    BY <1>0, <1>1 DEF TypeOK
  <2> QED BY <2>1, <2>2, GapKept
<1>2. CASE u = user[r]
  <2>1. ActionOf(route[r]) \in Actions /\ freezeLog[u] \in Seq(Actions)
    BY DEF ActionOf, Actions, TypeOK
  <2>2. freezeLog'[u] = Append(freezeLog[u], ActionOf(route[r]))
    BY <1>0, <1>2 DEF TypeOK
  <2>3. Recorded(u)' = IF ActionOf(route[r]) = "freeze" THEN Recorded(u) + 1 ELSE Recorded(u)
    BY <2>1, <2>2, FreezesAppended DEF Recorded, FreezesLogged, Freezes
  <2>4. \A q \in Callers \ {r} : ~Owes(q, u) /\ ~IsAhead(q, u)
    BY <1>0, AloneRecording DEF Recording
  <2>5. \A q \in Callers \ {r} : ~Owes(q, u)' /\ ~IsAhead(q, u)'
    BY <1>0, <2>4 DEF Owes, IsAhead, TypeOK
  <2>6. ~Owes(r, u) /\ ~IsAhead(r, u)' /\ pc'[r] = "mark"
    BY <1>0 DEF Owes, IsAhead, TypeOK
  <2>7. IsAhead(r, u) <=> route[r] = "freeze_all"
    BY <1>0, <1>2 DEF IsAhead
  <2>8. Owes(r, u)' <=> route[r] \notin {"freeze_all", "unfreeze"}
    BY <1>0, <1>2, <2>6 DEF Owes
  <2>9. ActionOf(route[r]) = "freeze" <=> route[r] # "unfreeze"
    BY DEF ActionOf, Blocks
  <2>10. /\ Debt(u) = 0 /\ Credit(u)' = 0
         /\ Credit(u) = One(route[r] = "freeze_all")
         /\ Debt(u)' = One(route[r] \notin {"freeze_all", "unfreeze"})
    BY <2>4, <2>5, <2>6, <2>7, <2>8 DEF Debt, Credit, One
  <2>11. /\ chain'[u] = chain[u] /\ noted'[u] = noted[u]
         /\ chain[u] \in Nat /\ noted[u] \in Nat /\ Recorded(u) \in Nat
    BY <1>0, GapParts
  <2> QED BY <2>3, <2>9, <2>10, <2>11 DEF Gap, Notes, One
<1> QED BY <1>1, <1>2

(* The step "chain": the note that is written was owed, or it is ahead of  *)
(* the log; one that a fault prevents leaves the ledger behind.            *)
LEMMA ChainKeepsGap ==
  ASSUME TypeOK, LoopExclusive, RecordsConfirmed, NEW r \in Callers, Chain(r), NEW u \in Users
  PROVE  Gap(u)' = Gap(u) \/ ("ledger" \in Faults /\ Gap(u)' <= Gap(u))
<1>0. /\ pc[r] = "chain" /\ user[r] \in Users
      /\ pc'[r] = NextStep(route[r], "chain")
      /\ OthersKept(r)
      /\ UNCHANGED <<route, freezeLog, noted>>
      /\ NextStep(route[r], "chain") # "pick" => user'[r] = user[r]
      /\ NextStep(route[r], "chain") = "pick" => user'[r] = NoUser
      /\ route[r] # "unfreeze"
  <2>1. Writes(r) /\ pc[r] = "chain" /\ UNCHANGED <<freezeLog, noted>>
    BY DEF Writes, Chain, StepTaken
  <2>2. /\ NextStep(route[r], "chain") # "pick" => user'[r] = user[r]
        /\ NextStep(route[r], "chain") = "pick" => user'[r] = NoUser
        /\ pc' = [pc EXCEPT ![r] = NextStep(route[r], pc[r])]
        /\ route' = route
    BY <2>1, WriteStep
  <2>3. pc'[r] = NextStep(route[r], "chain")
    BY <2>1, <2>2 DEF TypeOK
  <2>4. user[r] \in Users /\ OthersKept(r)
    BY <2>1, ReportStep, OthersKeptByWrite
  <2>5. route[r] # "unfreeze"
    BY <2>1 DEF RecordsConfirmed, Recording
  <2> QED BY <2>1, <2>2, <2>3, <2>4, <2>5
<1>1. CASE u # user[r]
  <2>1. GapFrame(u)
    <3>1. ~Owes(r, u) /\ ~IsAhead(r, u) /\ ~Owes(r, u)' /\ ~IsAhead(r, u)'
      BY <1>0, <1>1, NoUserAssumption DEF Owes, IsAhead
    <3> QED BY <1>0, <3>1 DEF GapFrame, OthersKept, Owes, IsAhead
  <2>2. chain'[u] = chain[u]
    BY <1>0, <1>1 DEF Chain, WriteNote, TypeOK
  <2> QED BY <1>0, <2>1, <2>2, GapKept
<1>2. CASE u = user[r]
  <2>1. \A q \in Callers \ {r} : /\ ~Owes(q, u) /\ ~IsAhead(q, u)
                                 /\ ~Owes(q, u)' /\ ~IsAhead(q, u)'
    <3>1. \A q \in Callers \ {r} : ~Owes(q, u) /\ ~IsAhead(q, u)
      BY <1>0, AloneRecording DEF Recording
    <3> QED BY <1>0, <3>1 DEF OthersKept, Owes, IsAhead
  <2>2. /\ Owes(r, u) <=> route[r] # "freeze_all"
        /\ ~IsAhead(r, u)
    BY <1>0, <1>2 DEF Owes, IsAhead
  <2>3. /\ ~Owes(r, u)'
        /\ IsAhead(r, u)' <=> route[r] = "freeze_all"
    BY <1>0, <1>2 DEF Owes, IsAhead, NextStep
  <2>4. /\ Debt(u) = One(route[r] # "freeze_all") /\ Credit(u) = 0
        /\ Debt(u)' = 0 /\ Credit(u)' = One(route[r] = "freeze_all")
    BY <2>1, <2>2, <2>3 DEF Debt, Credit, One
  <2>5. Recorded(u)' = Recorded(u)
    BY <1>0 DEF Recorded, FreezesLogged
  <2>6. chain[u] \in Nat /\ noted[u] \in Nat /\ noted'[u] = noted[u] /\ Recorded(u) \in Nat
    BY <1>0, GapParts
  <2>7. chain'[u] = chain[u] + 1 \/ ("ledger" \in Faults /\ chain'[u] = chain[u])
    BY <1>2 DEF Chain, WriteNote, TypeOK
  <2> QED BY <2>4, <2>5, <2>6, <2>7 DEF Gap, Notes, One
<1> QED BY <1>1, <1>2

(* The steps "mark" and "clear" neither make nor pay a debt.               *)
LEMMA MarkKeepsGap ==
  ASSUME TypeOK, LoopExclusive, NEW r \in Callers, Mark(r) \/ Clear(r), NEW u \in Users
  PROVE  Gap(u)' = Gap(u)
<1>0. /\ pc[r] \in {"mark", "clear"}
      /\ pc'[r] = NextStep(route[r], pc[r])
      /\ OthersKept(r)
      /\ UNCHANGED <<route, freezeLog, chain, noted>>
      /\ NextStep(route[r], pc[r]) # "pick" => user'[r] = user[r]
      /\ NextStep(route[r], pc[r]) = "pick" => user'[r] = NoUser
  <2>1. Writes(r) /\ pc[r] \in {"mark", "clear"} /\ UNCHANGED <<freezeLog, chain, noted>>
    BY DEF Writes, Mark, Clear, StepTaken
  <2>2. /\ NextStep(route[r], pc[r]) # "pick" => user'[r] = user[r]
        /\ NextStep(route[r], pc[r]) = "pick" => user'[r] = NoUser
        /\ pc' = [pc EXCEPT ![r] = NextStep(route[r], pc[r])]
        /\ route' = route
    BY <2>1, WriteStep
  <2>3. pc'[r] = NextStep(route[r], pc[r])
    BY <2>2 DEF TypeOK
  <2>4. OthersKept(r)
    BY <2>1, OthersKeptByWrite
  <2> QED BY <2>1, <2>2, <2>3, <2>4
<1>1. GapFrame(u)
  <2>1. /\ Owes(r, u)' <=> Owes(r, u)
        /\ IsAhead(r, u)' <=> IsAhead(r, u)
    BY <1>0 DEF Owes, IsAhead, NextStep
  <2> QED BY <1>0, <2>1 DEF GapFrame, OthersKept, Owes, IsAhead
<1> QED BY <1>0, <1>1, GapKept

(* Every step but a crash keeps the gap, or a fault of the ledger lets it  *)
(* shrink; none of them kills a handler.                                   *)
LEMMA GapStep ==
  ASSUME TypeOK, LoopExclusive, CallsFollowHandlers, RecordsConfirmed, [Next]_vars, ~Crash,
         NEW u \in Users
  PROVE  /\ Gap(u)' = Gap(u) \/ ("ledger" \in Faults /\ Gap(u)' <= Gap(u))
         /\ KilledSweeps' = KilledSweeps
<1> USE DEF TypeOK
<1> DEFINE Goal == /\ Gap(u)' = Gap(u) \/ ("ledger" \in Faults /\ Gap(u)' <= Gap(u))
                   /\ KilledSweeps' = KilledSweeps
<1>0. ASSUME NEW r \in Callers, OthersKept(r), pc[r] # "killed", pc'[r] # "killed"
      PROVE  KilledSweeps' = KilledSweeps
  BY <1>0 DEF OthersKept, KilledSweeps
<1>1. ASSUME NEW r \in Callers, OthersKept(r), UNCHANGED <<chain, noted, freezeLog>>,
             pc[r] \notin {"mark", "chain", "log", "killed"},
             pc'[r] \notin {"mark", "chain", "log", "killed"}
      PROVE  Goal
  <2>1. GapFrame(u)
    <3>1. ~Owes(r, u) /\ ~IsAhead(r, u) /\ ~Owes(r, u)' /\ ~IsAhead(r, u)'
      BY <1>1 DEF Owes, IsAhead
    <3> QED BY <1>1, <3>1 DEF GapFrame, OthersKept, Owes, IsAhead
  <2>2. chain'[u] = chain[u] /\ noted'[u] = noted[u] /\ freezeLog'[u] = freezeLog[u]
    BY <1>1
  <2> QED BY <1>0, <1>1, <2>1, <2>2, GapKept
<1>2. ASSUME NEW r \in Callers, Arrive(r) PROVE Goal
  <2>1. /\ pc[r] = "new" /\ pc'[r] = "pick" /\ UNCHANGED <<chain, noted, freezeLog>>
    BY <1>2, ArriveStep
  <2> QED BY <1>1, <1>2, <2>1, OthersKeptByArrive
<1>3. ASSUME NEW r \in Callers, NEW v \in Users, CallAuth0(r, v) PROVE Goal
  <2>1. /\ pc[r] = "pick" /\ pc'[r] = "await" /\ UNCHANGED <<chain, noted, freezeLog>>
    BY <1>3, CallStep
  <2> QED BY <1>1, <1>3, <2>1, OthersKeptByCall
<1>4. ASSUME NEW r \in Callers, NEW o \in Outcomes, Return(r, o) PROVE Goal
  <2>0. OthersKept(r)
    BY <1>4, OthersKeptByReturn
  <2>1. /\ OthersKept(r) /\ UNCHANGED <<chain, noted, freezeLog>> /\ pc[r] = "await"
        /\ pc'[r] = AfterCall(route[r], o) /\ route' = route
    <3>1. /\ pc' = [pc EXCEPT ![r] = AfterCall(route[r], o)] /\ pc[r] = "await"
          /\ UNCHANGED <<chain, noted, freezeLog, route>>
      BY <1>4 DEF Return, storeVars
    <3> QED BY <2>0, <3>1
  <2>2. /\ pc'[r] \in {"chain", "log", "error", "pick"}
        /\ pc'[r] = "chain" => route[r] = "freeze_all"
        /\ pc'[r] = "log" => route[r] # "freeze_all"
    BY <1>4, <2>1, ReturnStep
  <2>3. ~Owes(r, u) /\ ~IsAhead(r, u) /\ ~Owes(r, u)' /\ ~IsAhead(r, u)'
    BY <2>1, <2>2 DEF Owes, IsAhead
  <2>4. GapFrame(u)
    BY <2>1, <2>3 DEF GapFrame, OthersKept, Owes, IsAhead
  <2>5. KilledSweeps' = KilledSweeps
    BY <1>0, <2>1, <2>2
  <2>6. chain'[u] = chain[u] /\ noted'[u] = noted[u] /\ freezeLog'[u] = freezeLog[u]
    BY <2>1
  <2> QED BY <2>4, <2>5, <2>6, GapKept
<1>5. ASSUME NEW r \in Callers, Writes(r) PROVE Goal
  <2>1. pc[r] \in Recording /\ pc'[r] \in Recording \cup {"pick"}
    BY <1>5, WriteStep
  <2>2. KilledSweeps' = KilledSweeps
    BY <1>0, <1>5, <2>1, OthersKeptByWrite DEF Recording
  <2> QED BY <1>5, <2>2, LogKeepsGap, ChainKeepsGap, MarkKeepsGap DEF Writes
<1>6. ASSUME NEW r \in Callers, Finish(r) PROVE Goal
  <2>1. /\ pc[r] = "pick" /\ pc' = [pc EXCEPT ![r] = "done"]
        /\ UNCHANGED <<user, todo, route, chain, noted, freezeLog>>
    BY <1>6 DEF Finish, storeVars
  <2>2. OthersKept(r) /\ pc'[r] = "done"
    BY <2>1 DEF OthersKept
  <2> QED BY <1>1, <2>1, <2>2
<1>7. ASSUME QuietStep, UNCHANGED <<chain, noted>> PROVE Goal
  <2>1. UNCHANGED <<pc, user, route, chain, noted, freezeLog>>
    BY <1>7 DEF QuietStep, handlerVars
  <2>2. GapFrame(u) /\ KilledSweeps' = KilledSweeps
    BY <2>1 DEF GapFrame, Owes, IsAhead, KilledSweeps
  <2>3. chain'[u] = chain[u] /\ noted'[u] = noted[u] /\ freezeLog'[u] = freezeLog[u]
    BY <2>1
  <2> QED BY <2>2, <2>3, GapKept
<1>9. ASSUME NEW v \in Users, LogFreezeNote(v) PROVE Goal
  <2>1. UNCHANGED <<pc, user, route, freezeLog>>
    BY <1>9, NoteStep
  <2>2. /\ Debt(u)' = Debt(u) /\ Credit(u)' = Credit(u) /\ Recorded(u)' = Recorded(u)
        /\ KilledSweeps' = KilledSweeps
    BY <2>1 DEF Debt, Credit, One, Owes, IsAhead, Recorded, FreezesLogged, KilledSweeps
  <2>3. /\ Notes(u) \in Int /\ Notes(u)' \in Int
        /\ Debt(u) \in Int /\ Credit(u) \in Int /\ Recorded(u) \in Int
    <3>1. /\ chain[u] \in Nat /\ noted[u] \in Nat /\ Recorded(u) \in Nat
          /\ Debt(u) \in {0, 1} /\ Credit(u) \in {0, 1}
      BY GapParts
    <3>2. chain'[u] \in Nat /\ noted'[u] \in Nat
      BY <1>9, NoteByHand
    <3> QED BY <3>1, <3>2 DEF Notes
  <2>4. Notes(u)' = Notes(u) \/ ("ledger" \in Faults /\ Notes(u)' <= Notes(u))
    BY <1>9, NoteByHand
  <2> QED BY <2>2, <2>3, <2>4 DEF Gap
<1> HIDE DEF Goal
<1>8. Goal
  BY StepKinds, <1>2, <1>3, <1>4, <1>5, <1>6, <1>7, <1>9 DEF Writes, QuietOnLedger
<1> QED BY <1>8 DEF Goal

(* A crash kills the one handler whose note may be ahead of the log.       *)
LEMMA GapCrash ==
  ASSUME TypeOK, FinitelyManyArrived, CallsFollowHandlers, Crash, [Next]_vars, NEW u \in Users,
         Gap(u) <= Cardinality(KilledSweeps)
  PROVE  Gap(u)' <= Cardinality(KilledSweeps')
<1> USE DEF TypeOK
<1>1. /\ \A q \in Callers : /\ pc'[q] = IF InProgress(q) THEN "killed" ELSE pc[q]
                            /\ user'[q] = NoUser
      /\ UNCHANGED <<route, freezeLog, chain, noted>>
  BY CrashStep
<1>2. /\ IsFiniteSet(KilledSweeps) /\ Cardinality(KilledSweeps) \in Nat
      /\ IsFiniteSet(KilledSweeps') /\ Cardinality(KilledSweeps') \in Nat
  <2>1. IsFiniteSet(Arrived) /\ IsFiniteSet(Arrived')
    BY ArrivedNext DEF FinitelyManyArrived
  <2>2. KilledSweeps \in SUBSET Arrived /\ KilledSweeps' \in SUBSET Arrived'
    BY DEF KilledSweeps, Arrived
  <2>3. IsFiniteSet(KilledSweeps) /\ IsFiniteSet(KilledSweeps')
    BY <2>1, <2>2, FS_Subset
  <2> QED BY <2>3, FS_CardinalityType
<1>3. KilledSweeps \subseteq KilledSweeps'
  BY <1>1 DEF KilledSweeps, InProgress, Running, Recording
<1>4. Debt(u)' = 0 /\ Credit(u)' = 0
  <2>1. \A q \in Callers : ~Owes(q, u)' /\ ~IsAhead(q, u)'
    BY <1>1, NoUserAssumption DEF Owes, IsAhead
  <2> QED BY <2>1 DEF Debt, Credit, One
<1>5. Recorded(u)' = Recorded(u) /\ chain'[u] = chain[u] /\ noted'[u] = noted[u]
  BY <1>1 DEF Recorded, FreezesLogged
<1>6. /\ chain[u] \in Nat /\ noted[u] \in Nat /\ Recorded(u) \in Nat
      /\ Debt(u) \in {0, 1} /\ Credit(u) \in {0, 1}
  BY GapParts
<1>7. CASE Credit(u) = 0
  <2>1. Cardinality(KilledSweeps) <= Cardinality(KilledSweeps')
    BY <1>2, <1>3, FS_Subset
  <2> QED BY <1>2, <1>4, <1>5, <1>6, <1>7, <2>1 DEF Gap, Notes
<1>8. CASE Credit(u) = 1
  <2>1. PICK r \in Callers : IsAhead(r, u)
    BY <1>8 DEF Credit, One
  <2>2. r \notin KilledSweeps /\ r \in KilledSweeps'
    BY <1>1, <2>1 DEF IsAhead, KilledSweeps, InProgress, Running, Recording
  <2>3. /\ Cardinality(KilledSweeps \cup {r}) = Cardinality(KilledSweeps) + 1
        /\ KilledSweeps \cup {r} \in SUBSET KilledSweeps'
    BY <1>2, <1>3, <2>2, FS_AddElement
  <2>4. Cardinality(KilledSweeps) + 1 <= Cardinality(KilledSweeps')
    BY <1>2, <2>3, FS_Subset
  <2> QED BY <1>2, <1>4, <1>5, <1>6, <1>8, <2>4 DEF Gap, Notes
<1> QED BY <1>6, <1>7, <1>8

LEMMA NotesAreLoggedNext ==
  ASSUME TypeOK, LoopExclusive, CallsFollowHandlers, FinitelyManyArrived, RecordsConfirmed,
         NotesAreLogged, [Next]_vars
  PROVE  NotesAreLogged'
<1>1. SUFFICES ASSUME NEW u \in Users PROVE Gap(u)' <= Cardinality(KilledSweeps')
  BY DEF NotesAreLogged
<1>2. Gap(u) <= Cardinality(KilledSweeps) /\ Gap(u) \in Int
  BY GapParts DEF NotesAreLogged
<1>3. Cardinality(KilledSweeps) \in Nat
  <2>1. KilledSweeps \in SUBSET Arrived /\ IsFiniteSet(Arrived)
    BY DEF KilledSweeps, Arrived, FinitelyManyArrived
  <2>2. IsFiniteSet(KilledSweeps)
    BY <2>1, FS_Subset
  <2> QED BY <2>2, FS_CardinalityType
<1>4. CASE Crash
  BY <1>2, <1>4, GapCrash
<1>5. CASE ~Crash
  <2>1. Gap(u)' <= Gap(u) \/ Gap(u)' = Gap(u)
    BY <1>5, GapStep
  <2>2. KilledSweeps' = KilledSweeps
    BY <1>5, GapStep
  <2>3. TypeOK'
    BY TypeNext
  <2>4. chain'[u] \in Nat /\ noted'[u] \in Nat
    BY <2>3, NotesAssumption DEF TypeOK
  <2>5. Gap(u)' \in Int
    <3>1. freezeLog'[u] \in Seq(Actions) /\ "freeze" \in Actions
      BY <2>3 DEF TypeOK, Actions
    <3>2. Recorded(u)' = Cardinality(Freezes(freezeLog'[u]))
      BY DEF Recorded, FreezesLogged, Freezes
    <3>3. Recorded(u)' \in Nat
      BY <3>1, <3>2, FreezesAppended
    <3>4. Debt(u)' \in {0, 1} /\ Credit(u)' \in {0, 1}
      BY DEF Debt, Credit, One
    <3> QED BY <2>4, <3>3, <3>4 DEF Gap, Notes
  <2> QED BY <1>2, <1>3, <2>1, <2>2, <2>5
<1> QED BY <1>4, <1>5

LEMMA LoggedHaveNotesNext ==
  ASSUME TypeOK, LoopExclusive, CallsFollowHandlers, RecordsConfirmed, LoggedHaveNotes,
         [Next]_vars
  PROVE  LoggedHaveNotes'
<1>1. SUFFICES ASSUME crashes' = 0, "ledger" \notin Faults, NEW u \in Users
               PROVE  Gap(u)' = 0
  BY DEF LoggedHaveNotes
<1>2. ~Crash
  BY <1>1, CrashStep DEF TypeOK
<1>3. crashes = 0
  <2>1. ASSUME NEW r \in Callers, Arrive(r) PROVE crashes' = crashes
    BY <2>1, ArriveStep
  <2>2. ASSUME NEW r \in Callers, NEW v \in Users, CallAuth0(r, v) PROVE crashes' = crashes
    BY <2>2, CallStep
  <2>3. ASSUME NEW r \in Callers, NEW o \in Outcomes, Return(r, o) PROVE crashes' = crashes
    BY <2>3, ReturnStep
  <2>4. ASSUME NEW r \in Callers, Writes(r) PROVE crashes' = crashes
    BY <2>4, WriteStep
  <2>5. ASSUME NEW r \in Callers, Finish(r) PROVE crashes' = crashes
    BY <2>5 DEF Finish
  <2>6. ASSUME QuietStep PROVE crashes' = crashes
    BY <2>6 DEF QuietStep
  <2> QED BY <1>1, <1>2, StepKinds, <2>1, <2>2, <2>3, <2>4, <2>5, <2>6 DEF Writes
<1>4. Gap(u) = 0
  BY <1>1, <1>3 DEF LoggedHaveNotes
<1> QED BY <1>1, <1>2, <1>4, GapStep

-----------------------------------------------------------------------------
(* The theorems.                                                           *)

LEMMA ReportsInit == Init => Reports
<1> SUFFICES ASSUME Init PROVE Reports
  OBVIOUS
<1> USE DEF Init, CallInit
<1>1. FinitelyManyArrived
  <2>1. Arrived = {}
    BY DEF Arrived
  <2> QED BY <2>1, FS_EmptySet DEF FinitelyManyArrived
<1>2. IdleIsUnapplied
  BY DEF IdleIsUnapplied, Calls, NewCall
<1>3. NewHasNothing /\ RecordsConfirmed /\ LoggedOncePast
  BY DEF NewHasNothing, RecordsConfirmed, LoggedOncePast, PastLog, Recording
<1>4. SuccessMeansApplied /\ FlagsBelongToASweep
  BY DEF SuccessMeansApplied, FlagsBelongToASweep
<1>5. NotesHaveWriters
  <2>1. ASSUME NEW u \in Users PROVE Writers(u) = {}
    BY DEF Writers, NoteIsAhead
  <2>2. ASSUME NEW u \in Users PROVE Notes(u) <= Cardinality(Writers(u))
    <3>1. Cardinality(Writers(u)) = 0
      BY <2>1, FS_EmptySet
    <3> QED BY <3>1 DEF Notes
  <2> HIDE DEF Init
  <2> QED BY <2>2 DEF NotesHaveWriters
<1>6. \A u \in Users : Gap(u) = 0
  <2>1. SUFFICES ASSUME NEW u \in Users PROVE Gap(u) = 0
    OBVIOUS
  <2>2. FreezesLogged(u) = {}
    BY DEF FreezesLogged
  <2>3. Recorded(u) = 0
    BY <2>2, FS_EmptySet DEF Recorded
  <2>4. Debt(u) = 0 /\ Credit(u) = 0
    BY DEF Debt, Credit, One, Owes, IsAhead
  <2> QED BY <2>3, <2>4 DEF Gap, Notes
<1>7. Cardinality(KilledSweeps) = 0
  <2>1. KilledSweeps = {}
    BY DEF KilledSweeps
  <2> QED BY <2>1, FS_EmptySet
<1>8. NotesAreLogged /\ LoggedHaveNotes
  BY <1>6, <1>7 DEF NotesAreLogged, LoggedHaveNotes
<1> QED BY <1>1, <1>2, <1>3, <1>4, <1>5, <1>8 DEF Reports

LEMMA ReportsNext == TypeOK /\ Inductive /\ Reports /\ [Next]_vars => Reports'
<1> SUFFICES ASSUME TypeOK, Inductive, Reports, [Next]_vars PROVE Reports'
  OBVIOUS
<1>1. LoopExclusive /\ CallsFollowHandlers
  BY DEF Inductive
<1> USE DEF Reports
<1>2. FinitelyManyArrived' /\ IdleIsUnapplied' /\ NewHasNothing'
  BY <1>1, ArrivedNext, CallsGrowNext, NewNext
<1>3. RecordsConfirmed' /\ LoggedOncePast'
  BY <1>1, RecordsConfirmedNext, LoggedOncePastNext
<1>4. SuccessMeansApplied'
  BY <1>1, SuccessMeansAppliedNext
<1>5. FlagsBelongToASweep' /\ NotesHaveWriters'
  BY <1>1, FlagsBelongToASweepNext, NotesHaveWritersNext
<1>6. NotesAreLogged' /\ LoggedHaveNotes'
  BY <1>1, NotesAreLoggedNext, LoggedHaveNotesNext
<1> QED BY <1>2, <1>3, <1>4, <1>5, <1>6

(* The second inductive invariant, which rests on the first one.           *)
THEOREM ReportsInvariant == Spec => []Reports
<1>1. Init => Reports
  BY ReportsInit
<1>2. TypeOK /\ Inductive /\ Reports /\ [Next]_vars => Reports'
  BY ReportsNext
<1> QED BY <1>1, <1>2, TypeCorrect, InductiveInvariant, PTL DEF Spec

(* An answer that reports a user is true: Auth0 applied the call, except   *)
(* in freeze-all, and freeze_log has the entry.                            *)
THEOREM ReportsAreTrue == Spec => []SuccessMeansApplied
<1>1. Reports => SuccessMeansApplied
  BY DEF Reports
<1> QED BY <1>1, ReportsInvariant, PTL

(* Without a crash or a fault of the graph, a flagged user is still to be  *)
(* visited by a freeze-all, unless check-clusters is used.                 *)
THEOREM FlagsAreCleared == Spec => []FlagsBelongToASweep
<1>1. Reports => FlagsBelongToASweep
  BY DEF Reports
<1> QED BY <1>1, ReportsInvariant, PTL

(* Every note that was not made by hand has a call of its own behind it,   *)
(* which Auth0 applied if it was not one of freeze-all.                    *)
THEOREM NotesAreBackedByCalls == Spec => []LedgerBackedByAuth0
<1>1. TypeOK /\ Inductive /\ Reports => LedgerBackedByAuth0
  <2> SUFFICES ASSUME TypeOK, Inductive, Reports, NEW u \in Users
               PROVE  chain[u] <= noted[u] + Cardinality({r \in Callers : Backs(r, u)})
    BY DEF LedgerBackedByAuth0, Backs
  <2> DEFINE Backers == {r \in Callers : Backs(r, u)}
  <2>1. Backers \in SUBSET Arrived
    <3>1. ASSUME NEW r \in Callers, Backs(r, u) PROVE pc[r] # "new"
      <4>1. call[<<r, u>>].status # "idle"
        BY <3>1 DEF Backs, Reports, IdleIsUnapplied
      <4> QED BY <4>1 DEF Inductive, CallsFollowHandlers, CalledInTurn
    <3> QED BY <3>1 DEF Arrived
  <2>2. IsFiniteSet(Backers) /\ Cardinality(Backers) \in Nat
    <3>1. IsFiniteSet(Backers)
      BY <2>1, FS_Subset DEF Reports, FinitelyManyArrived
    <3> QED BY <3>1, FS_CardinalityType
  <2>3. Writers(u) \in SUBSET Backers
    BY DEF Writers
  <2>4. Cardinality(Writers(u)) <= Cardinality(Backers) /\ Cardinality(Writers(u)) \in Nat
    BY <2>2, <2>3, FS_Subset, FS_CardinalityType
  <2>5. /\ chain[u] \in Nat /\ noted[u] \in Nat
        /\ chain[u] - noted[u] <= Cardinality(Writers(u))
    BY DEF TypeOK, Reports, NotesHaveWriters, Notes
  <2> QED BY <2>2, <2>4, <2>5
<1> QED BY <1>1, TypeCorrect, InductiveInvariant, ReportsInvariant, PTL

(* The ledger never has a note that the log lacks, except those made by    *)
(* hand and those of freeze-alls that are about to log it or were killed;  *)
(* and with nothing to disturb it, it has a note for every logged freeze.  *)
THEOREM LedgerFollowsLog == Spec => []LedgerTrailsLog
<1>1. TypeOK /\ Inductive /\ Reports => LedgerTrailsLog
  <2> SUFFICES ASSUME TypeOK, Inductive, Reports, NEW u \in Users
               PROVE  /\ chain[u] <= Recorded(u) + noted[u]
                           + Cardinality({r \in Callers :
                               /\ route[r] = "freeze_all"
                               /\ pc[r] = "killed" \/ (pc[r] = "log" /\ user[r] = u)})
                      /\ (crashes = 0 /\ "ledger" \notin Faults
                          /\ \A r \in Callers : ~(user[r] = u /\ pc[r] \in Recording))
                           => chain[u] = Recorded(u) + noted[u]
    BY DEF LedgerTrailsLog, Recorded
  <2> DEFINE Excused == {r \in Callers :
                           /\ route[r] = "freeze_all"
                           /\ pc[r] = "killed" \/ (pc[r] = "log" /\ user[r] = u)}
  <2>1. /\ chain[u] \in Nat /\ noted[u] \in Nat /\ Recorded(u) \in Nat
        /\ Debt(u) \in {0, 1} /\ Credit(u) \in {0, 1}
    BY GapParts
  <2>2. IsFiniteSet(KilledSweeps) /\ IsFiniteSet(Excused)
    <3>1. KilledSweeps \in SUBSET Arrived /\ Excused \in SUBSET Arrived
      BY DEF KilledSweeps, Arrived
    <3> QED BY <3>1, FS_Subset DEF Reports, FinitelyManyArrived
  <2>3. Cardinality(KilledSweeps) \in Nat /\ Cardinality(Excused) \in Nat
    BY <2>2, FS_CardinalityType
  <2>4. KilledSweeps \in SUBSET Excused
    BY DEF KilledSweeps
  <2>5. Cardinality(KilledSweeps) + Credit(u) <= Cardinality(Excused)
    <3>1. CASE Credit(u) = 0
      BY <2>2, <2>3, <2>4, <3>1, FS_Subset
    <3>2. CASE Credit(u) = 1
      <4>1. PICK r \in Callers : IsAhead(r, u)
        BY <3>2 DEF Credit, One
      <4>2. r \notin KilledSweeps /\ r \in Excused
        BY <4>1 DEF IsAhead, KilledSweeps
      <4>3. /\ Cardinality(KilledSweeps \cup {r}) = Cardinality(KilledSweeps) + 1
            /\ KilledSweeps \cup {r} \in SUBSET Excused
        BY <2>2, <2>4, <4>2, FS_AddElement
      <4>4. Cardinality(KilledSweeps \cup {r}) <= Cardinality(Excused)
        BY <2>2, <4>3, FS_Subset
      <4> QED BY <2>3, <3>2, <4>3, <4>4
    <3> QED BY <2>1, <3>1, <3>2
  <2>6. Gap(u) <= Cardinality(KilledSweeps)
    BY DEF Reports, NotesAreLogged
  <2>7. chain[u] <= Recorded(u) + noted[u] + Cardinality(Excused)
    <3> HIDE DEF Excused
    <3> QED BY <2>1, <2>3, <2>5, <2>6 DEF Gap, Notes
  <2>8. ASSUME crashes = 0, "ledger" \notin Faults,
               \A r \in Callers : ~(user[r] = u /\ pc[r] \in Recording)
        PROVE  chain[u] = Recorded(u) + noted[u]
    <3>1. Debt(u) = 0 /\ Credit(u) = 0
      BY <2>8 DEF Debt, Credit, One, Owes, IsAhead, Recording
    <3>2. Gap(u) = 0
      BY <2>8 DEF Reports, LoggedHaveNotes
    <3> QED BY <2>1, <3>1, <3>2 DEF Gap, Notes
  <2> QED BY <2>7, <2>8
<1> QED BY <1>1, TypeCorrect, InductiveInvariant, ReportsInvariant, PTL
=============================================================================
