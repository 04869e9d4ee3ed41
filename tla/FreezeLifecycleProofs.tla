----------------------- MODULE FreezeLifecycleProofs -----------------------
(***************************************************************************)
(* Theorems about FreezeLifecycle, for every set of requests and users,    *)
(* every choice of routes and faults, any number of attempts and crashes.  *)
(***************************************************************************)
EXTENDS FreezeLifecycle, TLAPS

USE AttemptsAssumption, RoutesAssumption, CrashAssumption,
    NoUserAssumption
    DEF AttemptsAssumption, RoutesAssumption, CrashAssumption,
        NoUserAssumption

-----------------------------------------------------------------------------
(* Types.                                                                  *)

(* The steps of the calls keep the types of Auth0's state.                 *)
LEMMA CallStepsTyped ==
  ASSUME CallTypeOK,
         \/ \E c \in Calls, b \in BOOLEAN : OpenCall(c, b)
         \/ \E c \in Calls : SendPatch(c) \/ ApplyPatch(c) \/ DropPatch(c)
         \/ \E c \in Calls, o \in Outcomes : CloseCall(c, o)
         \/ AbandonCalls
         \/ UNCHANGED callVars
  PROVE  CallTypeOK'
<1> USE DEF CallTypeOK, CallRecord, Outcomes
<1>1. ASSUME NEW c \in Calls, NEW b \in BOOLEAN, OpenCall(c, b)
      PROVE  CallTypeOK'
  BY <1>1 DEF OpenCall, NewCall
<1>2. ASSUME NEW c \in Calls, SendPatch(c) PROVE CallTypeOK'
  <2>1. call[c].sent + 1 \in 0 .. Attempts /\ call[c].wire + 1 \in 0 .. Attempts
    BY <1>2 DEF SendPatch
  <2> QED BY <1>2, <2>1 DEF SendPatch
<1>3. ASSUME NEW c \in Calls, ApplyPatch(c) PROVE CallTypeOK'
  BY <1>3 DEF ApplyPatch
<1>4. ASSUME NEW c \in Calls, DropPatch(c) PROVE CallTypeOK'
  BY <1>4 DEF DropPatch
<1>5. ASSUME NEW c \in Calls, NEW o \in Outcomes, CloseCall(c, o) PROVE CallTypeOK'
  BY <1>5 DEF CloseCall
<1>6. CASE AbandonCalls
  BY <1>6 DEF AbandonCalls
<1>7. CASE UNCHANGED callVars
  BY <1>7 DEF callVars
<1> QED BY <1>1, <1>2, <1>3, <1>4, <1>5, <1>6, <1>7

(* Whoever awaits Auth0 or records is at a user.                           *)
LEMMA AtUser ==
  ASSUME TypeOK, NEW r \in Callers, pc[r] \in Recording \cup {"await"}
  PROVE  user[r] \in Users /\ <<r, user[r]>> \in Calls
BY DEF TypeOK, Calls

(* A note made by hand touches the ledger and nothing else.                *)
LEMMA NoteStep ==
  ASSUME NEW v \in Users, LogFreezeNote(v)
  PROVE  UNCHANGED <<callVars, blocked, call, handlerVars, pc, route, user, todo, reported,
                     registry, freezeLog, flagged, crashes, disturbed, torn>>
BY DEF LogFreezeNote, callVars, handlerVars

(* The initial state has its types.                                        *)
LEMMA TypeInit == Init => TypeOK
<1> SUFFICES ASSUME Init PROVE TypeOK
  OBVIOUS
<1>1. CallTypeOK
  BY DEF Init, CallInit, CallTypeOK, CallRecord, NewCall
<1>2. noted \in [Users -> 0 .. MaxNotes]
  BY NotesAssumption DEF Init
<1> QED BY <1>1, <1>2 DEF Init, TypeOK, Positions, Recording, Running, Final

(* So has every next state.                                                *)
LEMMA TypeNext == TypeOK /\ [Next]_vars => TypeOK'
<1> SUFFICES ASSUME TypeOK, [Next]_vars PROVE TypeOK'
  OBVIOUS
<1> USE DEF Recording, Running, Final, Positions
<1>0. CallTypeOK
  BY DEF TypeOK
<1>1. ASSUME NEW r \in Callers, NEW k, NEW S \in SUBSET Users, Start(r, k, S),
             flagged' \subseteq Users
      PROVE  TypeOK'
  <2>1. CallTypeOK'
    BY <1>0, <1>1, CallStepsTyped DEF Start
  <2>2. k \in ManualRoutes \cup SweepRoutes
    BY <1>1 DEF Start
  <2> QED BY <1>1, <2>1, <2>2 DEF TypeOK, Start
<1>2. ASSUME NEW r \in Callers, NEW u \in Users, CallAuth0(r, u)
      PROVE  TypeOK'
  <2>1. <<r, u>> \in Calls /\ Blocks(route[r]) \in BOOLEAN
    BY DEF Calls, Blocks
  <2>2. CallTypeOK'
    BY <1>0, <1>2, <2>1, CallStepsTyped DEF CallAuth0
  <2> QED BY <1>2, <2>2 DEF TypeOK, CallAuth0, storeVars
<1>4. ASSUME NEW r \in Callers, Send(r) PROVE TypeOK'
  <2>1. CallTypeOK'
    BY <1>0, <1>4, AtUser, CallStepsTyped DEF Send
  <2> QED BY <1>4, <2>1 DEF TypeOK, Send, storeVars, handlerVars
<1>5. ASSUME NEW c \in Calls, Apply(c) \/ Drop(c) PROVE TypeOK'
  <2>1. CallTypeOK'
    BY <1>0, <1>5, CallStepsTyped DEF Apply, Drop
  <2> QED BY <1>5, <2>1 DEF TypeOK, Apply, Drop, storeVars, handlerVars
<1>6. ASSUME NEW r \in Callers, NEW o \in Outcomes, Return(r, o) PROVE TypeOK'
  <2>1. user[r] \in Users /\ <<r, user[r]>> \in Calls
    BY <1>6, AtUser DEF Return
  <2>2. CallTypeOK'
    BY <1>0, <1>6, <2>1, CallStepsTyped DEF Return
  <2>3. IF Proceeds(route[r], o) THEN AfterCall(route[r], o) \in Recording
                                 ELSE AfterCall(route[r], o) \in {"error", "pick"}
    BY DEF AfterCall, FirstStep
  <2> QED BY <1>6, <2>1, <2>2, <2>3 DEF TypeOK, Return, storeVars
<1>7. ASSUME NEW r \in Callers, Log(r) \/ Mark(r) \/ Chain(r) \/ Clear(r)
      PROVE  TypeOK'
  <2>1. user[r] \in Users /\ pc[r] \in Recording
    BY <1>7, AtUser DEF Log, Mark, Chain, Clear, StepTaken
  <2>2. CallTypeOK'
    BY <1>0, <1>7, CallStepsTyped DEF Log, Mark, Chain, Clear, StepTaken
  <2>3. \A step \in Recording : NextStep(route[r], step) \in Recording \cup {"pick"}
    BY DEF NextStep
  <2>4. ASSUME StepTaken(r, pc[r])
        PROVE  /\ pc' \in [Callers -> Positions]
               /\ route' = route /\ todo' = todo /\ crashes' = crashes
               /\ disturbed' = disturbed /\ noted' = noted
               /\ user' \in [Callers -> Users \cup {NoUser}]
               /\ reported' \in [Callers -> SUBSET Users]
               /\ \A q \in Callers :
                    user'[q] # NoUser <=> pc'[q] \in Recording \cup {"await"}
    <3>1. NextStep(route[r], pc[r]) \in Recording \cup {"pick"}
      BY <2>1, <2>3
    <3>2. pc' = [pc EXCEPT ![r] = NextStep(route[r], pc[r])]
      BY <2>4 DEF StepTaken
    <3>3. CASE NextStep(route[r], pc[r]) = "pick"
      <4>1. /\ user' = [user EXCEPT ![r] = NoUser]
            /\ reported' = [reported EXCEPT ![r] = @ \cup {user[r]}]
            /\ UNCHANGED <<route, todo, noted, crashes, disturbed>>
        BY <2>4, <3>3 DEF StepTaken
      <4>2. reported' \in [Callers -> SUBSET Users]
        BY <2>1, <4>1 DEF TypeOK
      <4> QED BY <2>1, <3>2, <3>3, <4>1, <4>2 DEF TypeOK
    <3>4. CASE NextStep(route[r], pc[r]) \in Recording
      BY <2>1, <2>4, <3>2, <3>4 DEF StepTaken, TypeOK
    <3> QED BY <3>1, <3>3, <3>4
  <2>5. StepTaken(r, pc[r])
    BY <1>7 DEF Log, Mark, Chain, Clear, StepTaken
  <2>6. CASE Log(r)
    <3>1. freezeLog' \in [Users -> Seq({"freeze", "unfreeze"})]
      BY <2>1, <2>6 DEF Log, ActionOf, TypeOK
    <3> QED BY <2>2, <2>4, <2>5, <2>6, <3>1 DEF Log, TypeOK
  <2>7. CASE Mark(r)
    <3>1. registry' \in [Users -> {"none", "frozen", "unfrozen"}]
      BY <2>1, <2>7 DEF Mark, Marked, TypeOK
    <3> QED BY <2>2, <2>4, <2>5, <2>7, <3>1 DEF Mark, TypeOK
  <2>8. CASE Chain(r)
    <3>2. chain \in [Users -> Nat] /\ user[r] \in Users
      BY <2>1 DEF TypeOK
    <3>3. chain' = chain \/ chain' = [chain EXCEPT ![user[r]] = @ + 1]
      BY <2>8 DEF Chain, WriteNote
    <3>1. chain' \in [Users -> Nat]
      BY <3>2, <3>3
    <3> QED BY <2>2, <2>4, <2>5, <2>8, <3>1 DEF Chain, TypeOK
  <2>9. CASE Clear(r)
    BY <2>2, <2>4, <2>5, <2>9 DEF Clear, TypeOK
  <2> QED BY <1>7, <2>6, <2>7, <2>8, <2>9
<1>8. ASSUME NEW r \in Callers, Finish(r) PROVE TypeOK'
  <2>1. CallTypeOK'
    BY <1>0, <1>8, CallStepsTyped DEF Finish
  <2> QED BY <1>8, <2>1 DEF TypeOK, Finish, storeVars
<1>9. CASE Crash
  <2>1. CallTypeOK'
    BY <1>0, <1>9, CallStepsTyped DEF Crash
  <2>2. crashes' \in 0 .. MaxCrashes
    BY <1>9 DEF Crash, TypeOK
  <2> QED BY <1>9, <2>1, <2>2 DEF TypeOK, Crash, InProgress, storeVars
<1>10. CASE UNCHANGED vars
  <2>1. CallTypeOK'
    BY <1>0, <1>10, CallStepsTyped DEF vars
  <2> QED BY <1>10, <2>1 DEF TypeOK, vars, storeVars, handlerVars
<1>11. ASSUME NEW r \in Callers, Arrive(r) PROVE TypeOK'
  <2>1. CASE \E k \in ManualRoutes, u \in Users : ArriveManual(r, k, u)
    BY <1>1, <2>1 DEF ArriveManual, TypeOK
  <2>2. CASE \E k \in SweepRoutes : \E S \in SUBSET Users : \E F \in SUBSET S :
               ArriveSweep(r, k, F, S)
    BY <1>1, <2>2 DEF ArriveSweep, TypeOK
  <2> QED BY <1>11, <2>1, <2>2 DEF Arrive
<1>12. ASSUME NEW v \in Users, LogFreezeNote(v) PROVE TypeOK'
  <2>1. chain' \in [Users -> Nat]
    BY <1>12 DEF LogFreezeNote, WriteNote, TypeOK
  <2>2. noted' \in [Users -> 0 .. MaxNotes]
    BY <1>12, NotesAssumption DEF LogFreezeNote, TypeOK
  <2>3. CallTypeOK'
    BY <1>0, <1>12, CallStepsTyped DEF LogFreezeNote
  <2> QED BY <1>12, <2>1, <2>2, <2>3, NoteStep DEF TypeOK
<1> QED
  BY <1>2, <1>4, <1>5, <1>6, <1>7, <1>8, <1>9, <1>10, <1>11, <1>12
     DEF Next, Step, Answer, Auth0Acts, AllAnswered

(* TypeOK holds in every state, whatever the requests, faults and bounds:  *)
(* no handler loses its user and no copy of a PATCH is applied twice.      *)
THEOREM TypeCorrect == Spec => []TypeOK
<1>1. Init => TypeOK
  BY TypeInit
<1>2. TypeOK /\ [Next]_vars => TypeOK'
  BY TypeNext
<1> QED BY <1>1, <1>2, PTL DEF Spec

-----------------------------------------------------------------------------
(* One handler at a time, one call per handler.                            *)

Writes(r) == Log(r) \/ Mark(r) \/ Chain(r) \/ Clear(r)

(* What a write does to the positions and to nothing else of the handlers. *)
LEMMA WriteStep ==
  ASSUME TypeOK, NEW r \in Callers, Writes(r)
  PROVE  /\ pc[r] \in Recording
         /\ pc' = [pc EXCEPT ![r] = NextStep(route[r], pc[r])]
         /\ NextStep(route[r], pc[r]) \in Recording \cup {"pick"}
         /\ \A q \in Callers \ {r} : pc'[q] = pc[q] /\ user'[q] = user[q]
         /\ NextStep(route[r], pc[r]) # "pick" => user'[r] = user[r]
         /\ NextStep(route[r], pc[r]) = "pick" => user'[r] = NoUser
         /\ UNCHANGED <<call, blocked, route, todo, noted, crashes, disturbed>>
<1>1. pc[r] \in Recording /\ StepTaken(r, pc[r])
  BY DEF Writes, Log, Mark, Chain, Clear, StepTaken, Recording
<1>2. \A step \in Recording : NextStep(route[r], step) \in Recording \cup {"pick"}
  BY DEF NextStep, Recording
<1>3. /\ pc' = [pc EXCEPT ![r] = NextStep(route[r], pc[r])]
      /\ UNCHANGED <<call, blocked, route, todo, noted, crashes, disturbed>>
  BY <1>1 DEF StepTaken, callVars
<1>4. CASE NextStep(route[r], pc[r]) = "pick"
  <2>1. user' = [user EXCEPT ![r] = NoUser]
    BY <1>1, <1>4 DEF StepTaken
  <2> QED BY <1>1, <1>3, <1>4, <2>1 DEF TypeOK
<1>5. CASE NextStep(route[r], pc[r]) \in Recording
  <2>1. user' = user
    BY <1>1, <1>5 DEF StepTaken, Recording
  <2> QED BY <1>1, <1>3, <1>5, <2>1 DEF TypeOK, Recording
<1> QED BY <1>1, <1>2, <1>4, <1>5

(* The event loop runs one handler at a time: every handler that enters    *)
(* the loop finds it free.                                                 *)
LEMMA LoopNext == TypeOK /\ LoopExclusive /\ [Next]_vars => LoopExclusive'
<1> SUFFICES ASSUME TypeOK, LoopExclusive, [Next]_vars PROVE LoopExclusive'
  OBVIOUS
<1> USE DEF LoopExclusive, Running, Recording, TypeOK
<1>1. ASSUME NEW r \in Callers, Arrive(r) PROVE LoopExclusive'
  <2>1. LoopFree /\ pc' = [pc EXCEPT ![r] = "pick"]
    BY <1>1 DEF Arrive, ArriveManual, ArriveSweep, Start
  <2> QED BY <2>1 DEF LoopFree
<1>2. ASSUME NEW r \in Callers, NEW u \in Users, CallAuth0(r, u)
      PROVE  LoopExclusive'
  BY <1>2 DEF CallAuth0
<1>3. ASSUME NEW r \in Callers, Writes(r) PROVE LoopExclusive'
  BY <1>3, WriteStep
<1>4. ASSUME NEW r \in Callers, Finish(r) PROVE LoopExclusive'
  BY <1>4 DEF Finish
<1>5. ASSUME NEW r \in Callers, NEW o \in Outcomes, Return(r, o)
      PROVE  LoopExclusive'
  <2>1. LoopFree /\ pc' = [pc EXCEPT ![r] = AfterCall(route[r], o)]
    BY <1>5 DEF Return
  <2> QED BY <2>1 DEF LoopFree
<1>6. ASSUME UNCHANGED pc PROVE LoopExclusive'
  BY <1>6
<1>7. CASE Crash
  BY <1>7 DEF Crash, InProgress
<1>8. ASSUME NEW v \in Users, LogFreezeNote(v) PROVE LoopExclusive'
  BY <1>6, <1>8, NoteStep
<1> QED
  BY <1>1, <1>2, <1>3, <1>4, <1>5, <1>6, <1>7, <1>8
     DEF Next, Step, Answer, Auth0Acts, AllAnswered, Send, Apply, Drop, vars,
         handlerVars, Writes

(* A copy that is sent, applied or lost changes no status and no intention.*)
LEMMA WireStep ==
  ASSUME TypeOK, NEW c \in Calls, SendPatch(c) \/ ApplyPatch(c) \/ DropPatch(c)
  PROVE  \A d \in Calls :
           /\ call'[d].status = call[d].status
           /\ call'[d].block = call[d].block
           /\ call[d].status # "open" => call'[d].wire <= call[d].wire
<1>1. call \in [Calls -> CallRecord]
  BY DEF TypeOK, CallTypeOK
<1> QED BY <1>1 DEF SendPatch, ApplyPatch, DropPatch, CallRecord

(* A copy that is sent or lost is not applied.                             *)
LEMMA NothingApplied ==
  ASSUME TypeOK, NEW c \in Calls, SendPatch(c) \/ DropPatch(c)
  PROVE  \A r \in Callers, u \in Users :
           call'[<<r, u>>].applied = call[<<r, u>>].applied
<1>1. call \in [Calls -> CallRecord]
  BY DEF TypeOK, CallTypeOK
<1>2. \A d \in Calls : call'[d].applied = call[d].applied
  BY <1>1 DEF SendPatch, DropPatch, CallRecord
<1> QED BY <1>2 DEF Calls

(* A crash closes the open calls and leaves their copies on the wire.      *)
LEMMA AbandonStep ==
  ASSUME TypeOK, AbandonCalls
  PROVE  \A r \in Callers, u \in Users :
           /\ call'[<<r, u>>].status # "open"
           /\ call'[<<r, u>>].status = "idle" => call[<<r, u>>].status = "idle"
           /\ call[<<r, u>>].status = "idle" => call'[<<r, u>>].status = "idle"
           /\ call'[<<r, u>>].wire = call[<<r, u>>].wire
<1> SUFFICES ASSUME NEW r \in Callers, NEW u \in Users
             PROVE  /\ call'[<<r, u>>].status # "open"
                    /\ call'[<<r, u>>].status = "idle" => call[<<r, u>>].status = "idle"
                    /\ call[<<r, u>>].status = "idle" => call'[<<r, u>>].status = "idle"
                    /\ call'[<<r, u>>].wire = call[<<r, u>>].wire
  OBVIOUS
<1>1. <<r, u>> \in Calls /\ call[<<r, u>>] \in CallRecord
  BY DEF Calls, TypeOK, CallTypeOK
<1>2. CASE call[<<r, u>>].status = "open"
  <2>1. call'[<<r, u>>] = [call[<<r, u>>] EXCEPT !.status = "raised"]
    BY <1>1, <1>2 DEF AbandonCalls
  <2> QED BY <1>1, <1>2, <2>1 DEF CallRecord
<1>3. CASE call[<<r, u>>].status # "open"
  <2>1. call'[<<r, u>>] = call[<<r, u>>]
    BY <1>1, <1>3 DEF AbandonCalls
  <2> QED BY <1>3, <2>1
<1> QED BY <1>2, <1>3

(* A call is open exactly while its handler awaits it.                     *)
LEMMA CallsNext ==
  TypeOK /\ CallsFollowHandlers /\ [Next]_vars => CallsFollowHandlers'
<1> SUFFICES ASSUME TypeOK, CallsFollowHandlers, [Next]_vars
             PROVE  CallsFollowHandlers'
  OBVIOUS
<1> USE DEF CallsFollowHandlers, Blocks
<1>0. /\ call \in [Calls -> CallRecord]
      /\ \A q \in Callers, v \in Users : <<q, v>> \in Calls
  BY DEF TypeOK, CallTypeOK, Calls
<1>1. ASSUME NEW r \in Callers, Arrive(r) PROVE CallsFollowHandlers'
  <2>1. PICK S \in SUBSET Users :
          /\ pc[r] = "new" /\ pc' = [pc EXCEPT ![r] = "pick"]
          /\ todo' = [todo EXCEPT ![r] = S]
          /\ \E k : route' = [route EXCEPT ![r] = k]
          /\ UNCHANGED <<call, user>>
    BY <1>1 DEF Arrive, ArriveManual, ArriveSweep, Start, callVars
  <2> USE <2>1 DEF TypeOK
  <2>2. OpenIsAwaited'    BY DEF OpenIsAwaited
  <2>3. AwaitedIsOpen'    BY DEF AwaitedIsOpen
  <2>4. CallAsksForRoute' BY DEF CallAsksForRoute, OpenIsAwaited
  <2>5. CalledInTurn'     BY DEF CalledInTurn
  <2>6. IdleIsSilent'     BY DEF IdleIsSilent
  <2> QED BY <2>2, <2>3, <2>4, <2>5, <2>6
<1>2. ASSUME NEW r \in Callers, NEW u \in Users, CallAuth0(r, u)
      PROVE  CallsFollowHandlers'
  <2> USE <1>0, <1>2 DEF CallAuth0, OpenCall, NewCall, TypeOK
  <2>2. OpenIsAwaited'    BY DEF OpenIsAwaited
  <2>3. AwaitedIsOpen'    BY DEF AwaitedIsOpen
  <2>4. CallAsksForRoute' BY DEF CallAsksForRoute
  <2>5. CalledInTurn'     BY DEF CalledInTurn
  <2>6. IdleIsSilent'     BY DEF IdleIsSilent
  <2> QED BY <2>2, <2>3, <2>4, <2>5, <2>6
<1>3. ASSUME NEW r \in Callers, pc[r] \notin {"new", "await"},
             pc'[r] \notin {"new", "await"},
             \A q \in Callers \ {r} : pc'[q] = pc[q] /\ user'[q] = user[q],
             \A q \in Callers : todo'[q] \subseteq todo[q],
             UNCHANGED <<call, route>>
      PROVE  CallsFollowHandlers'
  <2> USE <1>3
  <2>2. OpenIsAwaited'    BY DEF OpenIsAwaited
  <2>3. AwaitedIsOpen'    BY DEF AwaitedIsOpen
  <2>4. CallAsksForRoute' BY DEF CallAsksForRoute
  <2>5. CalledInTurn'     BY DEF CalledInTurn
  <2>6. IdleIsSilent'     BY DEF IdleIsSilent
  <2> QED BY <2>2, <2>3, <2>4, <2>5, <2>6
<1>5. ASSUME NEW c \in Calls, SendPatch(c) \/ ApplyPatch(c) \/ DropPatch(c),
             UNCHANGED handlerVars
      PROVE  CallsFollowHandlers'
  <2>1. \A q \in Callers, v \in Users :
          /\ call'[<<q, v>>].status = call[<<q, v>>].status
          /\ call'[<<q, v>>].block = call[<<q, v>>].block
          /\ call[<<q, v>>].status # "open"
               => call'[<<q, v>>].wire <= call[<<q, v>>].wire
    BY <1>0, <1>5, WireStep
  <2>0. CallTypeOK'
    BY <1>5, CallStepsTyped DEF TypeOK
  <2> USE <1>5, <2>1 DEF handlerVars
  <2>2. OpenIsAwaited'    BY DEF OpenIsAwaited
  <2>3. AwaitedIsOpen'    BY DEF AwaitedIsOpen
  <2>4. CallAsksForRoute' BY DEF CallAsksForRoute
  <2>5. CalledInTurn'     BY DEF CalledInTurn
  <2>6. IdleIsSilent'
    BY <1>0, <2>0 DEF IdleIsSilent, CallTypeOK, CallRecord
  <2> QED BY <2>2, <2>3, <2>4, <2>5, <2>6
<1>6. ASSUME NEW r \in Callers, NEW o \in Outcomes, Return(r, o)
      PROVE  CallsFollowHandlers'
  <2>1. user[r] \in Users /\ <<r, user[r]>> \in Calls
    BY <1>6, AtUser DEF Return
  <2>2. AfterCall(route[r], o) \notin {"await", "new"}
    BY DEF AfterCall, FirstStep
  <2>3. o \notin {"idle", "open"}
    BY DEF Outcomes
  <2>4. call[<<r, user[r]>>].status = "open" /\ call'[<<r, user[r]>>].status = o
    BY <1>0, <1>6, <2>1 DEF Return, CloseCall, CallRecord
  <2>5. \A q \in Callers, v \in Users :
          q # r \/ v # user[r] => call'[<<q, v>>] = call[<<q, v>>]
    BY <1>0, <1>6, <2>1 DEF Return, CloseCall
  <2>6. \A q \in Callers, v \in Users : call'[<<q, v>>].wire = call[<<q, v>>].wire
    BY <1>0, <1>6, <2>1 DEF Return, CloseCall, CallRecord
  <2>7. /\ pc[r] = "await" /\ pc'[r] \notin {"await", "new"}
        /\ \A q \in Callers \ {r} : pc'[q] = pc[q] /\ user'[q] = user[q]
        /\ \A q \in Callers : todo'[q] \subseteq todo[q]
        /\ route' = route
    BY <1>6, <2>2 DEF Return, TypeOK
  <2>8. OpenIsAwaited'
    BY <2>3, <2>4, <2>5, <2>7 DEF OpenIsAwaited
  <2>9. AwaitedIsOpen'
    BY <2>5, <2>7 DEF AwaitedIsOpen
  <2>10. CallAsksForRoute'
    BY <2>3, <2>4, <2>5, <2>7 DEF CallAsksForRoute
  <2>11. CalledInTurn'
    BY <2>4, <2>5, <2>7 DEF CalledInTurn
  <2>12. IdleIsSilent'
    BY <2>3, <2>4, <2>5 DEF IdleIsSilent
  <2> QED BY <2>8, <2>9, <2>10, <2>11, <2>12
<1>7. ASSUME NEW r \in Callers, Writes(r) PROVE CallsFollowHandlers'
  <2>1. /\ pc[r] \in Recording
        /\ pc' = [pc EXCEPT ![r] = NextStep(route[r], pc[r])]
        /\ NextStep(route[r], pc[r]) \in Recording \cup {"pick"}
        /\ \A q \in Callers \ {r} : pc'[q] = pc[q] /\ user'[q] = user[q]
        /\ UNCHANGED <<call, route, todo>>
    BY <1>7, WriteStep
  <2> QED BY <1>3, <2>1 DEF Recording, TypeOK
<1>8. ASSUME NEW r \in Callers, Finish(r) PROVE CallsFollowHandlers'
  BY <1>3, <1>8 DEF Finish, TypeOK, callVars
<1>9. CASE Crash
  <2>0. AbandonCalls
    BY <1>9 DEF Crash
  <2>1. \A q \in Callers, v \in Users :
          /\ call'[<<q, v>>].status # "open"
          /\ call'[<<q, v>>].status = "idle" => call[<<q, v>>].status = "idle"
          /\ call[<<q, v>>].status = "idle" => call'[<<q, v>>].status = "idle"
          /\ call'[<<q, v>>].wire = call[<<q, v>>].wire
    BY <2>0, AbandonStep
  <2>2. \A q \in Callers : /\ pc'[q] # "await" /\ todo'[q] = {}
                           /\ pc'[q] = "new" => pc[q] = "new"
    BY <1>9 DEF Crash, InProgress, TypeOK
  <2>3. OpenIsAwaited'    BY <2>1 DEF OpenIsAwaited
  <2>4. AwaitedIsOpen'    BY <2>2 DEF AwaitedIsOpen
  <2>5. CallAsksForRoute' BY <2>1 DEF CallAsksForRoute
  <2>6. CalledInTurn'     BY <2>1, <2>2 DEF CalledInTurn
  <2>7. IdleIsSilent'     BY <2>1 DEF IdleIsSilent
  <2> QED BY <2>3, <2>4, <2>5, <2>6, <2>7
<1>10. CASE UNCHANGED <<call, handlerVars>>
  <2> USE <1>10 DEF handlerVars
  <2>2. OpenIsAwaited'    BY DEF OpenIsAwaited
  <2>3. AwaitedIsOpen'    BY DEF AwaitedIsOpen
  <2>4. CallAsksForRoute' BY DEF CallAsksForRoute
  <2>5. CalledInTurn'     BY DEF CalledInTurn
  <2>6. IdleIsSilent'     BY DEF IdleIsSilent
  <2> QED BY <2>2, <2>3, <2>4, <2>5, <2>6
<1>11. ASSUME NEW r \in Callers, Send(r) PROVE CallsFollowHandlers'
  BY <1>5, <1>11, AtUser DEF Send
<1>12. ASSUME NEW c \in Calls, Apply(c) \/ Drop(c) PROVE CallsFollowHandlers'
  BY <1>5, <1>12 DEF Apply, Drop
<1>13. CASE UNCHANGED vars
  BY <1>10, <1>13 DEF vars, callVars
<1>14. ASSUME NEW v \in Users, LogFreezeNote(v) PROVE CallsFollowHandlers'
  BY <1>10, <1>14, NoteStep
<1> QED
  BY <1>1, <1>2, <1>6, <1>7, <1>8, <1>9, <1>11, <1>12, <1>13, <1>14
     DEF Next, Step, Answer, Auth0Acts, AllAnswered, Writes

-----------------------------------------------------------------------------
(* The log and the registry.                                               *)

(* A step that leaves log and registry alone, and every handler that is    *)
(* between the two writes where it is, or kills it and remembers the user. *)
LogFrame ==
  /\ UNCHANGED <<freezeLog, registry>>
  /\ torn \subseteq torn'
  /\ \A r \in Callers :
       pc'[r] = "mark" => pc[r] = "mark" /\ user'[r] = user[r] /\ route'[r] = route[r]
  /\ \A r \in Callers :
       pc[r] = "mark" => \/ pc'[r] = "mark" /\ user'[r] = user[r]
                         \/ user[r] \in torn'

(* Every step but the two writes is of that kind.                          *)
LEMMA OnlyTwoWrites ==
  ASSUME TypeOK, [Next]_vars
  PROVE  LogFrame \/ (\E r \in Callers : Log(r)) \/ (\E r \in Callers : Mark(r))
<1> USE DEF TypeOK
<1>1. ASSUME NEW r \in Callers, Arrive(r) PROVE LogFrame
  <2>1. /\ pc[r] = "new" /\ pc' = [pc EXCEPT ![r] = "pick"]
        /\ \E k : route' = [route EXCEPT ![r] = k]
        /\ UNCHANGED <<user, freezeLog, registry, torn>>
    BY <1>1 DEF Arrive, ArriveManual, ArriveSweep, Start
  <2> QED BY <2>1 DEF LogFrame
<1>2. ASSUME NEW r \in Callers, NEW u \in Users, CallAuth0(r, u)
      PROVE  LogFrame
  <2>1. FirstStep(route[r]) # "mark"
    BY DEF FirstStep
  <2> QED BY <1>2, <2>1 DEF CallAuth0, LogFrame, storeVars
<1>3. ASSUME NEW r \in Callers, NEW o \in Outcomes, Return(r, o) PROVE LogFrame
  <2>1. AfterCall(route[r], o) # "mark"
    BY DEF AfterCall, FirstStep
  <2>2. /\ pc[r] = "await" /\ pc' = [pc EXCEPT ![r] = AfterCall(route[r], o)]
        /\ \A q \in Callers \ {r} : user'[q] = user[q]
        /\ UNCHANGED <<route, freezeLog, registry, torn>>
    BY <1>3 DEF Return, storeVars
  <2> QED BY <2>1, <2>2 DEF LogFrame
<1>4. ASSUME NEW r \in Callers, Chain(r) \/ Clear(r) PROVE LogFrame
  <2>1. /\ pc[r] \in {"chain", "clear"}
        /\ UNCHANGED <<freezeLog, registry, torn>>
    BY <1>4 DEF Chain, Clear, StepTaken
  <2>2. NextStep(route[r], pc[r]) # "mark"
    BY <2>1 DEF NextStep
  <2>3. /\ pc' = [pc EXCEPT ![r] = NextStep(route[r], pc[r])]
        /\ \A q \in Callers \ {r} : pc'[q] = pc[q] /\ user'[q] = user[q]
        /\ route' = route
    BY <1>4, WriteStep DEF Writes
  <2> QED BY <2>1, <2>2, <2>3 DEF LogFrame
<1>5. ASSUME NEW r \in Callers, Finish(r) PROVE LogFrame
  BY <1>5 DEF Finish, LogFrame, storeVars
<1>6. CASE Crash
  <2>1. \A r \in Callers : pc'[r] # "mark"
    BY <1>6 DEF Crash, InProgress, Running, Recording
  <2>2. \A r \in Callers : pc[r] = "mark" => user[r] \in torn'
    BY <1>6, AtUser DEF Crash, Recording
  <2> QED BY <1>6, <2>1, <2>2 DEF Crash, LogFrame, storeVars
<1>7. ASSUME UNCHANGED <<handlerVars, storeVars, torn>> PROVE LogFrame
  BY <1>7 DEF LogFrame, handlerVars, storeVars
<1>8. ASSUME NEW v \in Users, LogFreezeNote(v) PROVE LogFrame
  BY <1>8, NoteStep DEF LogFrame
<1> QED
  BY <1>1, <1>2, <1>3, <1>4, <1>5, <1>6, <1>7, <1>8
     DEF Next, Step, Answer, Auth0Acts, AllAnswered, Send, Apply, Drop, vars

(* Appending an action makes it the last.                                  *)
LEMMA LastAppended ==
  ASSUME NEW S, NEW s \in Seq(S), NEW e \in S
  PROVE  Append(s, e) # <<>> /\ Last(Append(s, e)) = e
BY DEF Last

(* The log entry of a handler that is about to mark is the last one: no    *)
(* other handler logs in between, because it would need the event loop.    *)
LEMMA MarkFollowsLogNext ==
  TypeOK /\ LoopExclusive /\ MarkFollowsLog /\ [Next]_vars => MarkFollowsLog'
<1> SUFFICES ASSUME TypeOK, LoopExclusive, MarkFollowsLog, [Next]_vars
             PROVE  MarkFollowsLog'
  OBVIOUS
<1> USE DEF ActionOf, Blocks
<1>1. CASE LogFrame
  BY <1>1 DEF LogFrame, MarkFollowsLog
<1>2. ASSUME NEW r \in Callers, Log(r) PROVE MarkFollowsLog'
  <2>1. /\ pc[r] = "log" /\ user[r] \in Users /\ route' = route
        /\ freezeLog' = [freezeLog EXCEPT ![user[r]] = Append(@, ActionOf(route[r]))]
        /\ \A q \in Callers \ {r} : pc'[q] = pc[q] /\ user'[q] = user[q]
    BY <1>2, AtUser, WriteStep DEF Log, StepTaken, Writes, Recording
  <2>2. user'[r] = user[r]
    BY <1>2, WriteStep, <2>1 DEF NextStep, Writes
  <2>3. \A q \in Callers \ {r} : pc[q] # "mark"
    BY <2>1 DEF LoopExclusive, Running, Recording
  <2>4. /\ freezeLog'[user[r]] # <<>>
        /\ Last(freezeLog'[user[r]]) = ActionOf(route[r])
    <3>1. freezeLog \in [Users -> Seq({"freeze", "unfreeze"})]
      BY DEF TypeOK
    <3>2. /\ freezeLog'[user[r]] = Append(freezeLog[user[r]], ActionOf(route[r]))
          /\ freezeLog[user[r]] \in Seq({"freeze", "unfreeze"})
          /\ ActionOf(route[r]) \in {"freeze", "unfreeze"}
      BY <2>1, <3>1
    <3> QED BY <3>2, LastAppended
  <2> QED BY <2>1, <2>2, <2>3, <2>4 DEF MarkFollowsLog
<1>3. ASSUME NEW r \in Callers, Mark(r) PROVE MarkFollowsLog'
  <2>1. /\ pc[r] = "mark" /\ route' = route /\ freezeLog' = freezeLog
        /\ pc' = [pc EXCEPT ![r] = NextStep(route[r], "mark")]
        /\ \A q \in Callers \ {r} : pc'[q] = pc[q] /\ user'[q] = user[q]
    BY <1>3, WriteStep DEF Mark, StepTaken, Writes
  <2>2. pc'[r] # "mark"
    BY <2>1 DEF NextStep, TypeOK
  <2> QED BY <2>1, <2>2 DEF MarkFollowsLog
<1> QED BY <1>1, <1>2, <1>3, OnlyTwoWrites

(* Log and registry agree again after the second write.                    *)
LEMMA LogMatchesRegistryNext ==
  TypeOK /\ MarkFollowsLog /\ LogMatchesRegistry /\ [Next]_vars
    => LogMatchesRegistry'
<1> SUFFICES ASSUME TypeOK, MarkFollowsLog, LogMatchesRegistry, [Next]_vars,
                    NEW u \in Users, u \notin torn',
                    \A r \in Callers : ~(pc'[r] = "mark" /\ user'[r] = u)
             PROVE  RegistryFrozen(u)' <=> LoggedFrozen(u)'
  BY DEF LogMatchesRegistry
<1> USE DEF RegistryFrozen, LoggedFrozen
<1>1. CASE LogFrame
  <2>1. \A r \in Callers : ~(pc[r] = "mark" /\ user[r] = u)
    BY <1>1 DEF LogFrame
  <2> QED BY <1>1, <2>1 DEF LogFrame, LogMatchesRegistry
<1>2. ASSUME NEW r \in Callers, Log(r)
      PROVE  RegistryFrozen(u)' <=> LoggedFrozen(u)'
  <2>1. /\ pc[r] = "log" /\ UNCHANGED <<registry, torn>>
        /\ freezeLog' = [freezeLog EXCEPT ![user[r]] = Append(@, ActionOf(route[r]))]
        /\ \A q \in Callers \ {r} : pc'[q] = pc[q] /\ user'[q] = user[q]
    BY <1>2, WriteStep DEF Log, StepTaken, Writes
  <2>2. pc'[r] = "mark" /\ user'[r] = user[r]
    BY ZenonT(30), <1>2, WriteStep, <2>1 DEF NextStep, Writes, TypeOK
  <2>3. u # user[r] /\ freezeLog'[u] = freezeLog[u]
    BY <2>1, <2>2 DEF TypeOK
  <2>4. \A q \in Callers : ~(pc[q] = "mark" /\ user[q] = u)
    BY <2>1
  <2> QED BY <2>1, <2>3, <2>4 DEF LogMatchesRegistry
<1>3. ASSUME NEW r \in Callers, Mark(r)
      PROVE  RegistryFrozen(u)' <=> LoggedFrozen(u)'
  <2>1. /\ pc[r] = "mark" /\ user[r] \in Users /\ freezeLog' = freezeLog
        /\ registry' = [registry EXCEPT ![user[r]] = Marked(route[r], @)]
        /\ torn' = torn \ {user[r]}
        /\ \A q \in Callers \ {r} : pc'[q] = pc[q] /\ user'[q] = user[q]
    BY <1>3, AtUser, WriteStep DEF Mark, StepTaken, Writes, Recording
  <2>2. CASE u = user[r]
    BY <2>1, <2>2 DEF MarkFollowsLog, Marked, ActionOf, Blocks, TypeOK
  <2>3. CASE u # user[r]
    <3>1. \A q \in Callers : ~(pc[q] = "mark" /\ user[q] = u)
      BY <2>1, <2>3
    <3> QED BY <2>1, <2>3, <3>1 DEF LogMatchesRegistry, TypeOK
  <2> QED BY <2>2, <2>3
<1> QED BY <1>1, <1>2, <1>3, OnlyTwoWrites

-----------------------------------------------------------------------------
(* Auth0 and the registry.                                                 *)

(* A step that changes neither side for u, after which nobody is newly at  *)
(* work on u, and whoever stopped working on u had no copy applied.        *)
UserFrame(u) ==
  /\ blocked'[u] = blocked[u] /\ registry'[u] = registry[u]
  /\ \A r \in Callers :
       BusyOn(r, u)' => /\ BusyOn(r, u) /\ route'[r] = route[r]
                        /\ Unapplied(r, u) => Unapplied(r, u)'
                        /\ Unapplied(r, u)' => Unapplied(r, u)
  /\ \A r \in Callers : BusyOn(r, u) => BusyOn(r, u)' \/ Unapplied(r, u)

AgreementCore(u) == OneIntention(u) /\ BlockedAsIntended(u) /\ AgreedUntilApplied(u)

LEMMA FrameKeepsAgreement ==
  ASSUME NEW u \in Users, AgreementCore(u), UserFrame(u)
  PROVE  AgreementCore(u)'
<1>1. OneIntention(u)'
  BY DEF AgreementCore, OneIntention, UserFrame, Blocks
<1>2. BlockedAsIntended(u)'
  BY DEF AgreementCore, BlockedAsIntended, UserFrame, Blocks
<1>3. AgreedUntilApplied(u)'
  BY DEF AgreementCore, AgreedUntilApplied, UserFrame, RegistryFrozen
<1> QED BY <1>1, <1>2, <1>3 DEF AgreementCore

(* A call of Auth0 for u by a handler that finds nobody there with another *)
(* intention.                                                              *)
LEMMA CallKeepsAgreement ==
  ASSUME TypeOK, NEW r \in Callers, NEW u \in Users, CallAuth0(r, u),
         AgreementCore(u), u \notin disturbed'
  PROVE  AgreementCore(u)'
<1>1. /\ pc[r] = "pick" /\ pc' = [pc EXCEPT ![r] = "await"]
      /\ user' = [user EXCEPT ![r] = u]
      /\ ~Overlaps(r, u)
      /\ UNCHANGED <<route, registry, blocked>>
  BY DEF CallAuth0, OpenCall, storeVars
<1>2. <<r, u>> \in Calls /\ call' = [call EXCEPT ![<<r, u>>] = NewCall("open", Blocks(route[r]))]
  BY DEF CallAuth0, OpenCall, Calls
<1>3. Unapplied(r, u)' /\ BusyOn(r, u)' /\ ~BusyOn(r, u)
  BY <1>1, <1>2 DEF Unapplied, NewCall, BusyOn, BeforeMark, TypeOK, CallTypeOK
<1>4. \A q \in Callers \ {r} :
        /\ <<q, u>> \in Calls /\ call'[<<q, u>>] = call[<<q, u>>]
        /\ pc'[q] = pc[q] /\ user'[q] = user[q]
  BY <1>1, <1>2 DEF Calls, TypeOK, CallTypeOK
<1>5. \A q \in Callers \ {r} : /\ BusyOn(q, u)' <=> BusyOn(q, u)
                               /\ Unapplied(q, u)' <=> Unapplied(q, u)
  BY <1>1, <1>4 DEF BusyOn, BeforeMark, Unapplied
<1>6. OneIntention(u)'
  BY <1>1, <1>3, <1>5 DEF AgreementCore, OneIntention, Overlaps, Blocks
<1>7. BlockedAsIntended(u)'
  BY <1>1, <1>3, <1>5 DEF AgreementCore, BlockedAsIntended, Blocks
<1>8. AgreedUntilApplied(u)'
  BY <1>1, <1>3, <1>5 DEF AgreementCore, AgreedUntilApplied, RegistryFrozen
<1> QED BY <1>6, <1>7, <1>8 DEF AgreementCore

(* Auth0 applies a copy of a PATCH for u: its handler is still at work, and*)
(* everybody at work on u wants the same.                                  *)
LEMMA ApplyKeepsAgreement ==
  ASSUME TypeOK, CallsFollowHandlers, NEW r \in Callers, NEW u \in Users,
         Apply(<<r, u>>), AgreementCore(u), NoLateCopy(u)
  PROVE  AgreementCore(u)'
<1>1. /\ <<r, u>> \in Calls /\ call[<<r, u>>] \in CallRecord
      /\ call[<<r, u>>].wire > 0
      /\ call' = [call EXCEPT ![<<r, u>>].wire = @ - 1, ![<<r, u>>].applied = @ + 1]
      /\ blocked' = [blocked EXCEPT ![u] = call[<<r, u>>].block]
      /\ UNCHANGED <<pc, user, route, registry>>
  BY DEF Apply, ApplyPatch, Calls, TypeOK, CallTypeOK, handlerVars, storeVars
<1>2. call[<<r, u>>].status = "open"
  BY <1>1 DEF NoLateCopy
<1>3. BusyOn(r, u) /\ (call[<<r, u>>].block <=> Blocks(route[r]))
  BY <1>2 DEF CallsFollowHandlers, OpenIsAwaited, CallAsksForRoute, BusyOn, BeforeMark
<1>4. call'[<<r, u>>].applied > 0
  BY <1>1 DEF TypeOK, CallTypeOK, CallRecord
<1>5. \A q \in Callers \ {r} : call'[<<q, u>>] = call[<<q, u>>]
  BY <1>1 DEF Calls, TypeOK, CallTypeOK
<1>6. \A q \in Callers : BusyOn(q, u)' <=> BusyOn(q, u)
  BY <1>1 DEF BusyOn, BeforeMark
<1>7. OneIntention(u)'
  BY <1>1, <1>6 DEF AgreementCore, OneIntention, Blocks
<1>8. BlockedAsIntended(u)'
  <2>1. blocked'[u] <=> Blocks(route[r])
    BY <1>1, <1>3 DEF TypeOK, CallTypeOK
  <2>2. \A q \in Callers : BusyOn(q, u) => (Blocks(route[q]) <=> Blocks(route[r]))
    BY <1>3 DEF AgreementCore, OneIntention
  <2> QED BY <1>1, <1>6, <2>1, <2>2 DEF BlockedAsIntended, Blocks
<1>9. AgreedUntilApplied(u)'
  <2>1. BusyOn(r, u)' /\ ~Unapplied(r, u)'
    BY <1>3, <1>4, <1>6 DEF Unapplied
  <2> QED BY <2>1 DEF AgreedUntilApplied
<1> QED BY <1>7, <1>8, <1>9 DEF AgreementCore

(* A handler writes the registry: Auth0 already has what it records.       *)
LEMMA MarkKeepsAgreement ==
  ASSUME TypeOK, NEW r \in Callers, NEW u \in Users, Mark(r), user[r] = u,
         AgreementCore(u)
  PROVE  AgreementCore(u)'
<1>1. /\ pc[r] = "mark" /\ pc' = [pc EXCEPT ![r] = NextStep(route[r], "mark")]
      /\ registry' = [registry EXCEPT ![u] = Marked(route[r], @)]
      /\ \A q \in Callers \ {r} : pc'[q] = pc[q] /\ user'[q] = user[q]
      /\ UNCHANGED <<call, blocked, route>>
  BY WriteStep DEF Mark, StepTaken, Writes
<1>2. blocked[u] <=> Blocks(route[r])
  BY <1>1 DEF AgreementCore, BlockedAsIntended, BusyOn, BeforeMark, Unapplied
<1>3. ~BusyOn(r, u)'
  BY <1>1 DEF BusyOn, BeforeMark, NextStep, TypeOK
<1>4. \A q \in Callers \ {r} : /\ BusyOn(q, u)' <=> BusyOn(q, u)
                               /\ Unapplied(q, u)' <=> Unapplied(q, u)
  BY <1>1 DEF BusyOn, BeforeMark, Unapplied
<1>5. OneIntention(u)'
  BY <1>1, <1>3, <1>4 DEF AgreementCore, OneIntention, Blocks
<1>6. BlockedAsIntended(u)'
  BY <1>1, <1>3, <1>4 DEF AgreementCore, BlockedAsIntended, Blocks
<1>7. AgreedUntilApplied(u)'
  <2>1. RegistryFrozen(u)' <=> Blocks(route[r])
    BY <1>1 DEF RegistryFrozen, Marked, TypeOK
  <2> QED BY <1>1, <1>2, <2>1 DEF AgreedUntilApplied
<1> QED BY <1>5, <1>6, <1>7 DEF AgreementCore

(* The outcome of a call, if it is not misleading.                         *)
LEMMA ReturnKeepsFrame ==
  ASSUME TypeOK, NEW r \in Callers, NEW o \in Outcomes, Return(r, o),
         NEW u \in Users, u \notin disturbed'
  PROVE  UserFrame(u)
<1>1. /\ pc[r] = "await" /\ user[r] \in Users /\ <<r, user[r]>> \in Calls
      /\ pc' = [pc EXCEPT ![r] = AfterCall(route[r], o)]
      /\ user' = [user EXCEPT ![r] = IF Proceeds(route[r], o) THEN @ ELSE NoUser]
      /\ UNCHANGED <<blocked, registry, route>>
  BY AtUser DEF Return, CloseCall, storeVars
<1>2. \A q \in Callers : call'[<<q, u>>].applied = call[<<q, u>>].applied
  <2>1. ASSUME NEW q \in Callers
        PROVE  call'[<<q, u>>].applied = call[<<q, u>>].applied
    <3>1. <<q, u>> \in Calls /\ call[<<q, u>>] \in CallRecord
      BY DEF Calls, TypeOK, CallTypeOK
    <3>2. call' = [call EXCEPT ![<<r, user[r]>>].status = o]
      BY DEF Return, CloseCall
    <3> QED BY <1>1, <3>1, <3>2 DEF CallRecord, TypeOK, CallTypeOK
  <2> QED BY <2>1
<1>3. \A q \in Callers \ {r} : /\ pc'[q] = pc[q] /\ user'[q] = user[q]
                               /\ BusyOn(q, u)' <=> BusyOn(q, u)
                               /\ Unapplied(q, u)' <=> Unapplied(q, u)
  <2>1. \A q \in Callers \ {r} : pc'[q] = pc[q] /\ user'[q] = user[q]
    BY <1>1 DEF TypeOK
  <2> QED BY <1>1, <1>2, <2>1 DEF BusyOn, BeforeMark, Unapplied
<1>4. CASE user[r] # u
  <2>1. ~BusyOn(r, u) /\ ~BusyOn(r, u)'
    BY <1>1, <1>4 DEF BusyOn, TypeOK
  <2> QED BY <1>1, <1>3, <2>1 DEF UserFrame
<1>5. CASE user[r] = u /\ o = "ok"
  <2>1. call[<<r, u>>].applied > 0
    BY <1>5 DEF Return, CloseCall, MayClose
  <2>2. ~Unapplied(r, u) /\ ~Unapplied(r, u)' /\ BusyOn(r, u)
    BY <1>1, <1>2, <1>5, <2>1 DEF Unapplied, BusyOn, BeforeMark
  <2>3. BusyOn(r, u)'
    BY <1>1, <1>5 DEF BusyOn, BeforeMark, AfterCall, Proceeds, FirstStep, TypeOK
  <2> QED BY <1>1, <1>3, <2>2, <2>3 DEF UserFrame
<1>6. CASE user[r] = u /\ o # "ok"
  <2>1. ~Misleads(r, o)
    BY <1>6 DEF Return
  <2>2. <<r, u>> \in Calls /\ call[<<r, u>>].applied \in Nat
    BY <1>1, <1>6 DEF TypeOK, CallTypeOK, CallRecord
  <2>3. Unapplied(r, u) /\ route[r] # "freeze_all"
    BY <1>1, <1>6, <2>1, <2>2 DEF Misleads, Unapplied
  <2>4. ~BusyOn(r, u)'
    BY <1>1, <1>6, <2>3 DEF BusyOn, Proceeds, TypeOK
  <2> QED BY <1>1, <1>3, <2>3, <2>4 DEF UserFrame
<1> QED BY <1>4, <1>5, <1>6

(* A step that moves one handler among positions at which it is not at     *)
(* work on u, before and after, concerns u in no way.                      *)
LEMMA ElsewhereKeepsFrame ==
  ASSUME TypeOK, NEW r \in Callers, NEW u \in Users,
         ~BusyOn(r, u), ~BusyOn(r, u)',
         \A q \in Callers \ {r} :
           /\ pc'[q] = pc[q] /\ user'[q] = user[q] /\ route'[q] = route[q]
           /\ call'[<<q, u>>].applied = call[<<q, u>>].applied,
         blocked'[u] = blocked[u], registry'[u] = registry[u]
  PROVE  UserFrame(u)
<1>1. \A q \in Callers \ {r} : /\ BusyOn(q, u)' <=> BusyOn(q, u)
                               /\ Unapplied(q, u)' <=> Unapplied(q, u)
  BY DEF BusyOn, BeforeMark, Unapplied
<1> QED BY <1>1 DEF UserFrame

(* A write of a handler other than its write of u's status: a handler that *)
(* records stays at work on u until it marks, or was not before.           *)
LEMMA WriteKeepsFrame ==
  ASSUME TypeOK, NEW r \in Callers, NEW u \in Users, Writes(r),
         ~(Mark(r) /\ user[r] = u)
  PROVE  UserFrame(u)
<1>1. /\ pc[r] \in Recording
      /\ pc' = [pc EXCEPT ![r] = NextStep(route[r], pc[r])]
      /\ \A q \in Callers \ {r} : pc'[q] = pc[q] /\ user'[q] = user[q]
      /\ NextStep(route[r], pc[r]) # "pick" => user'[r] = user[r]
      /\ NextStep(route[r], pc[r]) = "pick" => user'[r] = NoUser
      /\ UNCHANGED <<call, blocked, route>>
  BY WriteStep
<1>2. registry'[u] = registry[u] /\ (user[r] = u => pc[r] # "mark")
  BY DEF Writes, Log, Mark, Chain, Clear, StepTaken, TypeOK
<1>3. BusyOn(r, u) => BusyOn(r, u)'
  BY <1>1, <1>2 DEF BusyOn, BeforeMark, NextStep, Recording, TypeOK
<1>4. BusyOn(r, u)' => BusyOn(r, u)
  BY <1>1, <1>2 DEF BusyOn, BeforeMark, NextStep, Recording, TypeOK
<1>5. ~Unapplied(r, u) /\ ~Unapplied(r, u)'
  BY <1>1 DEF Unapplied, NextStep, Recording, TypeOK
<1>6. \A q \in Callers \ {r} : /\ BusyOn(q, u)' <=> BusyOn(q, u)
                               /\ Unapplied(q, u)' <=> Unapplied(q, u)
  BY <1>1 DEF BusyOn, BeforeMark, Unapplied
<1> QED BY <1>1, <1>2, <1>3, <1>4, <1>5, <1>6 DEF UserFrame

(* No copy outlives its call unnoticed.                                    *)
LEMMA NoLateCopyNext ==
  ASSUME TypeOK, CallsFollowHandlers, [Next]_vars,
         NEW u \in Users, u \notin disturbed', NoLateCopy(u)
  PROVE  NoLateCopy(u)'
<1> SUFFICES ASSUME NEW q \in Callers, call'[<<q, u>>].wire > 0
             PROVE  call'[<<q, u>>].status = "open"
  BY DEF NoLateCopy
<1>0. /\ <<q, u>> \in Calls /\ call[<<q, u>>] \in CallRecord
      /\ call \in [Calls -> CallRecord]
  BY DEF Calls, TypeOK, CallTypeOK
<1>1. CASE call'[<<q, u>>] = call[<<q, u>>]
  BY <1>1 DEF NoLateCopy
<1>2. ASSUME NEW r \in Callers, NEW v \in Users, CallAuth0(r, v)
      PROVE  call'[<<q, u>>].status = "open"
  <2>1. CASE r = q /\ v = u
    BY <1>0, <1>2, <2>1 DEF CallAuth0, OpenCall, NewCall
  <2>2. CASE r # q \/ v # u
    <3>1. call'[<<q, u>>] = call[<<q, u>>]
      BY <1>0, <1>2, <2>2 DEF CallAuth0, OpenCall
    <3> QED BY <1>1, <3>1
  <2> QED BY <2>1, <2>2
<1>3. ASSUME NEW c \in Calls, SendPatch(c) \/ ApplyPatch(c) \/ DropPatch(c)
      PROVE  call'[<<q, u>>].status = "open"
  <2>1. /\ call'[<<q, u>>].status = call[<<q, u>>].status
        /\ call[<<q, u>>].status # "open" =>
             call'[<<q, u>>].wire <= call[<<q, u>>].wire
    BY <1>0, <1>3, WireStep
  <2>2. CallTypeOK'
    BY <1>3, CallStepsTyped DEF TypeOK
  <2>3. call[<<q, u>>].wire \in Nat /\ call'[<<q, u>>].wire \in Nat
    BY <1>0, <2>2 DEF CallTypeOK, CallRecord
  <2> QED BY <2>1, <2>3 DEF NoLateCopy
<1>4. ASSUME NEW r \in Callers, NEW o \in Outcomes, Return(r, o)
      PROVE  call'[<<q, u>>].status = "open"
  <2>1. user[r] \in Users /\ ~(Misleads(r, o) /\ user[r] = u)
    BY <1>4, AtUser DEF Return
  <2>2. CASE r = q /\ user[r] = u
    <3>1. ~(call[<<q, u>>].wire > 0)
      BY <2>1, <2>2 DEF Misleads
    <3>2. call'[<<q, u>>].wire = call[<<q, u>>].wire
      BY <1>0, <1>4, <2>2 DEF Return, CloseCall, CallRecord
    <3> QED BY <3>1, <3>2
  <2>3. CASE r # q \/ user[r] # u
    <3>1. call'[<<q, u>>] = call[<<q, u>>]
      BY <1>0, <1>4, <2>1, <2>3 DEF Return, CloseCall, Calls
    <3> QED BY <1>1, <3>1
  <2> QED BY <2>2, <2>3
<1>5. CASE Crash
  <2>1. AbandonCalls /\ ~BusyOn(q, u)
    BY <1>5 DEF Crash
  <2>2. call'[<<q, u>>].wire = call[<<q, u>>].wire
    BY <2>1, AbandonStep
  <2>3. call[<<q, u>>].status = "open"
    BY <2>2 DEF NoLateCopy
  <2>4. BusyOn(q, u)
    BY <2>3 DEF CallsFollowHandlers, OpenIsAwaited, BusyOn, BeforeMark
  <2> QED BY <2>1, <2>4
<1>6. ASSUME NEW r \in Callers, Arrive(r) PROVE call'[<<q, u>>].status = "open"
  BY <1>1, <1>6 DEF Arrive, ArriveManual, ArriveSweep, Start, callVars
<1>7. ASSUME NEW r \in Callers,
             Finish(r)
      PROVE  call'[<<q, u>>].status = "open"
  BY <1>1, <1>7 DEF Finish, callVars
<1>8. ASSUME NEW r \in Callers, Writes(r) PROVE call'[<<q, u>>].status = "open"
  BY <1>1, <1>8, WriteStep
<1>9. ASSUME NEW r \in Callers, Send(r) PROVE call'[<<q, u>>].status = "open"
  BY <1>3, <1>9, AtUser DEF Send
<1>10. CASE UNCHANGED vars
  BY <1>1, <1>10 DEF vars, callVars
<1>11. ASSUME NEW v \in Users, LogFreezeNote(v) PROVE call'[<<q, u>>].status = "open"
  BY <1>1, <1>11, NoteStep
<1> QED
  BY <1>2, <1>3, <1>4, <1>5, <1>6, <1>7, <1>8, <1>9, <1>10, <1>11
     DEF Next, Step, Answer, Auth0Acts, AllAnswered, Writes, Apply, Drop

(* Every step keeps what ties Auth0 and the registry together.             *)
LEMMA AgreementNext ==
  TypeOK /\ CallsFollowHandlers /\ Agreement /\ [Next]_vars
    => Agreement'
<1> SUFFICES ASSUME TypeOK, CallsFollowHandlers, Agreement, [Next]_vars,
                    NEW u \in Users, u \notin disturbed'
             PROVE  AgreementOn(u)'
  BY DEF Agreement
<1>0. disturbed \subseteq disturbed'
  BY WriteStep, NoteStep DEF Next, Step, Answer, Auth0Acts, AllAnswered, Arrive, ArriveManual,
     ArriveSweep, Start, CallAuth0, Send, Apply, Drop, Return, Finish,
     Crash, vars, Writes
<1>1. AgreementCore(u) /\ NoLateCopy(u)
  BY <1>0 DEF Agreement, AgreementOn, AgreementCore
<1>2. NoLateCopy(u)'
  BY <1>1, NoLateCopyNext
<1>3. ASSUME UserFrame(u) PROVE AgreementCore(u)'
  BY <1>1, <1>3, FrameKeepsAgreement
<1>4. ASSUME UNCHANGED handlerVars, blocked'[u] = blocked[u],
             registry'[u] = registry[u],
             \A q \in Callers : call'[<<q, u>>].applied = call[<<q, u>>].applied
      PROVE  AgreementCore(u)'
  <2>1. UserFrame(u)
    BY <1>4 DEF UserFrame, BusyOn, BeforeMark, Unapplied, handlerVars
  <2> QED BY <1>3, <2>1
<1>5. ASSUME NEW r \in Callers, Arrive(r) PROVE AgreementCore(u)'
  <2>1. /\ pc[r] = "new" /\ pc' = [pc EXCEPT ![r] = "pick"]
        /\ \A q \in Callers \ {r} : route'[q] = route[q]
        /\ UNCHANGED <<call, blocked, user, registry>>
    BY <1>5 DEF Arrive, ArriveManual, ArriveSweep, Start, callVars, TypeOK
  <2>2. ~BusyOn(r, u) /\ ~BusyOn(r, u)'
    BY <2>1 DEF BusyOn, BeforeMark, TypeOK
  <2> QED BY <1>3, <2>1, <2>2, ElsewhereKeepsFrame DEF TypeOK
<1>6. ASSUME NEW r \in Callers, NEW v \in Users, CallAuth0(r, v)
      PROVE  AgreementCore(u)'
  <2>1. CASE v = u
    BY <1>1, <1>6, <2>1, CallKeepsAgreement
  <2>2. CASE v # u
    <3>1. /\ pc[r] = "pick" /\ pc' = [pc EXCEPT ![r] = "await"]
          /\ user' = [user EXCEPT ![r] = v]
          /\ call' = [call EXCEPT ![<<r, v>>] = NewCall("open", Blocks(route[r]))]
          /\ UNCHANGED <<blocked, route, registry>>
      BY <1>6 DEF CallAuth0, OpenCall, storeVars
    <3>2. ~BusyOn(r, u) /\ ~BusyOn(r, u)'
      BY <2>2, <3>1 DEF BusyOn, BeforeMark, TypeOK
    <3>3. \A q \in Callers \ {r} : call'[<<q, u>>] = call[<<q, u>>]
      BY <3>1 DEF Calls, TypeOK, CallTypeOK
    <3> QED BY <1>3, <3>1, <3>2, <3>3, ElsewhereKeepsFrame DEF TypeOK
  <2> QED BY <2>1, <2>2
<1>7. ASSUME NEW r \in Callers, Send(r) PROVE AgreementCore(u)'
  <2>1. user[r] \in Users /\ SendPatch(<<r, user[r]>>)
    BY <1>7, AtUser DEF Send
  <2>2. \A q \in Callers : call'[<<q, u>>].applied = call[<<q, u>>].applied
    BY <2>1, NothingApplied DEF Calls
  <2> QED BY <1>4, <1>7, <2>1, <2>2 DEF Send, SendPatch, storeVars
<1>8. ASSUME NEW c \in Calls, Drop(c) PROVE AgreementCore(u)'
  <2>1. \A q \in Callers : call'[<<q, u>>].applied = call[<<q, u>>].applied
    BY <1>8, NothingApplied DEF Drop
  <2> QED BY <1>4, <1>8, <2>1 DEF Drop, DropPatch, storeVars
<1>9. ASSUME NEW c \in Calls, Apply(c) PROVE AgreementCore(u)'
  <2>1. PICK r \in Callers, v \in Users : c = <<r, v>>
    BY DEF Calls
  <2>2. CASE v = u
    BY <1>1, <1>9, <2>1, <2>2, ApplyKeepsAgreement
  <2>3. CASE v # u
    <3>1. \A q \in Callers : call'[<<q, u>>] = call[<<q, u>>]
      BY <1>9, <2>1, <2>3 DEF Apply, ApplyPatch, Calls, TypeOK, CallTypeOK
    <3>2. blocked'[u] = blocked[u]
      BY <1>9, <2>1, <2>3 DEF Apply, ApplyPatch, TypeOK, CallTypeOK
    <3> QED BY <1>4, <1>9, <3>1, <3>2 DEF Apply, storeVars
  <2> QED BY <2>2, <2>3
<1>10. ASSUME NEW r \in Callers, NEW o \in Outcomes, Return(r, o)
       PROVE  AgreementCore(u)'
  BY <1>3, <1>10, ReturnKeepsFrame
<1>11. ASSUME NEW r \in Callers, Writes(r) PROVE AgreementCore(u)'
  BY <1>1, <1>3, <1>11, WriteKeepsFrame, MarkKeepsAgreement
<1>12. ASSUME NEW r \in Callers, Finish(r) PROVE AgreementCore(u)'
  <2>1. /\ pc[r] = "pick" /\ pc' = [pc EXCEPT ![r] = "done"]
        /\ UNCHANGED <<call, blocked, user, route, registry>>
    BY <1>12 DEF Finish, callVars, storeVars
  <2>2. ~BusyOn(r, u) /\ ~BusyOn(r, u)'
    BY <2>1 DEF BusyOn, BeforeMark, TypeOK
  <2> QED BY <1>3, <2>1, <2>2, ElsewhereKeepsFrame DEF TypeOK
<1>13. ASSUME Crash PROVE AgreementCore(u)'
  <2>1. \A q \in Callers : ~BusyOn(q, u) /\ ~BusyOn(q, u)'
    BY <1>13 DEF Crash, BusyOn
  <2>2. UNCHANGED <<blocked, registry>>
    BY <1>13 DEF Crash, AbandonCalls, storeVars
  <2>3. UserFrame(u)
    BY <2>1, <2>2 DEF UserFrame
  <2> QED BY <1>3, <2>3
<1>14. ASSUME UNCHANGED vars PROVE AgreementCore(u)'
  <2>1. UNCHANGED <<handlerVars, call, blocked, registry>>
    BY <1>14 DEF vars, callVars, storeVars
  <2> QED BY <1>4, <2>1
<1>15. ASSUME NEW r \in Callers, Step(r) PROVE AgreementCore(u)'
  BY <1>6, <1>11, <1>12, <1>15 DEF Step, Writes
<1>16. ASSUME NEW v \in Users, LogFreezeNote(v) PROVE AgreementCore(u)'
  BY <1>4, <1>16, NoteStep
<1>17. AgreementCore(u)'
  BY <1>5, <1>7, <1>8, <1>9, <1>10, <1>13, <1>14, <1>15, <1>16
     DEF Next, Answer, Auth0Acts, AllAnswered
<1> QED BY <1>2, <1>17 DEF AgreementOn, AgreementCore

-----------------------------------------------------------------------------
(* The theorems.                                                           *)

(* The parts of the inductive invariant hold at the start.                 *)
LEMMA InductiveInit == Init => Inductive
<1> SUFFICES ASSUME Init PROVE Inductive
  OBVIOUS
<1> USE DEF Init, CallInit
<1>0. \A r \in Callers, u \in Users :
        /\ <<r, u>> \in Calls /\ call[<<r, u>>] = NewCall("idle", FALSE)
        /\ ~BusyOn(r, u)
  BY DEF Calls, BusyOn, BeforeMark
<1>1. LoopExclusive
  BY DEF LoopExclusive, Running, Recording
<1>2. CallsFollowHandlers
  BY <1>0 DEF CallsFollowHandlers, OpenIsAwaited, AwaitedIsOpen, CallAsksForRoute,
              CalledInTurn, IdleIsSilent, NewCall
<1>3. MarkFollowsLog
  BY DEF MarkFollowsLog
<1>4. LogMatchesRegistry
  BY DEF LogMatchesRegistry, RegistryFrozen, LoggedFrozen
<1>5. ASSUME NEW u \in Users PROVE AgreementOn(u)
  <2>1. ~RegistryFrozen(u) /\ ~blocked[u]
    BY DEF RegistryFrozen
  <2>2. OneIntention(u) /\ BlockedAsIntended(u) /\ AgreedUntilApplied(u)
    BY <1>0, <2>1 DEF OneIntention, BlockedAsIntended, AgreedUntilApplied
  <2>3. NoLateCopy(u)
    BY <1>0 DEF NoLateCopy, NewCall
  <2> QED BY <2>2, <2>3 DEF AgreementOn
<1> QED BY <1>1, <1>2, <1>3, <1>4, <1>5 DEF Inductive, Agreement

(* The strengthening of the invariants, that TLC checks as well: it holds  *)
(* in every state because every handler enters the event loop only when it *)
(* is free and records only what Auth0 confirmed to it.                    *)
THEOREM InductiveInvariant == Spec => []Inductive
<1>1. Init => Inductive
  BY InductiveInit
<1>2. TypeOK /\ Inductive /\ [Next]_vars => Inductive'
  BY LoopNext, CallsNext, MarkFollowsLogNext, LogMatchesRegistryNext, AgreementNext
     DEF Inductive
<1> QED BY <1>1, <1>2, TypeCorrect, PTL DEF Spec

(* frozen_users and freeze_log never contradict each other, except for a   *)
(* user whose two writes a crash separated, until the next action on it.   *)
THEOREM LogAndRegistryAgree == Spec => []LogMatchesRegistry
<1>1. Inductive => LogMatchesRegistry
  BY DEF Inductive
<1> QED BY <1>1, InductiveInvariant, PTL

(* With no request at work on a user, the list of frozen users and Auth0   *)
(* agree on the user unless one of the named causes happened to it.        *)
THEOREM DivergenceIsCaused == Spec => []DivergenceHasCause
<1>1. Inductive => DivergenceHasCause
  BY DEF Inductive, Agreement, AgreementOn, AgreedUntilApplied, DivergenceHasCause
<1> QED BY <1>1, InductiveInvariant, PTL
=============================================================================
