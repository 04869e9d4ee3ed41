-------------------------- MODULE FreezeLifecycle --------------------------
(***************************************************************************)
(* The freeze and unfreeze handlers of main.py, with the state they share: *)
(* Auth0 (BlockCalls), the frozen_users and freeze_log collections, the    *)
(* Algorand ledger and the flags in the user graph.                        *)
(*                                                                         *)
(* Every handler is a coroutine of one event loop.  The only await that    *)
(* suspends it is the call of auth0_client; the calls of pymongo, algosdk  *)
(* and neo4j block the loop.  So between two calls of Auth0 a handler runs *)
(* alone, and other handlers run only while it awaits Auth0.  Its writes   *)
(* are separate steps all the same: the process may die between two of     *)
(* them, and Auth0 goes on applying what it received.                      *)
(***************************************************************************)
EXTENDS BlockCalls, Sequences, FiniteSets

CONSTANTS
  Routes,      \* the routes that are exercised
  Faults,      \* the services that may fail: "auth0", "ledger", "graph"
  MaxCrashes,  \* how often the server process may die
  MaxNotes,    \* bound: notes that POST /api/blockchain/log-freeze asks for
  NoUser       \* "the handler is at no user"

ManualRoutes == {"freeze", "freeze_blockchain", "unfreeze"}
SweepRoutes  == {"check_clusters", "freeze_all"}

ASSUME RoutesAssumption  == Routes \subseteq ManualRoutes \cup SweepRoutes
ASSUME CrashAssumption   == MaxCrashes \in Nat
ASSUME NotesAssumption   == MaxNotes \in Nat
ASSUME NoUserAssumption  == NoUser \notin Users

VARIABLES
  pc,          \* where each request's handler is
  route,       \* the route of each request
  user,        \* the user the handler is working on
  todo,        \* the users a handler has still to visit
  reported,    \* the users the answer will report as done
  registry,    \* frozen_users: the status of each user's document, if any
  freezeLog,   \* freeze_log: the actions recorded for each user, in order
  chain,       \* FREEZE notes on the ledger, per user
  flagged,     \* users whose graph node has flagged = true
  noted,       \* history: notes asked for by hand, per user
  crashes,     \* how often the server process has died
  disturbed,   \* history: users with a cause for registry and Auth0 to differ
  torn         \* history: users for whom a crash fell between log and registry

storeVars   == <<registry, freezeLog, chain, flagged, noted>>
handlerVars == <<pc, route, user, todo, reported>>
vars == <<callVars, handlerVars, storeVars, crashes, disturbed, torn>>

-----------------------------------------------------------------------------
(* Positions of a handler.                                                 *)

Recording == {"chain", "log", "mark", "clear"}
Final     == {"done", "error", "killed"}
Running   == Recording \cup {"pick"}
Positions == {"new", "await"} \cup Running \cup Final

(* Mutant of LoopFree: handlers on a pool of threads.                      *)
LoopAlwaysFree == TRUE

(* The event loop is free when no handler is between two awaits.           *)
LoopFree == \A r \in Callers : pc[r] \notin Running

InProgress(r) == pc[r] \in Running \cup {"await"}

(* What a call of Auth0 by a handler of this route asks for.               *)
Blocks(k) == k # "unfreeze"

ActionOf(k) == IF Blocks(k) THEN "freeze" ELSE "unfreeze"

(* Mutant of FirstStep: the entry in the log is forgotten.                 *)
FirstStepUnlogged(k) == IF k = "freeze_all" THEN "chain" ELSE "mark"

(* The writes that follow the call of Auth0, in the order of the code.     *)
FirstStep(k) == IF k = "freeze_all" THEN "chain" ELSE "log"

(* Mutant of NextStep: freeze-all does not clear the flag.                 *)
NextStepKeepsFlag(k, step) ==
  CASE step = "log"                                          -> "mark"
    [] step = "mark" /\ k \notin {"freeze_all", "unfreeze"}  -> "chain"
    [] step = "chain" /\ k = "freeze_all"                    -> "log"
    [] step = "chain" /\ k \in {"freeze", "freeze_blockchain"} -> "clear"
    [] OTHER                                                 -> "pick"

(* Mutant of NextStep: clear_flag is called again and again.               *)
NextStepClearsForever(k, step) ==
  CASE step = "log"                                          -> "mark"
    [] step = "mark" /\ k \notin {"freeze_all", "unfreeze"}  -> "chain"
    [] step = "chain" /\ k = "freeze_all"                    -> "log"
    [] step = "mark" /\ k = "unfreeze"                       -> "pick"
    [] OTHER                                                 -> "clear"

NextStep(k, step) ==
  CASE step = "log"                                          -> "mark"
    [] step = "mark" /\ k = "freeze_all"                     -> "clear"
    [] step = "mark" /\ k \notin {"freeze_all", "unfreeze"}  -> "chain"
    [] step = "chain" /\ k = "freeze_all"                    -> "log"
    [] step = "chain" /\ k \in {"freeze", "freeze_blockchain"} -> "clear"
    [] OTHER                                                 -> "pick"

(* Handler r has called Auth0 for u and has not written frozen_users.      *)
BeforeMark(r) == pc[r] \in {"await", "log", "mark"}
                   \/ (pc[r] = "chain" /\ route[r] = "freeze_all")

BusyOn(r, u) == user[r] = u /\ BeforeMark(r)

Last(s) == s[Len(s)]

RegistryFrozen(u) == registry[u] = "frozen"
LoggedFrozen(u) == freezeLog[u] # <<>> /\ Last(freezeLog[u]) = "freeze"

-----------------------------------------------------------------------------
Init ==
  /\ CallInit
  /\ pc       = [r \in Callers |-> "new"]
  /\ route    = [r \in Callers |-> "none"]
  /\ user     = [r \in Callers |-> NoUser]
  /\ todo     = [r \in Callers |-> {}]
  /\ reported = [r \in Callers |-> {}]
  /\ registry  = [u \in Users |-> "none"]
  /\ freezeLog = [u \in Users |-> <<>>]
  /\ chain     = [u \in Users |-> 0]
  /\ flagged   = {}
  /\ noted     = [u \in Users |-> 0]
  /\ crashes   = 0
  /\ disturbed = {}
  /\ torn      = {}

(* A request arrives and its handler starts with the users in S to visit.  *)
Start(r, k, S) ==
  /\ pc[r] = "new"
  /\ LoopFree
  /\ k \in Routes
  /\ pc'    = [pc EXCEPT ![r] = "pick"]
  /\ route' = [route EXCEPT ![r] = k]
  /\ todo'  = [todo EXCEPT ![r] = S]
  /\ UNCHANGED <<callVars, user, reported, registry, freezeLog, chain, noted,
                 crashes, disturbed, torn>>

ArriveManual(r, k, u) ==
  /\ k \in ManualRoutes
  /\ Start(r, k, {u})
  /\ UNCHANGED flagged

(* graph.get_flagged_users flags and returns the users F of large clusters *)
(* with a high risk, whoever they are at this moment and whether or not    *)
(* they are frozen already.  freeze-all adds recent demo bots.             *)
ArriveSweep(r, k, F, S) ==
  /\ k \in SweepRoutes
  /\ F \subseteq S
  /\ k = "check_clusters" => S = F
  /\ Start(r, k, S)
  /\ flagged' = flagged \cup F

(* Another request is at Auth0 for u with the opposite intention.          *)
Overlaps(r, u) ==
  \E q \in Callers : BusyOn(q, u) /\ Blocks(route[q]) # Blocks(route[r])

(* The handler awaits auth0_client for its next user.                      *)
CallAuth0(r, u) ==
  /\ pc[r] = "pick"
  /\ u \in todo[r]
  /\ OpenCall(<<r, u>>, Blocks(route[r]))
  /\ pc'   = [pc EXCEPT ![r] = "await"]
  /\ user' = [user EXCEPT ![r] = u]
  /\ todo' = [todo EXCEPT ![r] = @ \ {u}]
  /\ disturbed' = IF Overlaps(r, u) THEN disturbed \cup {u} ELSE disturbed
  /\ UNCHANGED <<route, reported, storeVars, crashes, torn>>

(* The retry loop of auth0_client sends the PATCH (again only after a      *)
(* failure).                                                               *)
Send(r) ==
  /\ pc[r] = "await"
  /\ LoopFree
  /\ "auth0" \in Faults \/ call[<<r, user[r]>>].sent = 0
  /\ SendPatch(<<r, user[r]>>)
  /\ UNCHANGED <<handlerVars, storeVars, crashes, disturbed, torn>>

(* Auth0's side: it never waits for the event loop.                        *)
Apply(c) ==
  /\ ApplyPatch(c)
  /\ UNCHANGED <<handlerVars, storeVars, crashes, disturbed, torn>>

Drop(c) ==
  /\ "auth0" \in Faults
  /\ DropPatch(c)
  /\ UNCHANGED <<handlerVars, storeVars, crashes, disturbed, torn>>

(* Mutant of Proceeds: the answer's "success" is not looked at.            *)
ProceedsUnlessRaised(k, o) == o # "raised" \/ k = "freeze_all"

(* What the handler does with the outcome o of its call.  An exception of  *)
(* get_auth0_token leaves every handler but freeze-all, which catches it   *)
(* and records the freeze whatever the outcome.                            *)
Proceeds(k, o) == o = "ok" \/ k = "freeze_all"

AfterCall(k, o) ==
  IF Proceeds(k, o) THEN FirstStep(k)
  ELSE IF o = "raised" THEN "error" ELSE "pick"

(* The outcome leaves Auth0 and what the handler records at odds, now or   *)
(* when a late copy of the PATCH is applied.                               *)
Misleads(r, o) ==
  \/ call[<<r, user[r]>>].wire > 0
  \/ o # "ok" /\ call[<<r, user[r]>>].applied > 0
  \/ o # "ok" /\ route[r] = "freeze_all"

Return(r, o) ==
  /\ pc[r] = "await"
  /\ LoopFree
  /\ "auth0" \in Faults \/ o = "ok"
  /\ CloseCall(<<r, user[r]>>, o)
  /\ pc'   = [pc EXCEPT ![r] = AfterCall(route[r], o)]
  /\ user' = [user EXCEPT ![r] = IF Proceeds(route[r], o) THEN @ ELSE NoUser]
  /\ todo' = [todo EXCEPT ![r] = IF AfterCall(route[r], o) = "error" THEN {} ELSE @]
  /\ disturbed' = IF Misleads(r, o) THEN disturbed \cup {user[r]} ELSE disturbed
  /\ UNCHANGED <<route, reported, storeVars, crashes, torn>>

-----------------------------------------------------------------------------
(* The writes.  After the last one the user is reported, and the handler   *)
(* goes on to the next user.                                               *)

(* Mutant of StepTaken: the handler reports the user and stays at it.      *)
StepTakenInPlace(r, step) ==
  /\ pc[r] = step
  /\ pc' = [pc EXCEPT ![r] = NextStep(route[r], step)]
  /\ reported' = IF NextStep(route[r], step) = "pick"
                 THEN [reported EXCEPT ![r] = @ \cup {user[r]}] ELSE reported
  /\ UNCHANGED <<callVars, route, user, todo, noted, crashes, disturbed>>

StepTaken(r, step) ==
  /\ pc[r] = step
  /\ pc' = [pc EXCEPT ![r] = NextStep(route[r], step)]
  /\ IF NextStep(route[r], step) = "pick"
     THEN /\ user' = [user EXCEPT ![r] = NoUser]
          /\ reported' = [reported EXCEPT ![r] = @ \cup {user[r]}]
     ELSE UNCHANGED <<user, reported>>
  /\ UNCHANGED <<callVars, route, todo, noted, crashes, disturbed>>

(* db.log_freeze_action, db.log_unfreeze_action                            *)
Log(r) ==
  /\ StepTaken(r, "log")
  /\ freezeLog' = [freezeLog EXCEPT ![user[r]] = Append(@, ActionOf(route[r]))]
  /\ UNCHANGED <<registry, chain, flagged, torn>>

(* Mutant of Marked: mark_unfrozen finds no document to update.            *)
MarkedOnce(k, status) == IF Blocks(k) THEN "frozen" ELSE status

(* db.mark_frozen inserts or overwrites; db.mark_unfrozen only updates.    *)
Marked(k, status) ==
  IF Blocks(k) THEN "frozen" ELSE IF status = "none" THEN "none" ELSE "unfrozen"

Mark(r) ==
  /\ StepTaken(r, "mark")
  /\ registry' = [registry EXCEPT ![user[r]] = Marked(route[r], @)]
  /\ torn' = torn \ {user[r]}
  /\ UNCHANGED <<freezeLog, chain, flagged>>

(* freeze_ledger.log_freeze never raises; with a fault the note may or may *)
(* not be on the ledger.                                                   *)
WriteNote(u) ==
  \/ chain' = [chain EXCEPT ![u] = @ + 1]
  \/ "ledger" \in Faults /\ UNCHANGED chain

(* The freezes call it in their handlers.                                  *)
Chain(r) ==
  /\ StepTaken(r, "chain")
  /\ WriteNote(user[r])
  /\ UNCHANGED <<registry, freezeLog, flagged, torn>>

(* POST /api/blockchain/log-freeze calls it, too, and nothing else: for    *)
(* any user, with no call of Auth0 and no entry in the log or the list.    *)
(* The handler awaits nothing, so it is one step of the loop.              *)
LogFreezeNote(u) ==
  /\ LoopFree
  /\ noted[u] < MaxNotes
  /\ noted' = [noted EXCEPT ![u] = @ + 1]
  /\ WriteNote(u)
  /\ UNCHANGED <<callVars, handlerVars, registry, freezeLog, flagged, crashes,
                 disturbed, torn>>

(* graph.clear_flag swallows the errors of the graph database.             *)
Clear(r) ==
  /\ StepTaken(r, "clear")
  /\ \/ flagged' = flagged \ {user[r]}
     \/ "graph" \in Faults /\ UNCHANGED flagged
  /\ UNCHANGED <<registry, freezeLog, chain, torn>>

(* The handler has visited every user and answers.                         *)
Finish(r) ==
  /\ pc[r] = "pick"
  /\ todo[r] = {}
  /\ pc' = [pc EXCEPT ![r] = "done"]
  /\ UNCHANGED <<callVars, route, user, todo, reported, storeVars, crashes,
                 disturbed, torn>>

(* The server process dies and is started again.  What Auth0, MongoDB, the *)
(* ledger and the graph hold survives; the handlers do not.                *)
Crash ==
  /\ crashes < MaxCrashes
  /\ crashes' = crashes + 1
  /\ AbandonCalls
  /\ pc'   = [r \in Callers |-> IF InProgress(r) THEN "killed" ELSE pc[r]]
  /\ user' = [r \in Callers |-> NoUser]
  /\ todo' = [r \in Callers |-> {}]
  /\ disturbed' = disturbed \cup {u \in Users : \E r \in Callers : BusyOn(r, u)}
  /\ torn' = torn \cup {u \in Users : \E r \in Callers : pc[r] = "mark" /\ user[r] = u}
  /\ UNCHANGED <<route, reported, storeVars>>

(* Every request has been answered: the server idles.                      *)
AllAnswered ==
  /\ \A r \in Callers : pc[r] \in Final
  /\ UNCHANGED vars

-----------------------------------------------------------------------------
Answer(r) == \E o \in Outcomes : Return(r, o)

Step(r) ==
  \/ \E u \in Users : CallAuth0(r, u)
  \/ Log(r) \/ Mark(r) \/ Chain(r) \/ Clear(r)
  \/ Finish(r)

Arrive(r) ==
  \/ \E k \in ManualRoutes, u \in Users : ArriveManual(r, k, u)
  \/ \E k \in SweepRoutes : \E S \in SUBSET Users : \E F \in SUBSET S :
       ArriveSweep(r, k, F, S)

Auth0Acts == \E c \in Calls : Apply(c) \/ Drop(c)

Next ==
  \/ \E r \in Callers : Arrive(r) \/ Step(r) \/ Send(r) \/ Answer(r)
  \/ Auth0Acts
  \/ \E u \in Users : LogFreezeNote(u)
  \/ Crash
  \/ AllAnswered

Spec == Init /\ [][Next]_vars

(* The event loop runs every ready handler, and every call of auth0_client *)
(* ends: the attempts are counted and httpx limits the time of each.       *)
(* Auth0 and the network owe nothing.                                      *)
FairSpec ==
  /\ Spec
  /\ \A r \in Callers : WF_vars(Step(r)) /\ WF_vars(Send(r)) /\ WF_vars(Answer(r))

-----------------------------------------------------------------------------
(* Properties.                                                             *)

(* Every variable has its type; in particular a handler is at a user       *)
(* exactly while it awaits Auth0 or records, and no call is made twice.    *)
TypeOK ==
  /\ CallTypeOK
  /\ pc \in [Callers -> Positions]
  /\ route \in [Callers -> {"none"} \cup ManualRoutes \cup SweepRoutes]
  /\ user \in [Callers -> Users \cup {NoUser}]
  /\ todo \in [Callers -> SUBSET Users]
  /\ reported \in [Callers -> SUBSET Users]
  /\ registry \in [Users -> {"none", "frozen", "unfrozen"}]
  /\ freezeLog \in [Users -> Seq({"freeze", "unfreeze"})]
  /\ chain \in [Users -> Nat]
  /\ flagged \subseteq Users
  /\ noted \in [Users -> 0 .. MaxNotes]
  /\ crashes \in 0 .. MaxCrashes
  /\ disturbed \subseteq Users
  /\ torn \subseteq Users
  /\ \A r \in Callers : user[r] # NoUser <=> pc[r] \in Recording \cup {"await"}

(* frozen_users and freeze_log never contradict each other: outside the    *)
(* two writes of one handler, a user is listed as frozen exactly if the    *)
(* last entry of the log is a freeze.  The exception is a crash between    *)
(* the two writes, and the next freeze or unfreeze of the user repairs it. *)
LogMatchesRegistry ==
  \A u \in Users \ torn :
    (\A r \in Callers : ~(pc[r] = "mark" /\ user[r] = u))
      => (RegistryFrozen(u) <=> LoggedFrozen(u))

(* When no handler is working on u, the dashboard's list of frozen users   *)
(* and Auth0 agree on u, unless one of these happened to u: a freeze and   *)
(* an unfreeze were at Auth0 together, a call returned while its PATCH     *)
(* could still take effect or had taken effect unnoticed, freeze-all       *)
(* ignored a failure, or the process died in between.                      *)
DivergenceHasCause ==
  \A u \in Users \ disturbed :
    (\A r \in Callers : ~BusyOn(r, u)) => (RegistryFrozen(u) <=> blocked[u])

(* An answer that reports a freeze or unfreeze is true: Auth0 applied it   *)
(* and the log has it.  (freeze-all is the handler that does not look at   *)
(* the outcome.)                                                           *)
SuccessMeansApplied ==
  \A r \in Callers : \A u \in reported[r] :
    /\ route[r] # "freeze_all" => call[<<r, u>>].applied > 0
    /\ \E i \in DOMAIN freezeLog[u] : freezeLog[u][i] = ActionOf(route[r])

(* A flag in the graph does not outlive the freeze-all sweep that set it:  *)
(* each flagged user is still to be visited by one, also when sweeps flag  *)
(* and clear the same user in turn.  (check-clusters flags, too, and never *)
(* clears.)                                                                *)
FlagsBelongToASweep ==
  crashes = 0 /\ "graph" \notin Faults /\ (\A r \in Callers : route[r] # "check_clusters")
    => \A u \in flagged :
         \E r \in Callers : route[r] = "freeze_all" /\ (u \in todo[r] \/ user[r] = u)

FreezesLogged(u) == {i \in DOMAIN freezeLog[u] : freezeLog[u][i] = "freeze"}

(* A freeze on the ledger is in the database's log as well, or it belongs  *)
(* to a freeze-all that is about to log it or was killed, or it was noted  *)
(* by hand (log-freeze); and without a crash or a fault of the ledger      *)
(* every logged freeze is on it, next to the notes made by hand, once no   *)
(* handler records for the user.                                           *)
LedgerTrailsLog ==
  \A u \in Users :
    /\ chain[u] <= Cardinality(FreezesLogged(u)) + noted[u]
                   + Cardinality({r \in Callers :
                       /\ route[r] = "freeze_all"
                       /\ pc[r] = "killed" \/ (pc[r] = "log" /\ user[r] = u)})
    /\ (crashes = 0 /\ "ledger" \notin Faults
        /\ \A r \in Callers : ~(user[r] = u /\ pc[r] \in Recording))
         => chain[u] = Cardinality(FreezesLogged(u)) + noted[u]

(* Every freeze on the ledger that was not noted by hand (log-freeze) has  *)
(* a call of its own that Auth0 applied: of the routes that call Auth0     *)
(* only freeze-all writes a note for a freeze that failed.                 *)
LedgerBackedByAuth0 ==
  \A u \in Users :
    chain[u] <= noted[u] + Cardinality({r \in Callers :
                  \/ call[<<r, u>>].applied > 0 /\ call[<<r, u>>].block
                  \/ call[<<r, u>>].status # "idle" /\ route[r] = "freeze_all"})

(* Every request that arrives is answered, unless the process dies first:  *)
(* no handler waits for another one, whatever Auth0 does or fails to do.   *)
EveryRequestAnswered == \A r \in Callers : InProgress(r) ~> pc[r] \in Final

-----------------------------------------------------------------------------
(* Why the invariants hold: the parts of the inductive invariant.          *)

(* At most one handler runs between two awaits.                            *)
LoopExclusive ==
  \A r, q \in Callers : pc[r] \in Running /\ pc[q] \in Running => r = q

(* A call of Auth0 is open exactly while its handler awaits it, it asks    *)
(* for what the handler's route asks for, it is not made before its turn,  *)
(* and nothing is on the wire before it is made.                           *)
OpenIsAwaited ==
  \A r \in Callers : \A u \in Users :
    call[<<r, u>>].status = "open" => pc[r] = "await" /\ user[r] = u

AwaitedIsOpen ==
  \A r \in Callers : \A u \in Users :
    pc[r] = "await" /\ user[r] = u => call[<<r, u>>].status = "open"

CallAsksForRoute ==
  \A r \in Callers : \A u \in Users :
    call[<<r, u>>].status = "open" => (call[<<r, u>>].block <=> Blocks(route[r]))

CalledInTurn ==
  \A r \in Callers : \A u \in Users :
    pc[r] = "new" \/ u \in todo[r] => call[<<r, u>>].status = "idle"

IdleIsSilent ==
  \A r \in Callers : \A u \in Users :
    call[<<r, u>>].status = "idle" => call[<<r, u>>].wire = 0

CallsFollowHandlers ==
  OpenIsAwaited /\ AwaitedIsOpen /\ CallAsksForRoute /\ CalledInTurn /\ IdleIsSilent

(* A handler that is about to write frozen_users has just written the log. *)
MarkFollowsLog ==
  \A r \in Callers :
    pc[r] = "mark" => /\ freezeLog[user[r]] # <<>>
                      /\ Last(freezeLog[user[r]]) = ActionOf(route[r])

(* What ties Auth0 and frozen_users together for a user without a cause to *)
(* differ: the handlers at work on u want the same; once one of them had   *)
(* its PATCH applied, Auth0 has what they want; before that the two agree; *)
(* and no copy of a PATCH outlives its call.                               *)
Unapplied(r, u) == pc[r] = "await" /\ call[<<r, u>>].applied = 0

OneIntention(u) ==
  \A r, q \in Callers :
    BusyOn(r, u) /\ BusyOn(q, u) => (Blocks(route[r]) <=> Blocks(route[q]))

BlockedAsIntended(u) ==
  \A r \in Callers :
    BusyOn(r, u) /\ ~Unapplied(r, u) => (blocked[u] <=> Blocks(route[r]))

AgreedUntilApplied(u) ==
  (\A r \in Callers : BusyOn(r, u) => Unapplied(r, u))
    => (RegistryFrozen(u) <=> blocked[u])

NoLateCopy(u) ==
  \A r \in Callers : call[<<r, u>>].wire > 0 => call[<<r, u>>].status = "open"

AgreementOn(u) ==
  /\ OneIntention(u)
  /\ BlockedAsIntended(u)
  /\ AgreedUntilApplied(u)
  /\ NoLateCopy(u)

Agreement == \A u \in Users \ disturbed : AgreementOn(u)

(* The inductive invariant of the handlers: its parts hold together after  *)
(* every step of every handler, of Auth0 and of a crash.                   *)
Inductive ==
  /\ LoopExclusive
  /\ CallsFollowHandlers
  /\ MarkFollowsLog
  /\ LogMatchesRegistry
  /\ Agreement

-----------------------------------------------------------------------------
(* What the README says and the code does not do.                          *)

(* "Currently frozen users" (README.md, /api/frozen-users): the list is    *)
(* current once no request is being handled.                               *)
FrozenUsersAreCurrent ==
  (\A r \in Callers : ~InProgress(r)) =>
    \A u \in Users : RegistryFrozen(u) <=> blocked[u]
=============================================================================
