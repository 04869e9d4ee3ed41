------------------------------ MODULE Storage ------------------------------
(***************************************************************************)
(* db.py: the freeze log, the list of frozen users and the thresholds, in  *)
(* MongoDB or in the memory of a server process.                           *)
(*                                                                         *)
(* A process decides at its start whether it has MongoDB; one that has not *)
(* keeps everything in memory until it is restarted.  One that has it      *)
(* falls back to memory in each operation on its own.  vercel.json deploys *)
(* the server as a function, so several processes may share MongoDB.       *)
(***************************************************************************)
EXTENDS Naturals

CONSTANTS
  Processes,    \* server processes
  Users,        \* users who are frozen and unfrozen
  Thresholds,   \* what the thresholds may be
  Default,      \* the thresholds of config.py
  Unset,        \* "there is no document"
  MaxActions,   \* bound: entries of the freeze log
  MaxUpdates,   \* bound: updates of the thresholds
  MaxRestarts   \* bound: restarts of processes

ASSUME ThresholdsAssumption == Default \in Thresholds /\ Unset \notin Thresholds
ASSUME UnsetAssumption == Unset \notin Users /\ Unset \notin Processes
ASSUME BoundsAssumption ==
  MaxActions \in Nat /\ MaxUpdates \in Nat /\ MaxRestarts \in Nat

VARIABLES
  handle,       \* db of each process: "connected", or "off" (False)
  mongo,        \* the collections
  memory,       \* the _in_memory_ stores of each process
  pending,      \* the two writes that a handler of each process owes, or Nothing
  actions,      \* entries made so far: the timestamp of the next one
  updates,      \* updates made so far
  restarts,     \* restarts so far
  apart,        \* history: users whose log and status in MongoDB may differ
  latest        \* history: the last update of the thresholds

historyVars == <<apart, latest>>
vars == <<handle, mongo, memory, pending, actions, updates, restarts, historyVars>>

Actions  == {"freeze", "unfreeze"}
Statuses == {"none", "frozen", "unfrozen"}
Entries  == [time : 1 .. MaxActions, user : Users, action : Actions]

Empty == [log        |-> {},
          status     |-> [u \in Users |-> "none"],
          thresholds |-> Unset]

(* Mutant of Fresh: the copy in memory is not filled from config.py.       *)
FreshUnset == Empty

Fresh == [Empty EXCEPT !.thresholds = Default]

Nothing == [at |-> "idle", time |-> 0, user |-> Unset, action |-> Unset,
            logged |-> FALSE, crossed |-> FALSE]

NoUpdate == [by |-> Unset, value |-> Default, reached |-> FALSE]

-----------------------------------------------------------------------------
(* An operation on MongoDB answers, or pymongo raises an exception before  *)
(* ("failed") or after ("lost") the server carried it out.  A process      *)
(* without MongoDB goes the way of "failed".                               *)
Replies(p) == IF handle[p] = "connected" THEN {"ok", "lost", "failed"} ELSE {"failed"}

Reaches(reply) == reply # "failed"

(* Mutant of FallsBack: an exception is swallowed.                         *)
FallsBackIfOff(reply) == FALSE

FallsBack(reply) == reply # "ok"

(* Mutant of WithEntry: one entry for each user, as in frozen_users.       *)
WithOnlyEntry(store, e) == [store EXCEPT !.log = {f \in @ : f.user # e.user} \cup {e}]

(* What an entry of the log does to a store.                               *)
WithEntry(store, e) == [store EXCEPT !.log = @ \cup {e}]

(* Mutant of WithMark: update_one without upsert.                          *)
WithoutUpsert(store, u, action) ==
  [store EXCEPT !.status[u] =
     IF @ = "none" THEN "none" ELSE IF action = "freeze" THEN "frozen" ELSE "unfrozen"]

(* mark_frozen inserts or overwrites, mark_unfrozen only updates.          *)
WithMark(store, u, action) ==
  [store EXCEPT !.status[u] =
     IF action = "freeze" THEN "frozen" ELSE IF @ = "none" THEN "none" ELSE "unfrozen"]

Init ==
  /\ handle \in [Processes -> {"connected", "off"}]
  /\ mongo = Empty
  /\ memory = [p \in Processes |-> Fresh]
  /\ pending = [p \in Processes |-> Nothing]
  /\ actions = 0 /\ updates = 0 /\ restarts = 0
  /\ apart = {}
  /\ latest = NoUpdate

Busy(p) == pending[p] # Nothing

(* A handler has a freeze or an unfreeze to record: it reads the clock and *)
(* builds the entry.  Two processes that record the same user cross.       *)
Stamp(p, u, action) ==
  LET crossed == \E q \in Processes : pending[q].user = u
  IN /\ actions < MaxActions
     /\ ~Busy(p)
     /\ pending' = [q \in Processes |->
          IF q = p THEN [at |-> "log", time |-> actions + 1, user |-> u, action |-> action,
                         logged |-> FALSE, crossed |-> crossed]
          ELSE IF pending[q].user = u THEN [pending[q] EXCEPT !.crossed = TRUE]
          ELSE pending[q]]
     /\ actions' = actions + 1
     /\ UNCHANGED <<handle, mongo, memory, updates, restarts, historyVars>>

(* log_freeze_action, log_unfreeze_action: the first write.                *)
Log(p, reply) ==
  LET w == pending[p]
      e == [time |-> w.time, user |-> w.user, action |-> w.action]
  IN /\ w.at = "log"
     /\ reply \in Replies(p)
     /\ mongo' = IF Reaches(reply) THEN WithEntry(mongo, e) ELSE mongo
     /\ memory' = IF FallsBack(reply)
                  THEN [memory EXCEPT ![p] = WithEntry(@, e)] ELSE memory
     /\ pending' = [pending EXCEPT ![p].at = "mark", ![p].logged = Reaches(reply)]
     /\ UNCHANGED <<handle, actions, updates, restarts, historyVars>>

(* What a pair of writes does to the agreement of log and status: one that *)
(* reached MongoDB whole and uncrossed restores it, one that stayed in     *)
(* memory whole leaves it.                                                 *)
Apart(w, reached) ==
  IF w.logged /\ reached /\ ~w.crossed THEN apart \ {w.user}
  ELSE IF ~w.logged /\ ~reached THEN apart
  ELSE apart \cup {w.user}

(* mark_frozen, mark_unfrozen: the second write.                           *)
Mark(p, reply) ==
  LET w == pending[p]
  IN /\ w.at = "mark"
     /\ reply \in Replies(p)
     /\ mongo' = IF Reaches(reply) THEN WithMark(mongo, w.user, w.action) ELSE mongo
     /\ memory' = IF FallsBack(reply)
                  THEN [memory EXCEPT ![p] = WithMark(@, w.user, w.action)] ELSE memory
     /\ pending' = [pending EXCEPT ![p] = Nothing]
     /\ apart' = Apart(w, Reaches(reply))
     /\ UNCHANGED <<handle, actions, updates, restarts, latest>>

(* Mutant of Remembered: memory is the fallback only, as elsewhere.        *)
RememberedOnFailure(p, value, reply) ==
  IF FallsBack(reply) THEN [memory EXCEPT ![p].thresholds = value] ELSE memory

(* update_thresholds writes memory in any case, and first.                 *)
Remembered(p, value, reply) == [memory EXCEPT ![p].thresholds = value]

UpdateThresholds(p, value, reply) ==
  /\ updates < MaxUpdates
  /\ ~Busy(p)
  /\ reply \in Replies(p)
  /\ memory' = Remembered(p, value, reply)
  /\ mongo' = IF Reaches(reply) THEN [mongo EXCEPT !.thresholds = value] ELSE mongo
  /\ latest' = [by |-> p, value |-> value, reached |-> Reaches(reply)]
  /\ updates' = updates + 1
  /\ UNCHANGED <<handle, pending, actions, restarts, apart>>

(* A process dies and starts again: startup calls _get_db once.            *)
Restart(p) ==
  /\ restarts < MaxRestarts
  /\ restarts' = restarts + 1
  /\ \E h \in {"connected", "off"} : handle' = [handle EXCEPT ![p] = h]
  /\ memory' = [memory EXCEPT ![p] = Fresh]
  /\ pending' = [pending EXCEPT ![p] = Nothing]
  /\ apart' = IF Busy(p) THEN Apart(pending[p], FALSE) ELSE apart
  /\ latest' = IF latest.by = p THEN [latest EXCEPT !.by = Unset] ELSE latest
  /\ UNCHANGED <<mongo, actions, updates>>

-----------------------------------------------------------------------------
(* The reads change nothing: what they return when MongoDB answers, and    *)
(* when it does not.                                                       *)

StoreRead(p, answers) == IF handle[p] = "connected" /\ answers THEN mongo ELSE memory[p]

(* get_frozen_users                                                        *)
FrozenUsers(p, answers) == {u \in Users : StoreRead(p, answers).status[u] = "frozen"}

(* get_freeze_log, of one user: the newest entry is the first.             *)
LogOf(store, u) == {e \in store.log : e.user = u}

LoggedFrozen(store, u) ==
  \E e \in LogOf(store, u) :
    e.action = "freeze" /\ \A f \in LogOf(store, u) : f.time <= e.time

(* get_thresholds: without a document the copy in memory.                  *)
ThresholdsRead(p, answers) ==
  IF StoreRead(p, answers).thresholds = Unset THEN memory[p].thresholds
                                              ELSE StoreRead(p, answers).thresholds

-----------------------------------------------------------------------------
(* All bounds are reached and nothing is owed: the model ends here.        *)
Exhausted ==
  /\ actions = MaxActions /\ updates = MaxUpdates /\ restarts = MaxRestarts
  /\ \A p \in Processes : ~Busy(p)
  /\ UNCHANGED vars

AllReplies == {"ok", "lost", "failed"}

Next ==
  \E p \in Processes :
    \/ \E u \in Users, action \in Actions : Stamp(p, u, action)
    \/ \E reply \in AllReplies : Log(p, reply) \/ Mark(p, reply)
    \/ \E value \in Thresholds, reply \in AllReplies : UpdateThresholds(p, value, reply)
    \/ Restart(p)
    \/ Exhausted

Spec == Init /\ [][Next]_vars

-----------------------------------------------------------------------------
(* Properties.                                                             *)

StoreType(values) == [log : SUBSET Entries, status : [Users -> Statuses], thresholds : values]

Pairs == [at : {"log", "mark"}, time : 1 .. MaxActions, user : Users, action : Actions,
          logged : BOOLEAN, crossed : BOOLEAN]

TypeOK ==
  /\ handle \in [Processes -> {"connected", "off"}]
  /\ mongo \in StoreType(Thresholds \cup {Unset})
  /\ memory \in [Processes -> StoreType(Thresholds)]
  /\ pending \in [Processes -> Pairs \cup {Nothing}]
  /\ actions \in 0 .. MaxActions /\ updates \in 0 .. MaxUpdates
  /\ restarts \in 0 .. MaxRestarts
  /\ apart \subseteq Users
  /\ latest \in [by : Processes \cup {Unset}, value : Thresholds, reached : BOOLEAN]

(* Whoever is listed as frozen has a freeze in the log, whichever of the   *)
(* two writes of the freeze fell back to memory: for a list from memory,   *)
(* one that MongoDB or the same memory has; for the list of MongoDB, one   *)
(* in MongoDB or in some memory, unless the writes came apart and the      *)
(* process that had the entry in its memory may have died since.           *)
FreezeLogged(store, u) == \E e \in LogOf(store, u) : e.action = "freeze"

FreezesAreLogged ==
  \A u \in Users :
    /\ \A p \in Processes : memory[p].status[u] = "frozen" =>
         FreezeLogged(mongo, u) \/ FreezeLogged(memory[p], u)
    /\ mongo.status[u] = "frozen" =>
         \/ FreezeLogged(mongo, u)
         \/ \E p \in Processes : FreezeLogged(memory[p], u)
         \/ u \in apart /\ restarts > 0

(* The log and the list in MongoDB agree about every user whom no handler  *)
(* is recording, unless the two writes came apart (one of them missed      *)
(* MongoDB, a restart fell between, or two processes crossed) and no whole *)
(* pair has followed.                                                      *)
LogAndListAgree ==
  \A u \in Users \ apart :
    (\A p \in Processes : pending[p].user # u)
      => (LoggedFrozen(mongo, u) <=> mongo.status[u] = "frozen")

(* An entry of the freeze log that a handler has finished writing is in    *)
(* MongoDB or in the memory of some process, as long as none has died.     *)
EntriesAreKept ==
  restarts = 0 => \A t \in 1 .. actions :
    \/ \E p \in Processes : pending[p].at = "log" /\ pending[p].time = t
    \/ \E store \in {mongo} \cup {memory[p] : p \in Processes} :
         \E e \in store.log : e.time = t

(* A process without MongoDB never contradicts itself: its log and its     *)
(* list agree about every user it is not recording.                        *)
OffProcessAgrees ==
  \A p \in Processes : handle[p] = "off" =>
    \A u \in Users : pending[p].user # u
      => (LoggedFrozen(memory[p], u) <=> u \in FrozenUsers(p, TRUE))

(* Whoever updated the thresholds last reads its own update back, whether  *)
(* or not MongoDB answers the read, unless the update itself missed a      *)
(* document that MongoDB has.                                              *)
ThresholdsReadBack ==
  \A p \in Processes :
    /\ latest.by = p
    /\ latest.reached \/ mongo.thresholds = Unset \/ handle[p] = "off"
    => \A answers \in BOOLEAN : ThresholdsRead(p, answers) = latest.value
=============================================================================
