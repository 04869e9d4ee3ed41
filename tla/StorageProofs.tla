--------------------------- MODULE StorageProofs ---------------------------
(***************************************************************************)
(* Theorems about Storage, for any number of processes, users, freezes,    *)
(* updates and restarts: what MongoDB and the memories of the processes    *)
(* know of the frozen users, of the freeze log and of the thresholds.      *)
(***************************************************************************)
EXTENDS Storage, TLAPS

-----------------------------------------------------------------------------
(* The parts of the inductive invariant.                                   *)

(* Entries get their times in the order in which they are built.           *)
EntryOf(w) == [time |-> w.time, user |-> w.user, action |-> w.action]

Stores == {mongo} \cup {memory[p] : p \in Processes}

TimesAreTaken ==
  /\ \A store \in Stores : \A e \in store.log : e.time <= actions
  /\ \A p \in Processes : Busy(p) => pending[p].time <= actions

NothingLoggedYet == \A p \in Processes : pending[p].at = "log" => ~pending[p].logged

(* Two processes that record the same user have both noticed.              *)
CrossingIsNoted ==
  \A p, q \in Processes :
    p # q /\ Busy(p) /\ Busy(q) /\ pending[p].user = pending[q].user => pending[p].crossed

(* The entry of w will be, and is, the newest of its user in the store.    *)
Before(store, w) == \A f \in LogOf(store, w.user) : f.time < w.time

Newest(store, w) ==
  /\ EntryOf(w) \in store.log
  /\ \A f \in LogOf(store, w.user) : f = EntryOf(w) \/ f.time < w.time

(* An uncrossed pair of writes finds only older entries of its user in     *)
(* MongoDB.                                                                *)
MongoOrder ==
  \A p \in Processes : Busy(p) /\ ~pending[p].crossed =>
    /\ pending[p].at = "log" => Before(mongo, pending[p])
    /\ pending[p].at = "mark" /\ pending[p].logged => Newest(mongo, pending[p])

(* The memory of a process holds only its own entries; without MongoDB it  *)
(* holds every entry since the start.                                      *)
MemoryOrder ==
  \A p \in Processes :
    /\ pending[p].at = "log" => Before(memory[p], pending[p])
    /\ pending[p].at = "mark" /\ handle[p] = "off" => Newest(memory[p], pending[p])

Agree(store, u) == LoggedFrozen(store, u) <=> store.status[u] = "frozen"

(* Log and list of MongoDB agree about a user whose pairs of writes have   *)
(* not come apart, until the first write of the next pair.                 *)
MongoAgrees ==
  \A u \in Users \ apart :
    (\A p \in Processes : pending[p].user = u => ~pending[p].logged) => Agree(mongo, u)

OffMemoryAgrees ==
  \A p \in Processes : handle[p] = "off" =>
    \A u \in Users : pending[p].user # u => Agree(memory[p], u)

(* The entry of a pair is written before its mark, and stays: in MongoDB,  *)
(* or else in the memory of the process that goes on to write the mark.    *)
MarkFollowsEntry ==
  \A p \in Processes : pending[p].at = "mark" =>
    EntryOf(pending[p]) \in IF pending[p].logged THEN mongo.log ELSE memory[p].log

(* So every mark as frozen has a freeze in the log: in MongoDB or in the   *)
(* same memory, and where the writes came apart in some memory, until a    *)
(* process dies.                                                           *)
MemoryMarksAreLogged ==
  \A p \in Processes, u \in Users : memory[p].status[u] = "frozen" =>
    FreezeLogged(mongo, u) \/ FreezeLogged(memory[p], u)

MongoMarksAreLogged ==
  \A u \in Users : mongo.status[u] = "frozen" =>
    /\ FreezeLogged(mongo, u) \/ u \in apart
    /\ \/ FreezeLogged(mongo, u)
       \/ \E p \in Processes : FreezeLogged(memory[p], u)
       \/ restarts > 0

MarksAreLogged == MarkFollowsEntry /\ MemoryMarksAreLogged /\ MongoMarksAreLogged

(* Whoever updated the thresholds last remembers them, and MongoDB has     *)
(* them if they reached it.                                                *)
LatestIsStored ==
  /\ \A p \in Processes : latest.by = p => memory[p].thresholds = latest.value
  /\ latest.reached => mongo.thresholds = latest.value

Inductive ==
  /\ TypeOK
  /\ TimesAreTaken
  /\ NothingLoggedYet
  /\ CrossingIsNoted
  /\ MongoOrder
  /\ MemoryOrder
  /\ MongoAgrees
  /\ OffMemoryAgrees
  /\ MarksAreLogged
  /\ EntriesAreKept
  /\ LatestIsStored

-----------------------------------------------------------------------------
(* The stores.                                                             *)

LEMMA FreshStore ==
  /\ Empty \in StoreType({Unset}) /\ Fresh \in StoreType(Thresholds)
  /\ Empty.log = {} /\ Empty.thresholds = Unset
  /\ Fresh.log = {} /\ Fresh.thresholds = Default
  /\ \A u \in Users : Empty.status[u] = "none" /\ Fresh.status[u] = "none"
<1>1. /\ Empty \in StoreType({Unset}) /\ Empty.log = {} /\ Empty.thresholds = Unset
      /\ \A u \in Users : Empty.status[u] = "none"
  BY DEF Empty, StoreType, Statuses
<1> HIDE DEF Empty
<1>2. /\ Fresh \in StoreType(Thresholds) /\ Fresh.thresholds = Default
      /\ Fresh.log = Empty.log /\ Fresh.status = Empty.status
  BY <1>1, ThresholdsAssumption DEF Fresh, StoreType
<1> QED BY <1>1, <1>2

LEMMA EntryInStore ==
  ASSUME NEW V, NEW store \in StoreType(V), NEW e \in Entries
  PROVE  /\ WithEntry(store, e) \in StoreType(V)
         /\ WithEntry(store, e).log = store.log \cup {e}
         /\ WithEntry(store, e).status = store.status
         /\ WithEntry(store, e).thresholds = store.thresholds
BY DEF WithEntry, StoreType

LEMMA MarkInStore ==
  ASSUME NEW V, NEW store \in StoreType(V), NEW u \in Users, NEW action \in Actions
  PROVE  /\ WithMark(store, u, action) \in StoreType(V)
         /\ WithMark(store, u, action).log = store.log
         /\ WithMark(store, u, action).thresholds = store.thresholds
         /\ \A v \in Users \ {u} : WithMark(store, u, action).status[v] = store.status[v]
         /\ WithMark(store, u, action).status[u] = "frozen" <=> action = "freeze"
BY DEF WithMark, StoreType, Statuses, Actions

LEMMA ThresholdsInStore ==
  ASSUME NEW V, NEW store \in StoreType(V), NEW value \in V
  PROVE  /\ [store EXCEPT !.thresholds = value] \in StoreType(V)
         /\ [store EXCEPT !.thresholds = value].log = store.log
         /\ [store EXCEPT !.thresholds = value].status = store.status
         /\ [store EXCEPT !.thresholds = value].thresholds = value
BY DEF StoreType

(* The newest entry of a user says what its log does.                      *)
LEMMA NewestDecides ==
  ASSUME NEW store, store.log \subseteq Entries, NEW w, EntryOf(w) \in Entries, Newest(store, w)
  PROVE  LoggedFrozen(store, w.user) <=> w.action = "freeze"
<1> DEFINE n == EntryOf(w)
<1>1. n \in LogOf(store, w.user) /\ n.action = w.action /\ n.time = w.time
  BY DEF Newest, LogOf, EntryOf
<1>2. \A f \in LogOf(store, w.user) : f = n \/ f.time < w.time
  BY DEF Newest
<1>3. w.time \in Nat /\ \A f \in LogOf(store, w.user) : f.time \in Nat
  BY BoundsAssumption DEF LogOf, Entries, EntryOf
<1> HIDE DEF n
<1> QED BY <1>1, <1>2, <1>3 DEF LoggedFrozen

(* An entry that comes after those in the store is the newest there.       *)
LEMMA BeforeThenNewest ==
  ASSUME NEW V, NEW store \in StoreType(V), NEW w, EntryOf(w) \in Entries, Before(store, w)
  PROVE  Newest(WithEntry(store, EntryOf(w)), w)
BY EntryInStore DEF Newest, Before, LogOf, EntryOf

-----------------------------------------------------------------------------
(* A pending pair of writes.                                               *)

LEMMA PendingIsPair ==
  ASSUME TypeOK, NEW p \in Processes
  PROVE  /\ Busy(p) <=> pending[p] \in Pairs
         /\ Busy(p) <=> pending[p].at \in {"log", "mark"}
         /\ ~Busy(p) => pending[p].user \notin Users /\ ~pending[p].logged
         /\ Busy(p) => EntryOf(pending[p]) \in Entries
<1>1. Nothing.at = "idle" /\ Nothing.user = Unset /\ ~Nothing.logged /\ Nothing \notin Pairs
  BY DEF Nothing, Pairs
<1> HIDE DEF Nothing
<1>2. CASE Busy(p)
  <2>1. pending[p] \in Pairs /\ pending[p] # Nothing
    BY <1>2 DEF TypeOK, Pairs, Busy
  <2> QED BY <1>2, <2>1 DEF Pairs, EntryOf, Entries
<1>3. CASE ~Busy(p)
  BY <1>1, <1>3, UnsetAssumption DEF Busy
<1> QED BY <1>2, <1>3

-----------------------------------------------------------------------------
(* A handler builds its entry: its time is the newest of all.              *)
LEMMA StampKeeps ==
  ASSUME Inductive, NEW p \in Processes, NEW u \in Users, NEW action \in Actions,
         Stamp(p, u, action)
  PROVE  Inductive'
<1>1. TypeOK /\ actions \in Nat /\ MaxActions \in Nat /\ actions < MaxActions
  BY BoundsAssumption DEF Inductive, TypeOK, Stamp
<1>2. /\ ~Busy(p) /\ actions' = actions + 1
      /\ UNCHANGED <<handle, mongo, memory, updates, restarts, historyVars>>
  BY DEF Stamp
<1>3. /\ pending'[p] \in Pairs /\ pending'[p].at = "log" /\ pending'[p].time = actions + 1
      /\ pending'[p].user = u /\ pending'[p].action = action /\ ~pending'[p].logged
      /\ pending'[p].crossed <=> \E q \in Processes : pending[q].user = u
  BY <1>1 DEF Stamp, Pairs
<1>4. ASSUME NEW q \in Processes \ {p}
      PROVE  /\ Busy(q)' <=> Busy(q)
             /\ pending'[q].at = pending[q].at /\ pending'[q].time = pending[q].time
             /\ pending'[q].user = pending[q].user /\ pending'[q].action = pending[q].action
             /\ pending'[q].logged = pending[q].logged
             /\ Busy(q) => /\ pending'[q] \in Pairs
                           /\ pending'[q].crossed <=> (pending[q].crossed \/ pending[q].user = u)
  <2>1. CASE pending[q].user = u
    <3>1. pending[q] \in Pairs /\ pending'[q] = [pending[q] EXCEPT !.crossed = TRUE]
      BY <1>1, <2>1, PendingIsPair DEF Stamp
    <3>2. Nothing.at = "idle"
      BY DEF Nothing
    <3> QED BY <2>1, <3>1, <3>2 DEF Pairs, Busy
  <2>2. CASE pending[q].user # u
    <3>1. pending'[q] = pending[q]
      BY <2>2 DEF Stamp
    <3> QED BY <1>1, <2>2, <3>1, PendingIsPair DEF Busy, Pairs
  <2> QED BY <2>1, <2>2
<1>5. Busy(p)'
  BY <1>3 DEF Busy, Nothing
<1> USE DEF Inductive
<1>6. TypeOK'
  <2>1. actions' \in 0 .. MaxActions
    BY <1>1, <1>2
  <2>2. pending' \in [Processes -> Pairs \cup {Nothing}]
    <3>1. \A q \in Processes : pending'[q] \in Pairs \cup {Nothing}
      BY <1>3, <1>4 DEF Busy
    <3>2. pending' = [q \in Processes |-> pending'[q]]
      BY DEF Stamp
    <3> QED BY <3>1, <3>2
  <2> QED BY <1>1, <1>2, <2>1, <2>2 DEF TypeOK, historyVars
<1>7. TimesAreTaken'
  <2>1. \A store \in Stores : \A e \in store.log : e.time \in Nat
    BY <1>1 DEF TypeOK, Stores, StoreType, Entries
  <2>2. \A q \in Processes : Busy(q) => pending[q].time \in Nat
    BY <1>1, PendingIsPair DEF Pairs
  <2>3. \A store \in Stores' : \A e \in store.log : e.time <= actions'
    BY <1>1, <1>2, <2>1 DEF TimesAreTaken, Stores
  <2>4. \A q \in Processes : Busy(q)' => pending'[q].time <= actions'
    BY <1>1, <1>2, <1>3, <1>4, <2>2 DEF TimesAreTaken
  <2> QED BY <2>3, <2>4 DEF TimesAreTaken
<1>8. NothingLoggedYet'
  BY <1>3, <1>4 DEF NothingLoggedYet
<1>9. CrossingIsNoted'
  <2> SUFFICES ASSUME NEW q \in Processes, NEW r \in Processes, q # r, Busy(q)', Busy(r)',
                      pending'[q].user = pending'[r].user
               PROVE  pending'[q].crossed
    BY DEF CrossingIsNoted
  <2>1. CASE q = p
    BY <1>3, <1>4, <2>1
  <2>2. CASE q # p /\ r = p
    BY <1>3, <1>4, <2>2
  <2>3. CASE q # p /\ r # p
    BY <1>4, <2>3 DEF CrossingIsNoted
  <2> QED BY <2>1, <2>2, <2>3
<1>10. MongoOrder' /\ MemoryOrder'
  <2>1. /\ \A f \in mongo.log : f.time < actions + 1
        /\ \A f \in memory[p].log : f.time < actions + 1
    <3>1. \A store \in Stores : \A e \in store.log : e.time \in Nat /\ e.time <= actions
      BY <1>1 DEF TypeOK, Stores, StoreType, Entries, TimesAreTaken
    <3> QED BY <1>1, <3>1 DEF Stores
  <2>2. Before(mongo, pending[p])' /\ Before(memory[p], pending[p])'
    BY <1>2, <1>3, <2>1 DEF Before, LogOf
  <2>3. ASSUME NEW q \in Processes \ {p}, NEW store
        PROVE  /\ Before(store, pending'[q]) <=> Before(store, pending[q])
               /\ Newest(store, pending'[q]) <=> Newest(store, pending[q])
    BY <1>4 DEF Before, Newest, LogOf, EntryOf
  <2>4. MongoOrder'
    BY <1>2, <1>3, <1>4, <2>2, <2>3 DEF MongoOrder
  <2>5. MemoryOrder'
    BY <1>2, <1>3, <1>4, <2>2, <2>3 DEF MemoryOrder
  <2> QED BY <2>4, <2>5
<1>11. MongoAgrees'
  <2> SUFFICES ASSUME NEW v \in Users \ apart,
                      \A q \in Processes : pending'[q].user = v => ~pending'[q].logged
               PROVE  Agree(mongo, v)
    BY <1>2 DEF MongoAgrees, Agree, LoggedFrozen, LogOf, historyVars
  <2>1. \A q \in Processes : pending[q].user = v => ~pending[q].logged
    BY <1>1, <1>2, <1>4, PendingIsPair
  <2> QED BY <2>1 DEF MongoAgrees
<1>12. OffMemoryAgrees'
  <2> SUFFICES ASSUME NEW q \in Processes, handle[q] = "off", NEW v \in Users,
                      pending'[q].user # v
               PROVE  Agree(memory[q], v)
    BY <1>2 DEF OffMemoryAgrees, Agree, LoggedFrozen, LogOf
  <2>1. pending[q].user # v
    BY <1>1, <1>2, <1>4, PendingIsPair
  <2> QED BY <2>1 DEF OffMemoryAgrees
<1>13. MarksAreLogged' /\ LatestIsStored'
  <2>1. MarkFollowsEntry'
    BY <1>2, <1>3, <1>4 DEF MarksAreLogged, MarkFollowsEntry, EntryOf
  <2>2. MemoryMarksAreLogged' /\ MongoMarksAreLogged' /\ LatestIsStored'
    BY <1>2 DEF MarksAreLogged, MemoryMarksAreLogged, MongoMarksAreLogged, FreezeLogged, LogOf,
                LatestIsStored, historyVars
  <2> QED BY <2>1, <2>2 DEF MarksAreLogged
<1>14. EntriesAreKept'
  <2> SUFFICES ASSUME restarts = 0, NEW t \in 1 .. actions + 1
               PROVE  \/ \E q \in Processes : pending'[q].at = "log" /\ pending'[q].time = t
                      \/ \E store \in {mongo} \cup {memory[q] : q \in Processes} :
                           \E e \in store.log : e.time = t
    BY <1>2 DEF EntriesAreKept
  <2>1. CASE t = actions + 1
    BY <1>3, <2>1
  <2>2. CASE t \in 1 .. actions
    <3>1. ASSUME NEW q \in Processes, pending[q].at = "log"
          PROVE  q # p
      BY <1>1, <1>2, <3>1, PendingIsPair
    <3> QED BY <1>4, <2>2, <3>1 DEF EntriesAreKept
  <2> QED BY <1>1, <2>1, <2>2
<1> QED BY <1>6, <1>7, <1>8, <1>9, <1>10, <1>11, <1>12, <1>13, <1>14

(* The first write: the entry goes to MongoDB, to the memory, or to both.  *)
LEMMA LogKeeps ==
  ASSUME Inductive, NEW p \in Processes, NEW reply \in AllReplies, Log(p, reply)
  PROVE  Inductive'
<1> DEFINE w == pending[p]
           e == EntryOf(w)
<1>1. /\ TypeOK /\ w \in Pairs /\ w.at = "log" /\ e \in Entries /\ w.user \in Users
      /\ Busy(p) /\ ~w.logged /\ e.time = w.time /\ e.user = w.user
  <2>1. Busy(p)
    BY DEF Log, Busy, Nothing
  <2> QED BY <2>1, PendingIsPair DEF Inductive, Log, NothingLoggedYet, Pairs, EntryOf
<1>2. /\ UNCHANGED <<handle, actions, updates, restarts, historyVars>>
      /\ mongo' = IF Reaches(reply) THEN WithEntry(mongo, e) ELSE mongo
      /\ memory' = IF FallsBack(reply) THEN [memory EXCEPT ![p] = WithEntry(@, e)] ELSE memory
      /\ Reaches(reply) \in BOOLEAN /\ FallsBack(reply) \in BOOLEAN
      /\ Reaches(reply) \/ FallsBack(reply)
      /\ handle[p] = "off" => FallsBack(reply)
  BY DEF Log, EntryOf, Reaches, FallsBack, Replies
<1>3. /\ pending'[p] \in Pairs /\ pending'[p].at = "mark" /\ pending'[p].time = w.time
      /\ pending'[p].user = w.user /\ pending'[p].action = w.action
      /\ pending'[p].crossed = w.crossed /\ pending'[p].logged = Reaches(reply)
      /\ pending' \in [Processes -> Pairs \cup {Nothing}]
      /\ \A q \in Processes \ {p} : pending'[q] = pending[q]
  <2> DEFINE v == [w EXCEPT !.at = "mark"]
  <2>1. v \in Pairs /\ v.at = "mark" /\ v.time = w.time /\ v.user = w.user
        /\ v.action = w.action /\ v.crossed = w.crossed
    BY <1>1 DEF Pairs
  <2>2. pending' = [pending EXCEPT ![p] = [v EXCEPT !.logged = Reaches(reply)]]
    BY DEF Log
  <2> HIDE DEF v, w
  <2>3. pending \in [Processes -> Pairs \cup {Nothing}]
    BY <1>1 DEF TypeOK
  <2>4. [v EXCEPT !.logged = Reaches(reply)] \in Pairs
    BY <1>2, <2>1 DEF Pairs
  <2> QED BY <1>2, <2>1, <2>2, <2>3, <2>4 DEF Pairs
<1>4. /\ mongo' \in StoreType(Thresholds \cup {Unset})
      /\ mongo'.status = mongo.status /\ mongo'.thresholds = mongo.thresholds
      /\ mongo'.log = IF Reaches(reply) THEN mongo.log \cup {e} ELSE mongo.log
  <2>1. mongo \in StoreType(Thresholds \cup {Unset})
    BY <1>1 DEF TypeOK
  <2> HIDE DEF e
  <2> QED BY ZenonT(30), <1>1, <1>2, <2>1, EntryInStore
<1>5. /\ memory' \in [Processes -> StoreType(Thresholds)]
      /\ \A q \in Processes : /\ memory'[q].status = memory[q].status
                              /\ memory'[q].thresholds = memory[q].thresholds
      /\ \A q \in Processes \ {p} : memory'[q] = memory[q]
      /\ memory'[p].log = IF FallsBack(reply) THEN memory[p].log \cup {e} ELSE memory[p].log
  <2>1. memory \in [Processes -> StoreType(Thresholds)]
    BY <1>1 DEF TypeOK
  <2> HIDE DEF e
  <2>2. /\ WithEntry(memory[p], e) \in StoreType(Thresholds)
        /\ WithEntry(memory[p], e).log = memory[p].log \cup {e}
        /\ WithEntry(memory[p], e).status = memory[p].status
        /\ WithEntry(memory[p], e).thresholds = memory[p].thresholds
    BY <1>1, <2>1, EntryInStore
  <2>3. CASE FallsBack(reply)
    BY <1>2, <2>1, <2>2, <2>3
  <2>4. CASE ~FallsBack(reply)
    BY <1>2, <2>1, <2>4
  <2> QED BY <2>3, <2>4
<1>6. EntryOf(pending'[p]) = e /\ \A q \in Processes : Busy(q)' <=> Busy(q)
  <2>1. Nothing.at = "idle"
    BY DEF Nothing
  <2>2. Busy(p) /\ Busy(p)'
    BY <1>1, <1>3, <2>1 DEF Busy
  <2> QED BY <1>3, <2>2 DEF EntryOf, Busy
<1>7. /\ \A v \in Users \ {w.user} : LogOf(mongo', v) = LogOf(mongo, v)
      /\ \A q \in Processes, v \in Users \ {w.user} : LogOf(memory'[q], v) = LogOf(memory[q], v)
  BY <1>1, <1>4, <1>5 DEF LogOf
<1> HIDE DEF w, e
<1> USE DEF Inductive
<1>8. TypeOK'
  BY <1>1, <1>2, <1>3, <1>4, <1>5 DEF TypeOK, historyVars
<1>9. TimesAreTaken'
  <2>1. e.time <= actions
    BY <1>1 DEF TimesAreTaken, w
  <2>2. \A store \in Stores' : \A f \in store.log : f.time <= actions
    BY <1>4, <1>5, <2>1 DEF TimesAreTaken, Stores
  <2> QED BY <1>2, <1>3, <1>6, <2>2 DEF TimesAreTaken, w
<1>10. NothingLoggedYet'
  BY <1>3 DEF NothingLoggedYet
<1>11. CrossingIsNoted'
  BY <1>3, <1>6 DEF CrossingIsNoted, w
<1>12. MongoOrder'
  <2> SUFFICES ASSUME NEW q \in Processes, Busy(q)', ~pending'[q].crossed
               PROVE  /\ pending'[q].at = "log" => Before(mongo', pending'[q])
                      /\ pending'[q].at = "mark" /\ pending'[q].logged
                           => Newest(mongo', pending'[q])
    BY DEF MongoOrder, Before, Newest, LogOf
  <2>1. CASE q = p /\ Reaches(reply)
    <3>1. Before(mongo, w)
      BY <1>1, <1>3, <1>6, <2>1 DEF MongoOrder, w
    <3>2. Newest(mongo', w)
      BY <1>1, <1>2, <2>1, <3>1, BeforeThenNewest DEF TypeOK, e
    <3> QED BY <1>3, <1>6, <2>1, <3>2 DEF Newest, LogOf, e
  <2>2. CASE q = p /\ ~Reaches(reply)
    BY <1>3, <2>2
  <2>3. CASE q # p
    <3>1. pending[q].user # w.user /\ pending[q].user \in Users
      BY <1>1, <1>3, <1>6, <2>3, PendingIsPair DEF CrossingIsNoted, w, Pairs
    <3>2. mongo.log \subseteq mongo'.log
      BY <1>4
    <3> QED BY <1>3, <1>6, <1>7, <2>3, <3>1, <3>2 DEF MongoOrder, Before, Newest
  <2> QED BY <2>1, <2>2, <2>3
<1>13. MemoryOrder'
  <2>1. handle[p] = "off" => Newest(memory'[p], w)
    <3>1. Before(memory[p], w)
      BY <1>1 DEF MemoryOrder, w
    <3>2. memory[p] \in StoreType(Thresholds)
      BY <1>1 DEF TypeOK
    <3>3. handle[p] = "off" => memory'[p] = WithEntry(memory[p], e)
      BY <1>1, <1>2 DEF TypeOK
    <3> QED BY <1>1, <3>1, <3>2, <3>3, BeforeThenNewest DEF e
  <2>2. handle[p] = "off" => Newest(memory'[p], pending'[p])
    BY <1>3, <1>6, <2>1 DEF Newest, LogOf, e
  <2> QED BY <1>2, <1>3, <1>5, <2>2 DEF MemoryOrder, Before, Newest, LogOf
<1>14. MongoAgrees'
  <2> SUFFICES ASSUME NEW v \in Users \ apart,
                      \A q \in Processes : pending'[q].user = v => ~pending'[q].logged
               PROVE  Agree(mongo', v)
    BY <1>2 DEF MongoAgrees, Agree, LoggedFrozen, LogOf, historyVars
  <2>1. \A q \in Processes : pending[q].user = v => ~pending[q].logged
    BY <1>1, <1>3 DEF w
  <2>2. Agree(mongo, v)
    BY <2>1 DEF MongoAgrees
  <2>3. LogOf(mongo', v) = LogOf(mongo, v)
    <3>1. CASE v = w.user
      BY <1>3, <1>4, <3>1 DEF LogOf
    <3>2. CASE v # w.user
      BY <1>7, <3>2
    <3> QED BY <3>1, <3>2
  <2> QED BY <1>4, <2>2, <2>3 DEF Agree, LoggedFrozen
<1>15. OffMemoryAgrees'
  <2> SUFFICES ASSUME NEW q \in Processes, handle[q] = "off", NEW v \in Users,
                      pending'[q].user # v
               PROVE  Agree(memory'[q], v)
    BY <1>2 DEF OffMemoryAgrees, Agree, LoggedFrozen, LogOf
  <2>1. Agree(memory[q], v)
    BY <1>3 DEF OffMemoryAgrees, w
  <2>2. LogOf(memory'[q], v) = LogOf(memory[q], v)
    <3>1. CASE q = p
      BY <1>3, <1>7, <3>1
    <3>2. CASE q # p
      BY <1>5, <3>2
    <3> QED BY <3>1, <3>2
  <2> QED BY <1>5, <2>1, <2>2 DEF Agree, LoggedFrozen
<1>16. MarksAreLogged' /\ LatestIsStored'
  <2>1. /\ mongo.log \subseteq mongo'.log
        /\ \A q \in Processes : memory[q].log \subseteq memory'[q].log
    BY <1>4, <1>5
  <2>2. MarkFollowsEntry'
    <3> SUFFICES ASSUME NEW q \in Processes, pending'[q].at = "mark"
                 PROVE  EntryOf(pending'[q]) \in
                          IF pending'[q].logged THEN mongo'.log ELSE memory'[q].log
      BY DEF MarkFollowsEntry, EntryOf
    <3>1. CASE q = p
      BY <1>2, <1>3, <1>4, <1>5, <1>6, <3>1
    <3>2. CASE q # p
      <4>1. EntryOf(pending[q]) \in IF pending[q].logged THEN mongo.log ELSE memory[q].log
        BY <1>3, <3>2 DEF MarksAreLogged, MarkFollowsEntry
      <4> QED BY <1>3, <2>1, <3>2, <4>1
    <3> QED BY <3>1, <3>2
  <2>3. /\ \A u \in Users : FreezeLogged(mongo, u) => FreezeLogged(mongo', u)
        /\ \A q \in Processes, u \in Users :
             FreezeLogged(memory[q], u) => FreezeLogged(memory'[q], u)
    BY <2>1 DEF FreezeLogged, LogOf
  <2>4. MemoryMarksAreLogged' /\ MongoMarksAreLogged'
    <3>1. /\ \A u \in Users : FreezeLogged(mongo, u)' <=> FreezeLogged(mongo', u)
          /\ \A q \in Processes, u \in Users :
               FreezeLogged(memory[q], u)' <=> FreezeLogged(memory'[q], u)
      BY DEF FreezeLogged, LogOf
    <3> QED BY <1>2, <1>4, <1>5, <2>3, <3>1
            DEF MarksAreLogged, MemoryMarksAreLogged, MongoMarksAreLogged, historyVars
  <2>5. LatestIsStored'
    BY <1>2, <1>4, <1>5 DEF LatestIsStored, historyVars
  <2> QED BY <2>2, <2>4, <2>5 DEF MarksAreLogged
<1>17. EntriesAreKept'
  <2> SUFFICES ASSUME restarts = 0, NEW t \in 1 .. actions
               PROVE  \/ \E q \in Processes : pending'[q].at = "log" /\ pending'[q].time = t
                      \/ \E store \in {mongo'} \cup {memory'[q] : q \in Processes} :
                           \E f \in store.log : f.time = t
    BY <1>2 DEF EntriesAreKept
  <2>1. CASE t = w.time
    <3>1. e \in mongo'.log \/ e \in memory'[p].log
      BY <1>2, <1>4, <1>5
    <3> QED BY <1>1, <2>1, <3>1
  <2>2. CASE t # w.time
    <3>1. /\ mongo.log \subseteq mongo'.log
          /\ \A q \in Processes : memory[q].log \subseteq memory'[q].log
      BY <1>4, <1>5
    <3>2. CASE \E q \in Processes : pending[q].at = "log" /\ pending[q].time = t
      BY <1>3, <2>2, <3>2 DEF w
    <3>3. CASE \E store \in {mongo} \cup {memory[q] : q \in Processes} :
                 \E f \in store.log : f.time = t
      BY <3>1, <3>3
    <3> QED BY <3>2, <3>3 DEF EntriesAreKept
  <2> QED BY <2>1, <2>2
<1> QED BY <1>8, <1>9, <1>10, <1>11, <1>12, <1>13, <1>14, <1>15, <1>16, <1>17

(* The second write: the mark follows its entry, and settles whether the   *)
(* pair has come apart.                                                    *)
LEMMA MarkKeeps ==
  ASSUME Inductive, NEW p \in Processes, NEW reply \in AllReplies, Mark(p, reply)
  PROVE  Inductive'
<1> DEFINE w == pending[p]
<1>1. /\ TypeOK /\ w \in Pairs /\ w.at = "mark" /\ EntryOf(w) \in Entries
      /\ Busy(p) /\ w.user \in Users /\ w.action \in Actions
  <2>1. Busy(p)
    BY DEF Mark, Busy, Nothing
  <2> QED BY <2>1, PendingIsPair DEF Inductive, Mark, Pairs
<1>2. /\ UNCHANGED <<handle, actions, updates, restarts, latest>>
      /\ mongo' = IF Reaches(reply) THEN WithMark(mongo, w.user, w.action) ELSE mongo
      /\ memory' = IF FallsBack(reply)
                   THEN [memory EXCEPT ![p] = WithMark(@, w.user, w.action)] ELSE memory
      /\ handle[p] = "off" => FallsBack(reply)
      /\ apart' = Apart(w, Reaches(reply))
      /\ pending' = [pending EXCEPT ![p] = Nothing]
  BY DEF Mark, Reaches, FallsBack, Replies
<1>3. /\ Nothing.at = "idle" /\ Nothing.user \notin Users /\ ~Nothing.logged
  BY UnsetAssumption DEF Nothing
<1>4. /\ pending' \in [Processes -> Pairs \cup {Nothing}]
      /\ pending'[p] = Nothing /\ ~Busy(p)'
      /\ \A q \in Processes \ {p} : pending'[q] = pending[q] /\ Busy(q)' = Busy(q)
  BY <1>1, <1>2 DEF TypeOK, Busy
<1>5. /\ mongo' \in StoreType(Thresholds \cup {Unset})
      /\ mongo'.log = mongo.log /\ mongo'.thresholds = mongo.thresholds
      /\ \A v \in Users \ {w.user} : mongo'.status[v] = mongo.status[v]
      /\ Reaches(reply) => (mongo'.status[w.user] = "frozen" <=> w.action = "freeze")
      /\ ~Reaches(reply) => mongo' = mongo
  <2>1. mongo \in StoreType(Thresholds \cup {Unset})
    BY <1>1 DEF TypeOK
  <2> HIDE DEF w
  <2>2. CASE Reaches(reply)
    BY <1>1, <1>2, <2>1, <2>2, MarkInStore
  <2>3. CASE ~Reaches(reply)
    BY <1>2, <2>1, <2>3
  <2> QED BY <2>2, <2>3
<1>6. /\ memory' \in [Processes -> StoreType(Thresholds)]
      /\ \A q \in Processes : /\ memory'[q].log = memory[q].log
                              /\ memory'[q].thresholds = memory[q].thresholds
      /\ \A q \in Processes \ {p} : memory'[q] = memory[q]
      /\ \A v \in Users \ {w.user} : memory'[p].status[v] = memory[p].status[v]
      /\ FallsBack(reply) => (memory'[p].status[w.user] = "frozen" <=> w.action = "freeze")
  <2>1. memory \in [Processes -> StoreType(Thresholds)]
    BY <1>1 DEF TypeOK
  <2> HIDE DEF w
  <2> DEFINE m == WithMark(memory[p], w.user, w.action)
  <2>2. /\ m \in StoreType(Thresholds) /\ m.log = memory[p].log
        /\ m.thresholds = memory[p].thresholds
        /\ \A v \in Users \ {w.user} : m.status[v] = memory[p].status[v]
        /\ m.status[w.user] = "frozen" <=> w.action = "freeze"
    BY <1>1, <2>1, MarkInStore
  <2>3. memory' = IF FallsBack(reply) THEN [memory EXCEPT ![p] = m] ELSE memory
    BY <1>2
  <2> HIDE DEF m
  <2>4. CASE FallsBack(reply)
    BY <2>1, <2>2, <2>3, <2>4
  <2>5. CASE ~FallsBack(reply)
    BY <2>1, <2>3, <2>5
  <2> QED BY <2>4, <2>5
<1>7. /\ apart' \subseteq Users /\ apart \ {w.user} \subseteq apart'
      /\ w.user \notin apart' => \/ w.logged /\ Reaches(reply) /\ ~w.crossed
                                 \/ ~w.logged /\ ~Reaches(reply) /\ w.user \notin apart
  BY <1>1, <1>2 DEF Apart, TypeOK
<1>8. /\ \A store, v : LoggedFrozen(store, v) <=>
           \E f \in LogOf(store, v) :
             f.action = "freeze" /\ \A g \in LogOf(store, v) : g.time <= f.time
      /\ \A v : LogOf(mongo', v) = LogOf(mongo, v)
      /\ \A q \in Processes : \A v : LogOf(memory'[q], v) = LogOf(memory[q], v)
  BY <1>5, <1>6 DEF LoggedFrozen, LogOf
<1> HIDE DEF w
<1> USE DEF Inductive
<1>9. TypeOK'
  BY <1>1, <1>2, <1>4, <1>5, <1>6, <1>7 DEF TypeOK
<1>10. TimesAreTaken'
  <2>1. \A store \in Stores' : \A f \in store.log : f.time <= actions
    BY <1>5, <1>6 DEF TimesAreTaken, Stores
  <2> QED BY <1>2, <1>4, <2>1 DEF TimesAreTaken
<1>11. NothingLoggedYet' /\ CrossingIsNoted'
  BY <1>3, <1>4 DEF NothingLoggedYet, CrossingIsNoted
<1>12. MongoOrder'
  BY <1>4, <1>5, <1>8 DEF MongoOrder, Before, Newest
<1>13. MemoryOrder'
  BY <1>2, <1>3, <1>4, <1>6, <1>8 DEF MemoryOrder, Before, Newest
<1>14. MongoAgrees'
  <2> SUFFICES ASSUME NEW v \in Users \ apart',
                      \A q \in Processes : pending'[q].user = v => ~pending'[q].logged
               PROVE  Agree(mongo', v)
    BY DEF MongoAgrees, Agree, LoggedFrozen, LogOf
  <2>1. CASE v # w.user
    <3>1. Agree(mongo, v)
      BY <1>4, <1>7, <2>1 DEF MongoAgrees, w
    <3> QED BY <1>5, <1>8, <2>1, <3>1 DEF Agree
  <2>2. CASE v = w.user /\ w.logged /\ Reaches(reply) /\ ~w.crossed
    <3>1. Newest(mongo, w)
      BY <1>1, <2>2 DEF MongoOrder, w
    <3>2. LoggedFrozen(mongo, v) <=> w.action = "freeze"
      BY <1>1, <2>2, <3>1, NewestDecides DEF TypeOK, StoreType
    <3> QED BY <1>5, <1>8, <2>2, <3>2 DEF Agree
  <2>3. CASE v = w.user /\ ~w.logged /\ ~Reaches(reply) /\ w.user \notin apart
    <3>1. Agree(mongo, v)
      BY <1>4, <2>3 DEF MongoAgrees, w
    <3> QED BY <1>5, <2>3, <3>1 DEF Agree
  <2> QED BY <1>7, <2>1, <2>2, <2>3
<1>15. OffMemoryAgrees'
  <2> SUFFICES ASSUME NEW q \in Processes, handle[q] = "off", NEW v \in Users,
                      pending'[q].user # v
               PROVE  Agree(memory'[q], v)
    BY <1>2 DEF OffMemoryAgrees, Agree, LoggedFrozen, LogOf
  <2>1. CASE q # p
    BY <1>4, <1>6, <2>1 DEF OffMemoryAgrees
  <2>2. CASE q = p /\ v # w.user
    <3>1. Agree(memory[p], v)
      BY <2>2 DEF OffMemoryAgrees, w
    <3> QED BY <1>6, <1>8, <2>2, <3>1 DEF Agree
  <2>3. CASE q = p /\ v = w.user
    <3>1. Newest(memory[p], w)
      BY <1>1, <2>3 DEF MemoryOrder, w
    <3>2. LoggedFrozen(memory[p], v) <=> w.action = "freeze"
      BY <1>1, <2>3, <3>1, NewestDecides DEF TypeOK, StoreType
    <3>3. FallsBack(reply)
      BY <1>2, <2>3
    <3>4. LoggedFrozen(memory'[p], v) <=> LoggedFrozen(memory[p], v)
      BY <1>8
    <3> QED BY <1>6, <2>3, <3>2, <3>3, <3>4 DEF Agree
  <2> QED BY <2>1, <2>2, <2>3
<1>16. MarksAreLogged'
  <2>1. MarkFollowsEntry'
    BY <1>3, <1>4, <1>5, <1>6 DEF MarksAreLogged, MarkFollowsEntry, EntryOf
  <2>2. /\ \A u \in Users : FreezeLogged(mongo, u)' <=> FreezeLogged(mongo, u)
        /\ \A q \in Processes, u \in Users :
             FreezeLogged(memory[q], u)' <=> FreezeLogged(memory[q], u)
    BY <1>5, <1>6 DEF FreezeLogged, LogOf
  <2>3. w.action = "freeze" =>
          IF w.logged THEN FreezeLogged(mongo, w.user) ELSE FreezeLogged(memory[p], w.user)
    <3>1. EntryOf(w) \in IF w.logged THEN mongo.log ELSE memory[p].log
      BY <1>1 DEF MarksAreLogged, MarkFollowsEntry, w
    <3> QED BY <3>1 DEF FreezeLogged, LogOf, EntryOf
  <2>4. MemoryMarksAreLogged'
    <3> SUFFICES ASSUME NEW q \in Processes, NEW v \in Users, memory'[q].status[v] = "frozen"
                 PROVE  FreezeLogged(mongo, v) \/ FreezeLogged(memory[q], v)
      BY <2>2 DEF MemoryMarksAreLogged
    <3>1. CASE memory[q].status[v] = "frozen"
      BY <3>1 DEF MarksAreLogged, MemoryMarksAreLogged
    <3>2. CASE memory[q].status[v] # "frozen"
      <4>1. q = p /\ v = w.user
        BY <1>6, <3>2
      <4>2. FallsBack(reply)
        BY <1>2, <3>2, <4>1
      <4> QED BY <1>6, <2>3, <4>1, <4>2
    <3> QED BY <3>1, <3>2
  <2>5. MongoMarksAreLogged'
    <3> SUFFICES ASSUME NEW v \in Users, mongo'.status[v] = "frozen"
                 PROVE  /\ FreezeLogged(mongo, v) \/ v \in apart'
                        /\ \/ FreezeLogged(mongo, v)
                           \/ \E q \in Processes : FreezeLogged(memory[q], v)
                           \/ restarts > 0
      BY <1>2, <2>2 DEF MongoMarksAreLogged
    <3>1. CASE v # w.user
      BY <1>5, <1>7, <3>1 DEF MarksAreLogged, MongoMarksAreLogged
    <3>2. CASE v = w.user /\ ~Reaches(reply)
      BY <1>2, <1>5, <3>2 DEF MarksAreLogged, MongoMarksAreLogged, Apart
    <3>3. CASE v = w.user /\ Reaches(reply)
      <4>1. w.action = "freeze"
        BY <1>5, <3>3
      <4>2. ~w.logged => v \in apart'
        BY <1>2, <3>3 DEF Apart
      <4> QED BY <2>3, <3>3, <4>1, <4>2
    <3> QED BY <3>1, <3>2, <3>3
  <2> QED BY <2>1, <2>4, <2>5 DEF MarksAreLogged
<1>17. EntriesAreKept'
  BY <1>1, <1>2, <1>3, <1>4, <1>5, <1>6 DEF EntriesAreKept, w
<1>18. LatestIsStored'
  BY <1>2, <1>5, <1>6 DEF LatestIsStored
<1> QED BY <1>9, <1>10, <1>11, <1>12, <1>13, <1>14, <1>15, <1>16, <1>17, <1>18

(* update_thresholds leaves the frozen users and the log alone.            *)
LEMMA UpdateKeeps ==
  ASSUME Inductive, NEW p \in Processes, NEW value \in Thresholds, NEW reply \in AllReplies,
         UpdateThresholds(p, value, reply)
  PROVE  Inductive'
<1>1. /\ TypeOK /\ mongo \in StoreType(Thresholds \cup {Unset})
      /\ memory \in [Processes -> StoreType(Thresholds)]
  BY DEF Inductive, TypeOK
<1>2. /\ UNCHANGED <<handle, pending, actions, restarts, apart>>
      /\ updates < MaxUpdates /\ updates' = updates + 1
      /\ latest' = [by |-> p, value |-> value, reached |-> Reaches(reply)]
      /\ memory' = [memory EXCEPT ![p].thresholds = value]
      /\ mongo' = IF Reaches(reply) THEN [mongo EXCEPT !.thresholds = value] ELSE mongo
  BY DEF UpdateThresholds, Remembered
<1>3. /\ mongo' \in StoreType(Thresholds \cup {Unset})
      /\ mongo'.log = mongo.log /\ mongo'.status = mongo.status
      /\ Reaches(reply) => mongo'.thresholds = value
  <2> DEFINE m == [mongo EXCEPT !.thresholds = value]
  <2>1. /\ m \in StoreType(Thresholds \cup {Unset})
        /\ m.log = mongo.log /\ m.status = mongo.status /\ m.thresholds = value
    BY <1>1, ThresholdsInStore
  <2>2. mongo' = IF Reaches(reply) THEN m ELSE mongo
    BY <1>2
  <2> HIDE DEF m
  <2> QED BY <1>1, <2>1, <2>2
<1>4. /\ memory' \in [Processes -> StoreType(Thresholds)]
      /\ memory'[p].thresholds = value
      /\ \A q \in Processes : /\ memory'[q].log = memory[q].log
                              /\ memory'[q].status = memory[q].status
  <2> DEFINE m == [memory[p] EXCEPT !.thresholds = value]
  <2>1. /\ m \in StoreType(Thresholds) /\ m.log = memory[p].log
        /\ m.status = memory[p].status /\ m.thresholds = value
    BY <1>1, ThresholdsInStore
  <2>2. memory' = [memory EXCEPT ![p] = m]
    BY <1>2
  <2> HIDE DEF m
  <2> QED BY <1>1, <2>1, <2>2
<1>5. /\ \A v : LogOf(mongo', v) = LogOf(mongo, v)
      /\ \A q \in Processes : \A v : LogOf(memory'[q], v) = LogOf(memory[q], v)
      /\ \A v : Agree(mongo', v) <=> Agree(mongo, v)
      /\ \A q \in Processes : \A v : Agree(memory'[q], v) <=> Agree(memory[q], v)
  BY <1>3, <1>4 DEF Agree, LoggedFrozen, LogOf
<1> USE DEF Inductive
<1>6. TypeOK'
  <2>1. updates' \in 0 .. MaxUpdates
    BY <1>1, <1>2, BoundsAssumption DEF TypeOK
  <2>2. latest' \in [by : Processes \cup {Unset}, value : Thresholds, reached : BOOLEAN]
    BY <1>2 DEF Reaches
  <2> QED BY <1>1, <1>2, <1>3, <1>4, <2>1, <2>2 DEF TypeOK
<1>7. TimesAreTaken'
  <2>1. \A store \in Stores' : \A f \in store.log : f.time <= actions
    BY <1>3, <1>4 DEF TimesAreTaken, Stores
  <2> QED BY <1>2, <2>1 DEF TimesAreTaken, Busy
<1>8. NothingLoggedYet' /\ CrossingIsNoted'
  BY <1>2 DEF NothingLoggedYet, CrossingIsNoted, Busy
<1>9. MongoOrder' /\ MemoryOrder'
  BY <1>2, <1>3, <1>4, <1>5 DEF MongoOrder, MemoryOrder, Before, Newest, Busy
<1>10. MongoAgrees'
  <2> SUFFICES ASSUME NEW v \in Users \ apart,
                      \A q \in Processes : pending[q].user = v => ~pending[q].logged
               PROVE  Agree(mongo', v)
    BY <1>2 DEF MongoAgrees, Agree, LoggedFrozen, LogOf
  <2> QED BY <1>5 DEF MongoAgrees
<1>11. OffMemoryAgrees'
  <2> SUFFICES ASSUME NEW q \in Processes, handle[q] = "off", NEW v \in Users,
                      pending[q].user # v
               PROVE  Agree(memory'[q], v)
    BY <1>2 DEF OffMemoryAgrees, Agree, LoggedFrozen, LogOf
  <2> QED BY <1>5 DEF OffMemoryAgrees
<1>12. MarksAreLogged'
  <2>1. MarkFollowsEntry'
    BY <1>2, <1>3, <1>4 DEF MarksAreLogged, MarkFollowsEntry, EntryOf
  <2>2. /\ \A u \in Users : FreezeLogged(mongo, u)' <=> FreezeLogged(mongo, u)
        /\ \A q \in Processes, u \in Users :
             FreezeLogged(memory[q], u)' <=> FreezeLogged(memory[q], u)
    BY <1>5 DEF FreezeLogged, LogOf
  <2> QED BY <1>2, <1>3, <1>4, <2>1, <2>2
          DEF MarksAreLogged, MemoryMarksAreLogged, MongoMarksAreLogged
<1>13. EntriesAreKept'
  <2> SUFFICES ASSUME restarts = 0, NEW t \in 1 .. actions
               PROVE  \/ \E q \in Processes : pending[q].at = "log" /\ pending[q].time = t
                      \/ \E store \in {mongo'} \cup {memory'[q] : q \in Processes} :
                           \E f \in store.log : f.time = t
    BY <1>2 DEF EntriesAreKept
  <2>1. CASE \E store \in {mongo} \cup {memory[q] : q \in Processes} :
               \E f \in store.log : f.time = t
    BY <1>3, <1>4, <2>1
  <2> QED BY <2>1 DEF EntriesAreKept
<1>14. LatestIsStored'
  BY <1>2, <1>3, <1>4 DEF LatestIsStored
<1> QED BY <1>6, <1>7, <1>8, <1>9, <1>10, <1>11, <1>12, <1>13, <1>14

(* A restarted process has an empty log and remembers nobody; the pair of  *)
(* writes that it owed has come apart if the first had reached MongoDB.    *)
LEMMA RestartKeeps ==
  ASSUME Inductive, NEW p \in Processes, Restart(p)
  PROVE  Inductive'
<1>1. /\ TypeOK /\ memory \in [Processes -> StoreType(Thresholds)]
      /\ latest \in [by : Processes \cup {Unset}, value : Thresholds, reached : BOOLEAN]
  BY DEF Inductive, TypeOK
<1>2. /\ UNCHANGED <<mongo, actions, updates>>
      /\ restarts < MaxRestarts /\ restarts' = restarts + 1
      /\ memory' = [memory EXCEPT ![p] = Fresh]
      /\ pending' = [pending EXCEPT ![p] = Nothing]
      /\ apart' = IF Busy(p) THEN Apart(pending[p], FALSE) ELSE apart
      /\ latest' = IF latest.by = p THEN [latest EXCEPT !.by = Unset] ELSE latest
  BY DEF Restart
<1>3. /\ handle' \in [Processes -> {"connected", "off"}]
      /\ \A q \in Processes \ {p} : handle'[q] = handle[q]
  BY <1>1 DEF TypeOK, Restart
<1>4. /\ Nothing.at = "idle" /\ Nothing.user \notin Users /\ ~Nothing.logged
  BY UnsetAssumption DEF Nothing
<1>5. /\ pending' \in [Processes -> Pairs \cup {Nothing}]
      /\ pending'[p] = Nothing /\ ~Busy(p)'
      /\ \A q \in Processes \ {p} : pending'[q] = pending[q] /\ Busy(q)' = Busy(q)
  BY <1>1, <1>2 DEF TypeOK, Busy
<1>6. /\ memory' \in [Processes -> StoreType(Thresholds)]
      /\ memory'[p] = Fresh
      /\ \A q \in Processes \ {p} : memory'[q] = memory[q]
  BY <1>1, <1>2, FreshStore
<1>7. /\ latest' \in [by : Processes \cup {Unset}, value : Thresholds, reached : BOOLEAN]
      /\ latest'.by # p /\ latest'.by \in {latest.by, Unset}
      /\ latest'.value = latest.value /\ latest'.reached = latest.reached
  BY <1>1, <1>2, UnsetAssumption
<1>8. /\ apart' \subseteq Users /\ apart \subseteq apart'
      /\ Busy(p) /\ pending[p].logged => pending[p].user \in apart'
  <2>1. CASE Busy(p)
    <3>1. pending[p].user \in Users
      BY <1>1, <2>1, PendingIsPair DEF Pairs
    <3> QED BY <1>1, <1>2, <2>1, <3>1 DEF Apart, TypeOK
  <2>2. CASE ~Busy(p)
    BY <1>1, <1>2, <2>2 DEF TypeOK
  <2> QED BY <2>1, <2>2
<1> USE DEF Inductive
<1>9. TypeOK'
  <2>1. restarts' \in 0 .. MaxRestarts /\ restarts' # 0
    BY <1>1, <1>2, BoundsAssumption DEF TypeOK
  <2> QED BY <1>1, <1>2, <1>3, <1>5, <1>6, <1>7, <1>8, <2>1 DEF TypeOK
<1>10. TimesAreTaken'
  <2>1. \A store \in Stores' : \A f \in store.log : f.time <= actions
    BY <1>2, <1>6, FreshStore DEF TimesAreTaken, Stores
  <2> QED BY <1>2, <1>5, <2>1 DEF TimesAreTaken
<1>11. NothingLoggedYet' /\ CrossingIsNoted'
  BY <1>4, <1>5 DEF NothingLoggedYet, CrossingIsNoted
<1>12. MongoOrder'
  BY <1>2, <1>5 DEF MongoOrder, Before, Newest, LogOf
<1>13. MemoryOrder'
  BY <1>3, <1>4, <1>5, <1>6 DEF MemoryOrder, Before, Newest, LogOf
<1>14. MongoAgrees'
  <2> SUFFICES ASSUME NEW v \in Users \ apart',
                      \A q \in Processes : pending'[q].user = v => ~pending'[q].logged
               PROVE  Agree(mongo, v)
    BY <1>2 DEF MongoAgrees, Agree, LoggedFrozen, LogOf
  <2>1. pending[p].user = v => ~pending[p].logged
    BY <1>1, <1>8, PendingIsPair
  <2> QED BY <1>5, <1>8, <2>1 DEF MongoAgrees
<1>15. OffMemoryAgrees'
  <2> SUFFICES ASSUME NEW q \in Processes, handle'[q] = "off", NEW v \in Users,
                      pending'[q].user # v
               PROVE  Agree(memory'[q], v)
    BY DEF OffMemoryAgrees, Agree, LoggedFrozen, LogOf
  <2>1. CASE q # p
    BY <1>3, <1>5, <1>6, <2>1 DEF OffMemoryAgrees
  <2>2. CASE q = p
    BY <1>6, <2>2, FreshStore DEF Agree, LoggedFrozen, LogOf
  <2> QED BY <2>1, <2>2
<1>16. MarksAreLogged' /\ LatestIsStored'
  <2>1. MarkFollowsEntry'
    BY <1>2, <1>4, <1>5, <1>6 DEF MarksAreLogged, MarkFollowsEntry, EntryOf
  <2>2. restarts' > 0
    BY <1>1, <1>2 DEF TypeOK
  <2>3. \A v \in Users : memory'[p].status[v] # "frozen"
    BY <1>6, FreshStore
  <2>4. /\ \A u \in Users : FreezeLogged(mongo, u)' <=> FreezeLogged(mongo, u)
        /\ \A q \in Processes \ {p}, u \in Users :
             FreezeLogged(memory[q], u)' <=> FreezeLogged(memory[q], u)
    BY <1>2, <1>6 DEF FreezeLogged, LogOf
  <2>5. MemoryMarksAreLogged'
    BY <1>6, <2>3, <2>4 DEF MarksAreLogged, MemoryMarksAreLogged
  <2>6. MongoMarksAreLogged'
    BY <1>2, <1>8, <2>2, <2>4 DEF MarksAreLogged, MongoMarksAreLogged
  <2>7. LatestIsStored'
    BY <1>2, <1>6, <1>7, UnsetAssumption DEF LatestIsStored
  <2> QED BY <2>1, <2>5, <2>6, <2>7 DEF MarksAreLogged
<1>17. EntriesAreKept'
  BY <1>1, <1>2 DEF EntriesAreKept, TypeOK
<1> QED BY <1>9, <1>10, <1>11, <1>12, <1>13, <1>14, <1>15, <1>16, <1>17

-----------------------------------------------------------------------------
(* The invariant holds initially, and every step preserves it.             *)
LEMMA InductiveInit == Init => Inductive
<1> SUFFICES ASSUME Init PROVE Inductive
  OBVIOUS
<1>1. Nothing.at = "idle" /\ ~Nothing.logged /\ NoUpdate.by = Unset /\ ~NoUpdate.reached
  BY DEF Nothing, NoUpdate
<1>2. NoUpdate \in [by : Processes \cup {Unset}, value : Thresholds, reached : BOOLEAN]
  BY ThresholdsAssumption DEF NoUpdate
<1>3. /\ mongo = Empty /\ actions = 0
      /\ \A p \in Processes : memory[p] = Fresh /\ pending[p] = Nothing
  BY DEF Init
<1>4. TypeOK
  <2>1. Empty \in StoreType(Thresholds \cup {Unset})
    BY FreshStore DEF StoreType
  <2>2. Fresh \in StoreType(Thresholds)
    BY FreshStore
  <2> QED BY <1>2, <2>1, <2>2, BoundsAssumption DEF Init, TypeOK, Statuses
<1>5. TimesAreTaken /\ NothingLoggedYet /\ CrossingIsNoted /\ MongoOrder /\ MemoryOrder
  BY <1>1, <1>3, FreshStore
  DEF TimesAreTaken, NothingLoggedYet, CrossingIsNoted, MongoOrder, MemoryOrder, Busy, Stores
<1>6. MongoAgrees /\ OffMemoryAgrees
  BY <1>3, FreshStore DEF MongoAgrees, OffMemoryAgrees, Agree, LoggedFrozen, LogOf
<1>7. MarksAreLogged /\ EntriesAreKept /\ LatestIsStored
  BY <1>1, <1>3, FreshStore, UnsetAssumption
  DEF Init, MarksAreLogged, MarkFollowsEntry, MemoryMarksAreLogged, MongoMarksAreLogged,
      EntriesAreKept, LatestIsStored
<1> QED BY <1>4, <1>5, <1>6, <1>7 DEF Inductive

LEMMA InductiveStutter == Inductive /\ UNCHANGED vars => Inductive'
<1> SUFFICES ASSUME Inductive, UNCHANGED vars PROVE Inductive'
  OBVIOUS
<1> USE DEF vars, historyVars, Inductive
<1>1. TypeOK' /\ TimesAreTaken' /\ NothingLoggedYet' /\ CrossingIsNoted'
  BY DEF TypeOK, TimesAreTaken, Stores, NothingLoggedYet, CrossingIsNoted, Busy
<1>2. MongoOrder' /\ MemoryOrder'
  BY DEF MongoOrder, MemoryOrder, Before, Newest, LogOf, Busy
<1>3. MongoAgrees' /\ OffMemoryAgrees'
  BY DEF MongoAgrees, OffMemoryAgrees, Agree, LoggedFrozen, LogOf
<1>4. MarksAreLogged'
  BY DEF MarksAreLogged, MarkFollowsEntry, EntryOf, MemoryMarksAreLogged,
         MongoMarksAreLogged, FreezeLogged, LogOf
<1>5. EntriesAreKept' /\ LatestIsStored'
  BY DEF EntriesAreKept, LatestIsStored
<1> QED BY <1>1, <1>2, <1>3, <1>4, <1>5

LEMMA InductiveNext == Inductive /\ [Next]_vars => Inductive'
<1> SUFFICES ASSUME Inductive, [Next]_vars PROVE Inductive'
  OBVIOUS
<1>1. CASE \E p \in Processes, u \in Users, action \in Actions : Stamp(p, u, action)
  BY <1>1, StampKeeps
<1>2. CASE \E p \in Processes, reply \in AllReplies : Log(p, reply) \/ Mark(p, reply)
  BY <1>2, LogKeeps, MarkKeeps
<1>3. CASE \E p \in Processes, value \in Thresholds, reply \in AllReplies :
             UpdateThresholds(p, value, reply)
  BY <1>3, UpdateKeeps
<1>4. CASE \E p \in Processes : Restart(p)
  BY <1>4, RestartKeeps
<1>5. CASE Exhausted \/ UNCHANGED vars
  BY <1>5, InductiveStutter DEF Exhausted
<1> QED BY <1>1, <1>2, <1>3, <1>4, <1>5 DEF Next

(* The inductive invariant holds in every state that the stores reach.     *)
THEOREM StorageInvariant == Spec => []Inductive
BY InductiveInit, InductiveNext, PTL DEF Spec

(* The collections, the memories and the pending writes keep their types.  *)
THEOREM TypeCorrect == Spec => []TypeOK
<1>1. Inductive => TypeOK
  BY DEF Inductive
<1> QED BY <1>1, StorageInvariant, PTL

(* Whoever get_frozen_users returns, from MongoDB or from memory, has a    *)
(* freeze in the log, however the writes fell back, unless a process died  *)
(* that may have had the entry.                                            *)
THEOREM NoFreezeIsUnlogged == Spec => []FreezesAreLogged
<1>1. Inductive => FreezesAreLogged
  BY DEF Inductive, MarksAreLogged, MemoryMarksAreLogged, MongoMarksAreLogged, FreezesAreLogged
<1> QED BY <1>1, StorageInvariant, PTL

(* The freeze log and the list of frozen users in MongoDB agree about      *)
(* every user, except where a pair of writes came apart and no whole pair  *)
(* has followed, or a pair is under way.                                   *)
THEOREM LogAgreesWithList == Spec => []LogAndListAgree
<1>1. Inductive => LogAndListAgree
  BY DEF Inductive, MongoAgrees, LogAndListAgree, Agree
<1> QED BY <1>1, StorageInvariant, PTL

(* No entry of the freeze log is lost as long as no process has died: what *)
(* missed MongoDB is in the memory of the process that wrote it.           *)
THEOREM NoEntryIsLost == Spec => []EntriesAreKept
<1>1. Inductive => EntriesAreKept
  BY DEF Inductive
<1> QED BY <1>1, StorageInvariant, PTL

(* The log and the list of a process without MongoDB agree.                *)
THEOREM MemoryAgrees == Spec => []OffProcessAgrees
<1>1. Inductive => OffProcessAgrees
  BY DEF Inductive, OffMemoryAgrees, OffProcessAgrees, Agree, FrozenUsers, StoreRead
<1> QED BY <1>1, StorageInvariant, PTL

(* The process that updated the thresholds last reads its own update back, *)
(* unless MongoDB has a document that the update missed.                   *)
THEOREM ThresholdsAreReadBack == Spec => []ThresholdsReadBack
<1>1. Inductive => ThresholdsReadBack
  BY ThresholdsAssumption
  DEF Inductive, LatestIsStored, ThresholdsReadBack, ThresholdsRead, StoreRead
<1> QED BY <1>1, StorageInvariant, PTL
=============================================================================
