------------------------------ MODULE Accounts ------------------------------
(***************************************************************************)
(* Accounts of the dashboard's users: registration, login and the lookup   *)
(* of a token's account (main.py), and the collection "users" (db.py),     *)
(* held in MongoDB or, in a process that could not reach it when it first  *)
(* asked, in that process's memory.  That usernames and e-mail addresses   *)
(* are unique rests on two indexes, which each process asks for when it    *)
(* connects and whose failure it ignores.                                  *)
(*                                                                         *)
(* Handlers do not await between their steps, so that one process does one *)
(* thing at a time; several processes share MongoDB, which is external.    *)
(* The checks of passwords and full names change no state and are left     *)
(* out.  The administrator's account is in the configuration, under a name *)
(* that anyone may register.                                               *)
(***************************************************************************)
EXTENDS Naturals, FiniteSets

CONSTANTS
  Processes,    \* server processes
  Names,        \* usernames, in lower case and stripped
  Short,        \* those of less than three letters
  Emails,       \* e-mail addresses, likewise
  AdminName,    \* config.ADMIN_USERNAME
  MongoDB,      \* where a connected process keeps accounts
  Env,          \* where the administrator is: the configuration
  MaxAccounts,  \* bound: accounts ever added
  MaxRestarts   \* bound: restarts of processes

ASSUME NamesAssumption == Short \subseteq Names
ASSUME StoresAssumption ==
  MongoDB \notin Processes /\ Env \notin Processes \cup {MongoDB}
ASSUME BoundsAssumption == MaxAccounts \in Nat /\ MaxRestarts \in Nat

VARIABLES
  step,         \* of each process: what it has of its connection
  unique,       \* fields with a unique index in MongoDB
  users,        \* accounts in MongoDB
  memory,       \* _in_memory_users of each process
  lastLogin,    \* accounts in MongoDB with a last_login
  tokens,       \* tokens issued: of which account of which store
  added,        \* accounts added so far
  restarts,     \* restarts so far
  entered,      \* history: accounts whose owner logged in
  loose,        \* history: for each field, accounts added without its index
  lost          \* history: accounts that were in the memory of a process that ended

mongoVars == <<unique, users, lastLogin>>
countVars == <<added, restarts>>
historyVars == <<entered, loose, lost>>
vars == <<step, mongoVars, memory, tokens, countVars, historyVars>>

Fields == {"name", "email"}
Ids == 1 .. MaxAccounts

(* A username as typed: in upper case or with spaces around it, or plain.  *)
Typed == [name : Names, padded : BOOLEAN]

Docs == [id : Ids, name : Typed, email : Emails]

ASSUME AdminAssumption == AdminName \in Typed

Administrator == 0

Init ==
  /\ step = [p \in Processes |-> "fresh"]
  /\ unique = {} /\ users = {} /\ lastLogin = {}
  /\ memory = [p \in Processes |-> {}]
  /\ tokens = {}
  /\ added = 0 /\ restarts = 0
  /\ entered = {} /\ loose = [f \in Fields |-> {}] /\ lost = {}

-----------------------------------------------------------------------------
(* Mutant of Normal: without the lower() and strip().                      *)
AsTyped(typed) == typed

(* lower().strip()                                                         *)
Normal(typed) == [typed EXCEPT !.padded = FALSE]

(* The length is that of the name as typed.                                *)
LongEnough(typed) == typed.name \in Short => typed.padded

Ready(p) == step[p] \in {"connected", "off"}

StoreName(p) == IF step[p] = "connected" THEN MongoDB ELSE p
Store(p) == IF step[p] = "connected" THEN users ELSE memory[p]

(* find_user: whom it may return; and whom, in a connected process, if     *)
(* MongoDB does not answer it.                                             *)
FindUser(p, typed) == {u \in Store(p) : u.name = Normal(typed)}

FindInMemory(p, typed) == {u \in memory[p] : u.name = Normal(typed)}

(* Mutant of NewUser: name and e-mail address swapped.                     *)
SwappedUser(typed, email) ==
  [id |-> added + 1, name |-> email, email |-> Normal(typed)]

NewUser(typed, email) ==
  [id |-> added + 1, name |-> Normal(typed), email |-> email]

Same(f, u, v) == u[f] = v[f]

(* Mutant of DuplicateKey: the index is on name and e-mail together.       *)
DuplicatePair(doc) ==
  unique # {} /\ \E u \in users : \A f \in Fields : Same(f, u, doc)

(* MongoDB's DuplicateKeyError.                                            *)
DuplicateKey(doc) == \E u \in users : \E f \in unique : Same(f, u, doc)

(* Mutant of InMemory: the account that is there is replaced.              *)
NeverInMemory(p, doc) == FALSE

InMemory(p, doc) == \E u \in memory[p] : Same("name", u, doc)

(* Mutant of Stamped: last_login by the e-mail address.                    *)
StampedByEmail(user) == {u \in users : Same("email", u, user)}

(* The update of last_login is by name: whom it may change.                *)
Stamped(user) == {u \in users : Same("name", u, user)}

-----------------------------------------------------------------------------
(* _get_db, at the first call of a process: the ping, then the two indexes *)
(* one after the other, where other processes may come in between.         *)
Ping(p, answers) ==
  /\ step[p] = "fresh"
  /\ step' = [step EXCEPT ![p] = IF answers THEN "name" ELSE "off"]
  /\ UNCHANGED <<mongoVars, memory, tokens, countVars, historyVars>>

(* create_index: refused over duplicates; a call that failed may have      *)
(* built it.  After a failure the process goes on without asking again.    *)
CreateIndex(p, field, built, ok) ==
  /\ step[p] = field
  /\ ok => built
  /\ built => \A u, v \in users : Same(field, u, v) => u = v
  /\ unique' = IF built THEN unique \cup {field} ELSE unique
  /\ step' = [step EXCEPT ![p] = IF ok /\ field = "name" THEN "email" ELSE "connected"]
  /\ UNCHANGED <<users, lastLogin, memory, tokens, countVars, historyVars>>

(* A token for the account, to the user who asked.                         *)
Issued(p, doc) == tokens \cup {[sub |-> doc.name, of |-> doc.id, store |-> StoreName(p)]}

(* register and create_user.  A request that is refused, or that did not   *)
(* reach MongoDB, changes nothing; when the answer of MongoDB is lost the  *)
(* account is there, and the user is told of an error.                     *)
Register(p, typed, email, ok) ==
  LET doc == NewUser(typed, email)
  IN /\ Ready(p)
     /\ added < MaxAccounts
     /\ LongEnough(typed)
     /\ \/ /\ step[p] = "connected"
           /\ ~DuplicateKey(doc)
           /\ users' = users \cup {doc}
           /\ loose' = [f \in Fields |->
                IF f \in unique THEN loose[f] ELSE loose[f] \cup {doc.id}]
           /\ UNCHANGED memory
        \/ /\ step[p] = "off" /\ ok
           /\ ~InMemory(p, doc)
           /\ memory' = [memory EXCEPT ![p] =
                {u \in @ : ~Same("name", u, doc)} \cup {doc}]
           /\ UNCHANGED <<users, loose>>
     /\ added' = added + 1
     /\ tokens' = IF ok THEN Issued(p, doc) ELSE tokens
     /\ UNCHANGED <<step, unique, lastLogin, restarts, entered, lost>>

(* authenticate_user of the administrator, before it asks for the stores.  *)
AdminLogin(p) ==
  /\ step[p] \notin Fields
  /\ tokens' = tokens \cup {[sub |-> AdminName, of |-> Administrator, store |-> Env]}
  /\ UNCHANGED <<step, mongoVars, memory, countVars, historyVars>>

(* login and authenticate_user, by someone with the password of the user   *)
(* that is found.  Whether last_login was written does not matter to it.   *)
Login(p, typed) ==
  /\ Ready(p)
  /\ \E user \in FindUser(p, typed) :
       /\ tokens' = Issued(p, user)
       /\ entered' = entered \cup {user.id}
       /\ \/ UNCHANGED lastLogin
          \/ /\ step[p] = "connected"
             /\ \E u \in Stamped(user) : lastLogin' = lastLogin \cup {u.id}
  /\ UNCHANGED <<step, unique, users, memory, countVars, loose, lost>>

(* A process ends, and another takes its place; the tokens remain good.    *)
Restart(p) ==
  /\ restarts < MaxRestarts
  /\ step[p] # "fresh"
  /\ restarts' = restarts + 1
  /\ step' = [step EXCEPT ![p] = "fresh"]
  /\ memory' = [memory EXCEPT ![p] = {}]
  /\ lost' = lost \cup {u.id : u \in memory[p]}
  /\ UNCHANGED <<mongoVars, tokens, added, entered, loose>>

(* get_me: the user that is found under the name in the token, or else the *)
(* administrator, if it is his.                                            *)
Me(sub, found) ==
  IF found = {} /\ sub = AdminName THEN {Administrator} ELSE {u.id : u \in found}

Next ==
  \E p \in Processes :
    \/ Restart(p) \/ AdminLogin(p)
    \/ \E typed \in Typed :
         \/ Login(p, typed)
         \/ \E email \in Emails, ok \in BOOLEAN : Register(p, typed, email, ok)
    \/ \E ok \in BOOLEAN :
         \/ Ping(p, ok)
         \/ \E field \in Fields, built \in BOOLEAN : CreateIndex(p, field, built, ok)

Spec == Init /\ [][Next]_vars

-----------------------------------------------------------------------------
(* Properties.                                                             *)

Tokens ==
  [sub : Typed, of : Ids \cup {Administrator}, store : Processes \cup {MongoDB, Env}]

TypeOK ==
  /\ step \in [Processes -> Fields \cup {"fresh", "connected", "off"}]
  /\ unique \subseteq Fields
  /\ users \subseteq Docs /\ memory \in [Processes -> SUBSET Docs]
  /\ added \in 0 .. MaxAccounts /\ restarts \in 0 .. MaxRestarts
  /\ lastLogin \subseteq Ids /\ entered \subseteq Ids
  /\ tokens \subseteq Tokens
  /\ loose \in [Fields -> SUBSET Ids] /\ lost \subseteq Ids

(* Whoever logs in with a username, however typed, is looked up in his own *)
(* account, by every process and through restarts of the others: unless    *)
(* the account was added while MongoDB had no index on usernames.          *)
NamesFindTheirAccounts ==
  \A p \in Processes : Ready(p) =>
    \A u \in Store(p) : u.id \in loose["name"] \/
      \A typed \in Typed :
        typed.name = u.name.name => FindUser(p, typed) = {u}

(* /api/me of a token shows the account it was issued for and nobody else, *)
(* except:                                                                 *)
(* - the account was added while MongoDB had no index on usernames;        *)
(* - it is the administrator, and somebody has registered his name;        *)
(* - the process reads another store than the one that had the account;    *)
(* - that was a memory that is lost: then the name is nobody's, or that of *)
(*   somebody who registered after the loss, or of the administrator.      *)
(* When MongoDB does not answer, it shows nobody, or the administrator.    *)
Shown(p, sub) == Me(sub, FindUser(p, sub))

SessionsFindTheirAccounts ==
  \A p \in Processes : \A t \in tokens : Ready(p) =>
    /\ \/ Shown(p, t.sub) = {t.of}
       \/ t.of \in loose["name"]
       \/ t.of = Administrator /\ FindUser(p, AdminName) # {}
       \/ t.of # Administrator /\ t.store # StoreName(p)
       \/ t.of \in lost /\ \A other \in Shown(p, t.sub) \ {Administrator} : other > t.of
    /\ step[p] = "connected" => Me(t.sub, FindInMemory(p, t.sub)) \subseteq {Administrator}

(* Two accounts in MongoDB share an e-mail address only if both were added *)
(* without its index: once a process has built it, or found it built, no   *)
(* process adds another, whether or not its own calls for it failed.       *)
EmailsAreDistinct ==
  \A u, v \in users :
    Same("email", u, v) /\ u # v => {u.id, v.id} \subseteq loose["email"]

(* An account has a last_login only if its owner logged in, not the owner  *)
(* of another one that the update may have taken for it.                   *)
LastLoginIsTheirs == lastLogin \subseteq entered \cup loose["name"]
=============================================================================
