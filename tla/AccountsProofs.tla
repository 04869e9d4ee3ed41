--------------------------- MODULE AccountsProofs ---------------------------
(***************************************************************************)
(* Theorems about Accounts: names and tokens lead to their own accounts    *)
(* and e-mail addresses are distinct, for every set of processes, names    *)
(* and addresses and any number of accounts and restarts.                  *)
(***************************************************************************)
EXTENDS Accounts, TLAPS

(* Names are stored in lower case and stripped.                            *)
NamesAreNormal ==
  /\ \A u \in users : Normal(u.name) = u.name
  /\ \A p \in Processes : \A u \in memory[p] : Normal(u.name) = u.name

(* A field with an index has no duplicates; all accounts that were added   *)
(* while a field has none are known as loose.                              *)
IndexedAreDistinct ==
  \A f \in unique : \A u, v \in users : Same(f, u, v) => u = v
UnindexedAreLoose ==
  \A f \in Fields \ unique : \A u \in users : u.id \in loose[f]

(* The dict of a process has one account under each name.                  *)
MemoryIsDistinct ==
  \A p \in Processes : \A u, v \in memory[p] : Same("name", u, v) => u = v

(* A process has accounts in its memory only if it is off.                 *)
ConnectedRememberNobody == \A p \in Processes : step[p] # "off" => memory[p] = {}

(* Accounts are numbered as they are added.                                *)
IdsAreCounted ==
  /\ \A u \in users : u.id <= added
  /\ \A p \in Processes : \A u \in memory[p] : u.id <= added
  /\ \A t \in tokens : t.of <= added

(* A store has the accounts of the tokens it stands behind, unless it lost *)
(* them with all that it had; the administrator's are his.                 *)
Held(store) == IF store = MongoDB THEN users ELSE memory[store]

Stands(t) == \E u \in Held(t.store) : u.id = t.of /\ u.name = t.sub

Lost(t) ==
  t.store \in Processes /\ t.of \in lost /\ \A u \in memory[t.store] : u.id > t.of

TokensHaveAccounts ==
  \A t \in tokens :
    \/ t.store = Env /\ t.sub = AdminName /\ t.of = Administrator
    \/ t.store \in Processes \cup {MongoDB} /\ t.of # Administrator /\ (Stands(t) \/ Lost(t))

Inductive ==
  /\ TypeOK
  /\ NamesAreNormal
  /\ IndexedAreDistinct /\ UnindexedAreLoose
  /\ MemoryIsDistinct /\ ConnectedRememberNobody
  /\ IdsAreCounted
  /\ TokensHaveAccounts
  /\ LastLoginIsTheirs

-----------------------------------------------------------------------------
(* Normalising a name again changes nothing.                               *)
LEMMA NormalIsNormal ==
  ASSUME NEW typed \in Typed
  PROVE  /\ Normal(typed) \in Typed
         /\ Normal(typed).name = typed.name /\ ~Normal(typed).padded
         /\ Normal(Normal(typed)) = Normal(typed)
BY DEF Normal, Typed

(* Names that are stored alike are equal as soon as they are letter for    *)
(* letter the same.                                                        *)
LEMMA NormalNamesAreNames ==
  ASSUME NEW a \in Typed, NEW b \in Typed, Normal(b) = b, a.name = b.name
  PROVE  Normal(a) = b
BY DEF Normal, Typed

(* What a new account is made of.                                          *)
LEMMA NewUserType ==
  ASSUME NEW typed \in Typed, NEW email \in Emails,
         added \in 0 .. MaxAccounts, added < MaxAccounts
  PROVE  /\ NewUser(typed, email) \in Docs
         /\ Normal(NewUser(typed, email).name) = NewUser(typed, email).name
<1>1. added + 1 \in Ids
  BY BoundsAssumption DEF Ids
<1>2. QED
  BY <1>1, NormalIsNormal DEF NewUser, Docs

(* Two accounts of MongoDB that agree on a field are one, unless both were *)
(* added without its index.                                                *)
LEMMA SameIsLoose ==
  ASSUME IndexedAreDistinct, UnindexedAreLoose,
         NEW f \in Fields, NEW u \in users, NEW v \in users, Same(f, u, v)
  PROVE  u = v \/ {u.id, v.id} \subseteq loose[f]
<1>1. CASE f \in unique
  BY <1>1 DEF IndexedAreDistinct
<1>2. CASE f \notin unique
  BY <1>2 DEF UnindexedAreLoose
<1>3. QED
  BY <1>1, <1>2

(* What find_user returns is an account of the store the process reads.    *)
LEMMA FoundIsHeld ==
  ASSUME TypeOK, NEW p \in Processes, Ready(p), NEW typed \in Typed,
         NEW u \in FindUser(p, typed)
  PROVE  /\ StoreName(p) \in Processes \cup {MongoDB}
         /\ Held(StoreName(p)) = Store(p)
         /\ u \in Held(StoreName(p)) /\ u \in Docs /\ u.name = Normal(typed)
<1>1. Held(StoreName(p)) = Store(p) /\ StoreName(p) \in Processes \cup {MongoDB}
  BY StoresAssumption DEF Held, StoreName, Store
<1>2. u \in Store(p) /\ u.name = Normal(typed)
  BY DEF FindUser
<1>3. Store(p) \subseteq Docs
  BY DEF Store, TypeOK
<1>4. QED
  BY <1>1, <1>2, <1>3

-----------------------------------------------------------------------------
LEMMA InitInductive == Init => Inductive
<1> SUFFICES ASSUME Init PROVE Inductive
  OBVIOUS
<1>1. TypeOK
  BY BoundsAssumption DEF Init, TypeOK, Fields
<1>2. QED
  BY <1>1 DEF Init, Inductive, NamesAreNormal, IndexedAreDistinct, UnindexedAreLoose,
    MemoryIsDistinct, ConnectedRememberNobody, IdsAreCounted, TokensHaveAccounts,
    LastLoginIsTheirs

LEMMA PingInductive ==
  ASSUME Inductive, NEW p \in Processes, NEW ok \in BOOLEAN, Ping(p, ok)
  PROVE  Inductive'
<1>1. UNCHANGED <<mongoVars, memory, tokens, countVars, historyVars>>
  BY DEF Ping
<1>2. step' \in [Processes -> Fields \cup {"fresh", "connected", "off"}]
  BY DEF Ping, Inductive, TypeOK, Fields
<1>3. TypeOK'
  BY <1>1, <1>2 DEF Inductive, TypeOK, mongoVars, countVars, historyVars
<1>4. ConnectedRememberNobody'
  BY <1>1 DEF Ping, Inductive, TypeOK, ConnectedRememberNobody
<1>5. QED
  BY <1>1, <1>3, <1>4 DEF Inductive, mongoVars, countVars, historyVars, NamesAreNormal,
    IndexedAreDistinct, UnindexedAreLoose, MemoryIsDistinct, IdsAreCounted,
    TokensHaveAccounts, Stands, Lost, Held, LastLoginIsTheirs

(* An index is only built over distinct values.                            *)
LEMMA CreateIndexInductive ==
  ASSUME Inductive, NEW p \in Processes, NEW field \in Fields,
         NEW built \in BOOLEAN, NEW ok \in BOOLEAN, CreateIndex(p, field, built, ok)
  PROVE  Inductive'
<1>1. UNCHANGED <<users, lastLogin, memory, tokens, countVars, historyVars>>
  BY DEF CreateIndex
<1>2. /\ step' \in [Processes -> Fields \cup {"fresh", "connected", "off"}]
      /\ unique' \subseteq Fields
      /\ unique \subseteq unique'
  BY DEF CreateIndex, Inductive, TypeOK, Fields
<1>3. TypeOK'
  BY <1>1, <1>2 DEF Inductive, TypeOK, countVars, historyVars
<1>4. IndexedAreDistinct'
  BY <1>1 DEF CreateIndex, Inductive, IndexedAreDistinct, Same
<1>5. UnindexedAreLoose'
  BY <1>1, <1>2 DEF Inductive, UnindexedAreLoose, historyVars
<1>7. ConnectedRememberNobody'
  <2>1. step[p] # "off" /\ \A q \in Processes \ {p} : step'[q] = step[q]
    BY DEF CreateIndex, Inductive, TypeOK, Fields
  <2> QED BY <1>1, <2>1 DEF Inductive, ConnectedRememberNobody
<1>6. QED
  BY <1>1, <1>3, <1>4, <1>5, <1>7 DEF Inductive, countVars, historyVars, NamesAreNormal,
    MemoryIsDistinct, IdsAreCounted, TokensHaveAccounts, Stands, Lost, Held,
    LastLoginIsTheirs

(* Whatever is stored grows by the new account, and what was there stays.  *)
LEMMA RegisterInductive ==
  ASSUME Inductive, NEW p \in Processes, NEW typed \in Typed, NEW email \in Emails,
         NEW ok \in BOOLEAN, Register(p, typed, email, ok)
  PROVE  Inductive'
<1> DEFINE doc == NewUser(typed, email)
<1>1. doc \in Docs /\ Normal(doc.name) = doc.name
  BY NewUserType DEF Register, Inductive, TypeOK
<1>2. /\ Ready(p)
      /\ added' = added + 1 /\ added < MaxAccounts
      /\ tokens' = IF ok THEN Issued(p, doc) ELSE tokens
      /\ UNCHANGED <<step, unique, lastLogin, restarts, entered, lost>>
  BY DEF Register
<1>3. \/ /\ step[p] = "connected" /\ ~DuplicateKey(doc)
         /\ users' = users \cup {doc}
         /\ loose' = [f \in Fields |->
              IF f \in unique THEN loose[f] ELSE loose[f] \cup {doc.id}]
         /\ UNCHANGED memory
      \/ /\ step[p] = "off" /\ ~InMemory(p, doc)
         /\ memory' = [memory EXCEPT ![p] =
              {u \in @ : ~Same("name", u, doc)} \cup {doc}]
         /\ UNCHANGED <<users, loose>>
  BY DEF Register
<1> HIDE DEF doc
<1>4. added' \in 0 .. MaxAccounts /\ doc.id \in Ids
  BY <1>1, <1>2, BoundsAssumption DEF Inductive, TypeOK, Docs
<1>5. StoreName(p) \in Processes \cup {MongoDB}
  BY DEF StoreName
<1>6. [sub |-> doc.name, of |-> doc.id, store |-> StoreName(p)] \in Tokens
  BY <1>1, <1>5 DEF Docs, Tokens
<1>7. tokens' \subseteq Tokens
  BY <1>2, <1>6 DEF Issued, Inductive, TypeOK
<1>11. added \in Nat /\ doc.id = added + 1 /\ doc.id # Administrator
  BY <1>2, BoundsAssumption DEF Inductive, TypeOK, doc, NewUser, Administrator
<1>12. \A t \in tokens' : t \in tokens \/
          (t.sub = doc.name /\ t.of = doc.id /\ t.store = StoreName(p))
  BY <1>2 DEF Issued
<1>14. ConnectedRememberNobody'
  BY <1>2, <1>3 DEF Inductive, TypeOK, ConnectedRememberNobody
<1>13. IdsAreCounted'
  <2>1. /\ \A u \in users' : u \in users \/ u = doc
        /\ \A q \in Processes : \A u \in memory'[q] : u \in memory[q] \/ u = doc
    BY <1>3 DEF Inductive, TypeOK
  <2>2. /\ \A u \in users : u.id \in Nat
        /\ \A q \in Processes : \A u \in memory[q] : u.id \in Nat
        /\ \A t \in tokens : t.of \in Nat
    BY DEF Inductive, TypeOK, Docs, Ids, Tokens, Administrator
  <2>3. \A t \in tokens' : t.of <= added + 1
    BY <1>11, <1>12, <2>2 DEF Inductive, IdsAreCounted
  <2> QED BY <1>2, <1>11, <2>1, <2>2, <2>3 DEF Inductive, IdsAreCounted
<1>8. CASE step[p] = "connected"
  <2>1. /\ ~DuplicateKey(doc)
        /\ users' = users \cup {doc}
        /\ loose' = [f \in Fields |->
              IF f \in unique THEN loose[f] ELSE loose[f] \cup {doc.id}]
        /\ UNCHANGED memory
    BY <1>3, <1>8
  <2>2. /\ loose' \in [Fields -> SUBSET Ids]
        /\ \A f \in Fields : loose[f] \subseteq loose'[f]
        /\ \A f \in Fields \ unique : doc.id \in loose'[f]
    BY <2>1, <1>4 DEF Inductive, TypeOK
  <2>3. TypeOK'
    BY <1>1, <1>2, <1>4, <1>7, <2>1, <2>2 DEF Inductive, TypeOK
  <2>4. NamesAreNormal'
    BY <1>1, <1>2, <2>1 DEF Inductive, NamesAreNormal, Issued
  <2>5. IndexedAreDistinct'
    <3> SUFFICES ASSUME NEW f \in unique, NEW u \in users \cup {doc},
                        NEW v \in users \cup {doc}, Same(f, u, v)
                 PROVE  u = v
      BY <1>2, <2>1 DEF IndexedAreDistinct, Same
    <3>1. \A w \in users : ~Same(f, w, doc) /\ ~Same(f, doc, w)
      BY <2>1 DEF DuplicateKey, Same
    <3>2. QED
      BY <3>1 DEF Inductive, IndexedAreDistinct
  <2>6. UnindexedAreLoose'
    BY <1>2, <2>1, <2>2 DEF Inductive, UnindexedAreLoose
  <2>7. MemoryIsDistinct'
    BY <2>1 DEF Inductive, MemoryIsDistinct, Same
  <2>8. TokensHaveAccounts'
    <3>1. StoreName(p) = MongoDB
      BY <1>8 DEF StoreName
    <3>2. \A s : Held(s) \subseteq Held(s)'
      BY <2>1 DEF Held
    <3>3. doc \in Held(MongoDB)'
      BY <2>1 DEF Held
    <3>4. ASSUME NEW t \in tokens
          PROVE  (Stands(t) => Stands(t)') /\ (Lost(t) => Lost(t)')
      BY <1>2, <2>1, <3>2 DEF Stands, Lost
    <3>5. QED
      BY <1>11, <1>12, <3>1, <3>3, <3>4 DEF Inductive, TokensHaveAccounts, Stands
  <2>9. LastLoginIsTheirs'
    BY <1>2, <2>2 DEF Inductive, LastLoginIsTheirs, Fields
  <2>10. QED
    BY <1>13, <1>14, <2>3, <2>4, <2>5, <2>6, <2>7, <2>8, <2>9 DEF Inductive
<1>9. CASE step[p] = "off"
  <2>1. /\ ~InMemory(p, doc)
        /\ memory' = [memory EXCEPT ![p] =
             {u \in @ : ~Same("name", u, doc)} \cup {doc}]
        /\ UNCHANGED <<users, loose>>
    BY <1>3, <1>9
  <2>2. \A u \in memory[p] : ~Same("name", u, doc) /\ ~Same("name", doc, u)
    BY <2>1 DEF InMemory, Same
  <2>3. memory' = [memory EXCEPT ![p] = @ \cup {doc}]
    BY <2>1, <2>2 DEF Inductive, TypeOK
  <2>4. /\ memory' \in [Processes -> SUBSET Docs]
        /\ memory'[p] = memory[p] \cup {doc}
        /\ \A q \in Processes \ {p} : memory'[q] = memory[q]
    BY <1>1, <2>3 DEF Inductive, TypeOK
  <2>5. TypeOK'
    BY <1>2, <1>4, <1>7, <2>1, <2>4 DEF Inductive, TypeOK
  <2>6. NamesAreNormal'
    BY <1>1, <1>2, <2>1, <2>4 DEF Inductive, NamesAreNormal, Issued
  <2>7. MemoryIsDistinct'
    BY <2>2, <2>4 DEF Inductive, MemoryIsDistinct, Same
  <2>8. TokensHaveAccounts'
    <3>1. StoreName(p) = p
      BY <1>9 DEF StoreName
    <3>2. \A s \in Processes \cup {MongoDB} : Held(s) \subseteq Held(s)'
      BY <2>1, <2>4 DEF Held
    <3>3. doc \in Held(p)'
      BY <2>4, StoresAssumption DEF Held
    <3>4. ASSUME NEW t \in tokens, t.store \in Processes \cup {MongoDB}
          PROVE  (Stands(t) => Stands(t)') /\ (Lost(t) => Lost(t)')
      <4>1. Stands(t) => Stands(t)'
        BY <3>2, <3>4 DEF Stands
      <4>2. t.of <= added /\ t.of \in Nat
        BY DEF Inductive, IdsAreCounted, TypeOK, Tokens, Ids, Administrator
      <4>3. \A q \in Processes : \A u \in memory'[q] : u \in memory[q] \/ u = doc
        BY <2>4
      <4>4. doc.id > t.of
        BY <1>11, <4>2
      <4>5. Lost(t) => Lost(t)'
        BY <1>2, <4>3, <4>4 DEF Lost
      <4> QED BY <4>1, <4>5
    <3>5. QED
      BY <1>11, <1>12, <3>1, <3>3, <3>4 DEF Inductive, TokensHaveAccounts, Stands
  <2>9. QED
    BY <1>2, <1>13, <1>14, <2>1, <2>5, <2>6, <2>7, <2>8 DEF Inductive, IndexedAreDistinct,
      UnindexedAreLoose, LastLoginIsTheirs
<1>10. QED
  BY <1>2, <1>8, <1>9 DEF Ready

(* The update of last_login meets an account of the same name: the same    *)
(* account, or a loose one.                                                *)
LEMMA LoginInductive ==
  ASSUME Inductive, NEW p \in Processes, NEW typed \in Typed, Login(p, typed)
  PROVE  Inductive'
<1>1. PICK user \in FindUser(p, typed) :
        /\ tokens' = Issued(p, user)
        /\ entered' = entered \cup {user.id}
        /\ \/ UNCHANGED lastLogin
           \/ /\ step[p] = "connected"
              /\ \E u \in Stamped(user) : lastLogin' = lastLogin \cup {u.id}
  BY DEF Login
<1>2. /\ Ready(p)
      /\ UNCHANGED <<step, unique, users, memory, countVars, loose, lost>>
  BY DEF Login
<1>3. /\ StoreName(p) \in Processes \cup {MongoDB}
      /\ user \in Held(StoreName(p)) /\ user \in Docs
  BY <1>1, <1>2, FoundIsHeld DEF Inductive
<1>4. user \in users \/ lastLogin' = lastLogin
  BY <1>1 DEF FindUser, Store
<1>5. lastLogin' \subseteq Ids /\ LastLoginIsTheirs'
  <2>1. CASE lastLogin' = lastLogin
    BY <1>1, <1>2, <2>1 DEF Inductive, TypeOK, LastLoginIsTheirs
  <2>2. CASE user \in users /\ \E u \in Stamped(user) : lastLogin' = lastLogin \cup {u.id}
    <3>1. PICK u \in users : Same("name", u, user) /\ lastLogin' = lastLogin \cup {u.id}
      BY <2>2 DEF Stamped
    <3>2. u = user \/ u.id \in loose["name"]
      BY <2>2, <3>1, SameIsLoose DEF Inductive, Fields
    <3>3. u.id \in Ids
      BY <3>1 DEF Inductive, TypeOK, Docs
    <3>4. QED
      BY <1>1, <1>2, <3>1, <3>2, <3>3 DEF Inductive, TypeOK, LastLoginIsTheirs
  <2>3. QED
    BY <1>1, <1>4, <2>1, <2>2
<1>6. [sub |-> user.name, of |-> user.id, store |-> StoreName(p)] \in Tokens
  BY <1>3 DEF Docs, Tokens
<1>7. TypeOK'
  BY <1>1, <1>2, <1>3, <1>5, <1>6 DEF Inductive, TypeOK, Issued, Docs, countVars
<1>8. \A t \in tokens' : t \in tokens \/
         (t.sub = user.name /\ t.of = user.id /\ t.store = StoreName(p))
  BY <1>1 DEF Issued
<1>9. NamesAreNormal'
  BY <1>2 DEF Inductive, NamesAreNormal
<1>12. user.id <= added /\ user.id # Administrator
  BY <1>1, <1>3 DEF Inductive, IdsAreCounted, FindUser, Store, Docs, Ids, Administrator
<1>13. IdsAreCounted'
  BY <1>2, <1>8, <1>12 DEF Inductive, IdsAreCounted, countVars
<1>10. TokensHaveAccounts'
  <2>1. \A s : Held(s)' = Held(s)
    BY <1>2 DEF Held
  <2>2. ASSUME NEW t \in tokens
        PROVE  (Stands(t) => Stands(t)') /\ (Lost(t) => Lost(t)')
    BY <1>2, <2>1 DEF Stands, Lost
  <2>3. QED
    BY <1>3, <1>8, <1>12, <2>1, <2>2 DEF Inductive, TokensHaveAccounts, Stands
<1>11. QED
  BY <1>2, <1>5, <1>7, <1>9, <1>10, <1>13 DEF Inductive, IndexedAreDistinct,
    UnindexedAreLoose, MemoryIsDistinct, ConnectedRememberNobody

(* The administrator's token is his.                                       *)
LEMMA AdminLoginInductive ==
  ASSUME Inductive, NEW p \in Processes, AdminLogin(p)
  PROVE  Inductive'
<1> DEFINE token == [sub |-> AdminName, of |-> Administrator, store |-> Env]
<1>1. /\ tokens' = tokens \cup {token}
      /\ UNCHANGED <<step, mongoVars, memory, countVars, historyVars>>
  BY DEF AdminLogin
<1>2. /\ token \in Tokens /\ token.store = Env /\ token.sub = AdminName
      /\ token.of = Administrator
  BY AdminAssumption DEF Tokens
<1> HIDE DEF token
<1>3. TypeOK'
  BY <1>1, <1>2 DEF Inductive, TypeOK, mongoVars, countVars, historyVars
<1>4. IdsAreCounted'
  <2>1. token.of <= added
    BY <1>2 DEF Inductive, TypeOK, Administrator
  <2> QED BY <1>1, <2>1 DEF Inductive, IdsAreCounted, mongoVars, countVars
<1>5. TokensHaveAccounts'
  <2>1. \A s : Held(s)' = Held(s)
    BY <1>1 DEF Held, mongoVars
  <2>2. ASSUME NEW t \in tokens
        PROVE  (Stands(t) => Stands(t)') /\ (Lost(t) => Lost(t)')
    BY <1>1, <2>1 DEF Stands, Lost, historyVars
  <2> QED BY <1>1, <1>2, <2>2 DEF Inductive, TokensHaveAccounts
<1> QED BY <1>1, <1>3, <1>4, <1>5 DEF Inductive, NamesAreNormal, IndexedAreDistinct,
      UnindexedAreLoose, MemoryIsDistinct, ConnectedRememberNobody, LastLoginIsTheirs, Same,
      mongoVars, historyVars

(* The accounts of a memory are lost; those of tokens among them.          *)
LEMMA RestartInductive ==
  ASSUME Inductive, NEW p \in Processes, Restart(p)
  PROVE  Inductive'
<1>1. /\ step' = [step EXCEPT ![p] = "fresh"]
      /\ memory' = [memory EXCEPT ![p] = {}]
      /\ lost' = lost \cup {u.id : u \in memory[p]}
      /\ restarts' = restarts + 1 /\ restarts < MaxRestarts
      /\ UNCHANGED <<mongoVars, tokens, added, entered, loose>>
  BY DEF Restart
<1>2. memory'[p] = {} /\ \A q \in Processes \ {p} : memory'[q] = memory[q]
  BY <1>1 DEF Inductive, TypeOK
<1>3. TypeOK'
  <2>1. restarts' \in 0 .. MaxRestarts
    BY <1>1, BoundsAssumption DEF Inductive, TypeOK
  <2>2. lost' \subseteq Ids
    BY <1>1 DEF Inductive, TypeOK, Docs
  <2>3. QED
    BY <1>1, <2>1, <2>2 DEF Inductive, TypeOK, mongoVars
<1>4. NamesAreNormal'
  BY <1>1, <1>2 DEF Inductive, NamesAreNormal, mongoVars
<1>5. MemoryIsDistinct'
  BY <1>2 DEF Inductive, MemoryIsDistinct, Same
<1>6. IdsAreCounted'
  BY <1>1, <1>2 DEF Inductive, IdsAreCounted, mongoVars
<1>7. TokensHaveAccounts'
  <2> SUFFICES ASSUME NEW t \in tokens, t.store \in Processes \cup {MongoDB},
                      Stands(t) \/ Lost(t)
               PROVE  Stands(t)' \/ Lost(t)'
    BY <1>1 DEF Inductive, TokensHaveAccounts
  <2>1. CASE t.store = p
    <3>1. t.of \in lost'
      BY <1>1, <2>1, StoresAssumption DEF Stands, Lost, Held
    <3> QED BY <1>2, <2>1, <3>1 DEF Lost
  <2>2. CASE t.store # p
    <3>1. Held(t.store)' = Held(t.store) /\ (t.store \in Processes => memory'[t.store] = memory[t.store])
      BY <1>1, <1>2, <2>2 DEF Held, mongoVars
    <3>2. Stands(t) => Stands(t)'
      BY <3>1 DEF Stands
    <3>3. Lost(t) => Lost(t)'
      BY <1>1, <3>1 DEF Lost
    <3> QED BY <3>2, <3>3
  <2>3. QED
    BY <2>1, <2>2
<1>9. ConnectedRememberNobody'
  BY <1>1, <1>2 DEF Inductive, TypeOK, ConnectedRememberNobody
<1>8. QED
  BY <1>1, <1>3, <1>4, <1>5, <1>6, <1>7, <1>9 DEF Inductive, IndexedAreDistinct,
    UnindexedAreLoose, LastLoginIsTheirs, mongoVars

LEMMA NextInductive == Inductive /\ [Next]_vars => Inductive'
<1> SUFFICES ASSUME Inductive, [Next]_vars PROVE Inductive'
  OBVIOUS
<1>1. CASE Next
  <2>1. PICK p \in Processes :
          \/ Restart(p) \/ AdminLogin(p)
          \/ \E typed \in Typed :
               \/ Login(p, typed)
               \/ \E email \in Emails, ok \in BOOLEAN : Register(p, typed, email, ok)
          \/ \E ok \in BOOLEAN :
               \/ Ping(p, ok)
               \/ \E field \in Fields, built \in BOOLEAN : CreateIndex(p, field, built, ok)
    BY <1>1 DEF Next
  <2>2. QED
    BY <2>1, RestartInductive, AdminLoginInductive, LoginInductive, RegisterInductive, PingInductive,
      CreateIndexInductive
<1>2. CASE UNCHANGED vars
  BY <1>2 DEF vars, mongoVars, countVars, historyVars, Inductive, TypeOK, NamesAreNormal,
    IndexedAreDistinct, UnindexedAreLoose, MemoryIsDistinct, ConnectedRememberNobody,
    IdsAreCounted, TokensHaveAccounts, Stands, Lost, Held, LastLoginIsTheirs, Same
<1>3. QED
  BY <1>1, <1>2

-----------------------------------------------------------------------------
(* Stores, indexes and tokens are in order after every step of every       *)
(* process, whatever fails and whoever restarts.                           *)
THEOREM InductiveInvariant == Spec => []Inductive
BY InitInductive, NextInductive, PTL DEF Spec

(* Every state of the accounts is well typed.                              *)
THEOREM TypeCorrect == Spec => []TypeOK
<1>1. Inductive => TypeOK
  BY DEF Inductive
<1>2. QED
  BY <1>1, InductiveInvariant, PTL

(* In a store, the only account of a name that is not loose is found by    *)
(* every way of typing it.                                                 *)
LEMMA FoundByName ==
  ASSUME Inductive, NEW p \in Processes, Ready(p), NEW u \in Store(p),
         u.id \notin loose["name"], NEW typed \in Typed, typed.name = u.name.name
  PROVE  FindUser(p, typed) = {u}
<1>1. \A v \in Store(p) : v \in Docs /\ v.name \in Typed /\ Normal(v.name) = v.name
  BY DEF Inductive, TypeOK, NamesAreNormal, Store, Docs
<1>2. Normal(typed) = u.name
  BY <1>1, NormalNamesAreNames
<1>3. \A v \in Store(p) : Same("name", v, u) => v = u
  <2>1. CASE step[p] = "connected"
    BY <2>1, SameIsLoose DEF Inductive, Store, Fields
  <2>2. CASE step[p] # "connected"
    BY <2>2 DEF Inductive, MemoryIsDistinct, Store
  <2>3. QED
    BY <2>1, <2>2
<1>4. QED
  BY <1>2, <1>3 DEF FindUser, Same

(* A login with a username is looked up in its owner's account.            *)
THEOREM NamesAreFound == Spec => []NamesFindTheirAccounts
<1>1. Inductive => NamesFindTheirAccounts
  BY FoundByName DEF NamesFindTheirAccounts
<1>2. QED
  BY <1>1, InductiveInvariant, PTL

(* A token shows the account that it was issued for, or the cause why not  *)
(* is one of those that SessionsFindTheirAccounts names; and somebody else *)
(* than it was issued for only came after the loss of its account.         *)
THEOREM SessionsAreFound == Spec => []SessionsFindTheirAccounts
<1>1. Inductive => SessionsFindTheirAccounts
  <2>5. ASSUME Inductive, NEW p \in Processes, NEW t \in tokens, step[p] = "connected"
        PROVE  Me(t.sub, FindInMemory(p, t.sub)) \subseteq {Administrator}
    <3>1. FindInMemory(p, t.sub) = {}
      BY <2>5 DEF Inductive, ConnectedRememberNobody, FindInMemory
    <3> QED BY <3>1 DEF Me
  <2> SUFFICES ASSUME Inductive, NEW p \in Processes, NEW t \in tokens, Ready(p),
                      t.of \notin loose["name"],
                      ~(t.of = Administrator /\ FindUser(p, AdminName) # {}),
                      ~(t.of # Administrator /\ t.store # StoreName(p))
               PROVE  \/ Shown(p, t.sub) = {t.of}
                      \/ /\ t.of \in lost
                         /\ \A other \in Shown(p, t.sub) \ {Administrator} : other > t.of
    BY <2>5 DEF SessionsFindTheirAccounts
  <2>1. t.sub \in Typed
    BY DEF Inductive, TypeOK, Tokens
  <2>2. CASE t.store = Env
    <3>1. t.sub = AdminName /\ t.of = Administrator /\ FindUser(p, t.sub) = {}
      BY <2>2, StoresAssumption DEF Inductive, TokensHaveAccounts
    <3> QED BY <3>1 DEF Shown, Me
  <2>3. CASE t.store # Env
    <3>1. /\ t.of # Administrator /\ t.store = StoreName(p) /\ Held(t.store) = Store(p)
          /\ Stands(t) \/ Lost(t)
      BY <2>3, StoresAssumption DEF Inductive, TokensHaveAccounts, StoreName, Held, Store
    <3>2. CASE Stands(t)
      <4>1. PICK u \in Store(p) : u.id = t.of /\ u.name = t.sub
        BY <3>1, <3>2 DEF Stands
      <4>2. FindUser(p, t.sub) = {u}
        BY <2>1, <4>1, FoundByName
      <4> QED BY <4>1, <4>2 DEF Shown, Me
    <3>3. CASE Lost(t)
      <4>1. t.store = p /\ Store(p) = memory[p]
        BY <3>1, <3>3, StoresAssumption DEF Lost, StoreName, Store
      <4>2. \A u \in FindUser(p, t.sub) : u.id > t.of
        BY <3>3, <4>1 DEF Lost, FindUser
      <4> QED BY <3>3, <4>2 DEF Shown, Me, Lost
    <3> QED BY <3>1, <3>2, <3>3
  <2>4. QED
    BY <2>2, <2>3
<1>2. QED
  BY <1>1, InductiveInvariant, PTL

(* E-mail addresses are distinct but for the accounts added without the    *)
(* index.                                                                  *)
THEOREM EmailsDiffer == Spec => []EmailsAreDistinct
<1>1. Inductive => EmailsAreDistinct
  BY SameIsLoose DEF Inductive, EmailsAreDistinct, Fields
<1>2. QED
  BY <1>1, InductiveInvariant, PTL

(* No last_login of an owner who did not log in, but for loose names.      *)
THEOREM LastLoginIsOwners == Spec => []LastLoginIsTheirs
<1>1. Inductive => LastLoginIsTheirs
  BY DEF Inductive
<1>2. QED
  BY <1>1, InductiveInvariant, PTL
=============================================================================
