------------------------- MODULE Auth0ClientProofs -------------------------
(***************************************************************************)
(* Theorems about Auth0Client, for any number of calls, attempts, tokens   *)
(* and crashes, and however long anything takes: what the margin of a      *)
(* cached token is worth, a rejected token is forgotten, no call gives up  *)
(* early, and BlockCalls is implemented.                                   *)
(***************************************************************************)
EXTENDS Auth0Client, FiniteSetTheorems, TLAPS

-----------------------------------------------------------------------------
(* The parts of the inductive invariant.                                   *)

(* The PATCHes of a call are sent in order: those before its attempt have  *)
(* been sent, those after it have not.                                     *)
Unsent(c, a) == patch[c][a].state = "unsent"

NotBegun(c) == pc[c] \in {"idle", "token"} =>
  attempt[c] = 0 /\ \A a \in Tries : Unsent(c, a)

AboutToSend(c) == pc[c] = "ready" =>
  \A a \in Tries : Unsent(c, a) <=> a >= attempt[c]

HasSent(c) == pc[c] \in {"patch", "retoken"} =>
  \A a \in Tries : Unsent(c, a) <=> a > attempt[c]

SentInOrder == \A c \in Calls : NotBegun(c) /\ AboutToSend(c) /\ HasSent(c)

(* A call past its first token holds one, and its PATCH carries it.        *)
HoldsToken ==
  \A c \in Calls :
    /\ pc[c] \in {"ready", "patch", "retoken"} => token[c] \in Tokens
    /\ pc[c] = "patch" => patch[c][attempt[c]].token = token[c]

(* Every token in use was issued, and the one in an answer that has not    *)
(* arrived is awaited by one call and known to nobody else.                *)
Issued(t) == t # NoToken => expiry[t] # 0

OnlyIssuedInUse ==
  /\ Issued(cache.token)
  /\ \A c \in Calls : Issued(token[c]) /\ Issued(answer[c])
  /\ \A t \in rejected : expiry[t] # 0

AnswersAreFresh ==
  \A c \in Calls : answer[c] # NoToken =>
    /\ pc[c] \in {"token", "retoken"}
    /\ answer[c] # cache.token /\ answer[c] \notin rejected
    /\ \A d \in Calls : token[d] # answer[c]
    /\ \A d \in Calls \ {c} : answer[d] # answer[c]

(* A token is issued for TokenLife, at a time that has passed.             *)
IssueTimes ==
  \A t \in Tokens : expiry[t] # 0 => TokenLife <= expiry[t] /\ expiry[t] <= now + TokenLife

(* The cache overrates the life of its token by the time that the answer   *)
(* took, because TokenArrives counts from the arrival.                     *)
CacheOverrates ==
  cache.token # NoToken =>
    cache.expires_at = expiry[cache.token] + delay[cache.token]

(* When a call took its token, that token had more than the margin left,   *)
(* save for what the cache overrates.  It holds for the old token as well  *)
(* that a call goes on with when the new one did not come.                 *)
TokenOutlastsMargin ==
  \A c \in Calls : pc[c] \in {"ready", "patch", "retoken"} =>
    expiry[token[c]] + delay[token[c]] > took[c] + Margin

(* A call that failed was refused, or has sent all its PATCHes.            *)
FailedForCause ==
  \A c \in Calls : pc[c] = "failed" =>
    patch[c][attempt[c]].state = "refused" \/ \A a \in Tries : ~Unsent(c, a)

Inductive ==
  /\ TypeOK
  /\ SentInOrder
  /\ HoldsToken
  /\ OnlyIssuedInUse
  /\ AnswersAreFresh
  /\ IssueTimes
  /\ CacheOverrates
  /\ TokenOutlastsMargin
  /\ RejectedIsForgotten
  /\ FailedForCause

-----------------------------------------------------------------------------
(* How a coroutine moves, and what the invariant says of the tokens.       *)

(* The call c moves to where, in its n-th attempt, and no other call moves. *)
Moves(c, where, n) ==
  /\ pc' \in [Calls -> Positions] /\ attempt' \in [Calls -> Tries]
  /\ pc'[c] = where /\ attempt'[c] = n
  /\ \A d \in Calls \ {c} : pc'[d] = pc[d] /\ attempt'[d] = attempt[d]

(* GoTo and NextAttempt, and the two requests of a token that end in them. *)
LEMMA GoToMoves ==
  ASSUME TypeOK, NEW c \in Calls, NEW where \in Positions, GoTo(c, where), UNCHANGED attempt
  PROVE  Moves(c, where, attempt[c])
BY DEF Moves, GoTo, TypeOK

LEMMA NextAttemptMoves ==
  ASSUME TypeOK, NEW c \in Calls, NextAttempt(c)
  PROVE  \/ attempt[c] + 1 < Attempts /\ Moves(c, "ready", attempt[c] + 1)
         \/ attempt[c] = Attempts - 1 /\ Moves(c, "failed", attempt[c])
<1>1. attempt[c] \in Tries /\ attempt \in [Calls -> Tries] /\ pc \in [Calls -> Positions]
  BY DEF TypeOK
<1>2. "ready" \in Positions /\ "failed" \in Positions
  BY DEF Positions, Returned
<1>3. CASE attempt[c] + 1 < Attempts
  <2>1. attempt[c] + 1 \in Tries
    BY <1>1, <1>3, AttemptsAssumption DEF Tries
  <2> QED BY <1>1, <1>2, <1>3, <2>1 DEF NextAttempt, GoTo, Moves
<1>4. CASE ~(attempt[c] + 1 < Attempts)
  <2>1. attempt[c] = Attempts - 1
    BY <1>1, <1>4, AttemptsAssumption DEF Tries
  <2> QED BY <1>2, <1>4, <2>1, GoToMoves DEF NextAttempt
<1> QED BY <1>3, <1>4

LEMMA TokenCallMoves ==
  ASSUME TypeOK, NEW c \in Calls, NEW first \in Positions,
         pc[c] \in {"token", "retoken"},
         IF pc[c] = "token" THEN GoTo(c, first) /\ UNCHANGED attempt ELSE NextAttempt(c)
  PROVE  \/ pc[c] = "token" /\ Moves(c, first, attempt[c])
         \/ pc[c] = "retoken" /\ attempt[c] + 1 < Attempts /\ Moves(c, "ready", attempt[c] + 1)
         \/ pc[c] = "retoken" /\ attempt[c] = Attempts - 1 /\ Moves(c, "failed", attempt[c])
<1>1. CASE pc[c] = "token"
  BY <1>1, GoToMoves
<1>2. CASE pc[c] = "retoken"
  BY <1>2, NextAttemptMoves
<1> QED BY <1>1, <1>2

(* After the last attempt of range(Attempts) every PATCH was sent.         *)
LEMMA AfterLastAttempt ==
  ASSUME TypeOK, SentInOrder, NEW c \in Calls,
         pc[c] \in {"patch", "retoken"}, attempt[c] = Attempts - 1
  PROVE  \A a \in Tries : ~Unsent(c, a)
BY AttemptsAssumption DEF SentInOrder, HasSent, Tries

-----------------------------------------------------------------------------
(* Every action preserves the invariant.                                   *)

USE AttemptsAssumption, TimesAssumption, MarginAssumption, BoundsAssumption
DEF Positions, Waiting, Returned, PatchStates, Tries, Tokens, NoToken, auth0Vars, ageVars

LEMMA BeginKeeps ==
  ASSUME Inductive, NEW c \in Calls, NEW b \in BOOLEAN, Begin(c, b)
  PROVE  Inductive'
<1>a. /\ pc' \in [Calls -> Positions] /\ pc[c] = "idle"
      /\ token' \in [Calls -> Tokens \cup {NoToken}] /\ took' \in [Calls -> 0 .. MaxTime]
      /\ \A d \in Calls \ {c} : pc'[d] = pc[d] /\ token'[d] = token[d] /\ took'[d] = took[d]
      /\ \/ /\ CacheHit /\ pc'[c] = "ready"
            /\ token'[c] = cache.token /\ took'[c] = now
         \/ ~CacheHit /\ pc'[c] = "token" /\ token'[c] = token[c] /\ took'[c] = took[c]
  <2>1. /\ pc \in [Calls -> Positions] /\ token \in [Calls -> Tokens \cup {NoToken}]
        /\ took \in [Calls -> 0 .. MaxTime] /\ now \in 0 .. MaxTime
        /\ cache.token \in Tokens \cup {NoToken}
    BY DEF Inductive, TypeOK
  <2>2. CASE CacheHit
    BY <2>1, <2>2 DEF Begin, GoTo, Takes
  <2>3. CASE ~CacheHit
    BY <2>1, <2>3 DEF Begin, GoTo
  <2> QED BY <2>2, <2>3
<1> USE DEF Inductive, TypeOK, Begin, CacheHit, GoTo, Takes, LoopFree
<1>1. TypeOK'
  <2>1. block' \in [Calls -> BOOLEAN]
    OBVIOUS
  <2> QED BY <1>a, <2>1 DEF TypeOK
<1>2. SentInOrder'
  <2>1. UNCHANGED <<attempt, patch>>
    OBVIOUS
  <2> SUFFICES ASSUME NEW d \in Calls PROVE (NotBegun(d) /\ AboutToSend(d) /\ HasSent(d))'
    BY DEF SentInOrder
  <2>2. CASE d # c
    <3>1. pc'[d] = pc[d] /\ attempt'[d] = attempt[d] /\ patch'[d] = patch[d]
      BY <1>a, <2>1, <2>2
    <3>2. NotBegun(d) /\ AboutToSend(d) /\ HasSent(d)
      BY DEF SentInOrder
    <3> HIDE DEF Inductive, TypeOK, Begin
    <3> QED BY <3>1, <3>2 DEF NotBegun, AboutToSend, HasSent, Unsent
  <2>3. CASE d = c
    <3>1. attempt[c] = 0 /\ \A a \in Tries : Unsent(c, a)
      BY <1>a DEF SentInOrder, NotBegun
    <3> QED BY <1>a, <2>1, <2>3, <3>1 DEF NotBegun, AboutToSend, HasSent, Unsent
  <2> QED BY <2>2, <2>3
<1>3. HoldsToken'
  <2>1. UNCHANGED <<attempt, patch>>
    OBVIOUS
  <2>2. CacheHit => cache.token \in Tokens
    OBVIOUS
  <2> QED BY <1>a, <2>1, <2>2 DEF HoldsToken
<1>4. OnlyIssuedInUse'
  BY DEF OnlyIssuedInUse, Issued
<1>5. AnswersAreFresh'
  <2>1. CASE CacheHit
    BY ZenonT(30), <2>1 DEF AnswersAreFresh
  <2>2. CASE ~CacheHit
    BY <2>2 DEF AnswersAreFresh
  <2> QED BY <2>1, <2>2
<1>6. IssueTimes'
  BY DEF IssueTimes
<1>7. CacheOverrates'
  BY DEF CacheOverrates
<1>8. TokenOutlastsMargin'
  <2> SUFFICES ASSUME NEW d \in Calls, pc'[d] \in {"ready", "patch", "retoken"}
               PROVE  expiry[token'[d]] + delay[token'[d]] > took'[d] + Margin
    BY DEF TokenOutlastsMargin
  <2>1. CASE d # c
    BY <2>1 DEF TokenOutlastsMargin, Takes
  <2>2. CASE d = c
    <3>1. CacheHit /\ token'[d] = cache.token /\ took'[d] = now
      BY <2>2 DEF Takes
    <3>2. cache.expires_at = expiry[cache.token] + delay[cache.token]
      BY <3>1 DEF CacheOverrates
    <3> QED BY <3>1, <3>2
  <2> QED BY <2>1, <2>2
<1>9. RejectedIsForgotten'
  BY DEF RejectedIsForgotten
<1>10. FailedForCause'
  BY DEF FailedForCause, Unsent
<1> QED BY <1>1, <1>2, <1>3, <1>4, <1>5, <1>6, <1>7, <1>8, <1>9, <1>10

LEMMA IssueTokenKeeps ==
  ASSUME Inductive, NEW c \in Calls, NEW t \in Tokens, IssueToken(c, t)
  PROVE  Inductive'
<1> USE DEF Inductive, TypeOK, IssueToken
<1>1. TypeOK'
  <2>1. now + TokenLife \in 0 .. MaxTime + TokenLife
    OBVIOUS
  <2>2. /\ expiry' \in [Tokens -> 0 .. MaxTime + TokenLife]
        /\ answer' \in [Calls -> Tokens \cup {NoToken}]
    BY <2>1
  <2> QED BY <2>2
<1>2. SentInOrder'
  BY DEF SentInOrder, NotBegun, AboutToSend, HasSent, Unsent
<1>3. HoldsToken'
  BY DEF HoldsToken, AnswersAreFresh, SentInOrder, NotBegun, AboutToSend, HasSent,
         Unsent
<1>4. OnlyIssuedInUse'
  BY DEF OnlyIssuedInUse, Issued
<1>5. AnswersAreFresh'
  <2>1. /\ answer'[c] = t /\ \A d \in Calls \ {c} : answer'[d] = answer[d]
        /\ UNCHANGED <<pc, cache, rejected, token>>
    OBVIOUS
  <2>2. /\ cache.token # t /\ t \notin rejected
        /\ \A d \in Calls : token[d] # t /\ answer[d] # t
    <3>1. expiry[t] = 0 /\ t # NoToken
      OBVIOUS
    <3>2. OnlyIssuedInUse
      OBVIOUS
    <3> QED BY <3>1, <3>2 DEF OnlyIssuedInUse, Issued
  <2>3. pc[c] \in {"token", "retoken"}
    OBVIOUS
  <2> QED BY <2>1, <2>2, <2>3 DEF AnswersAreFresh
<1>6. IssueTimes'
  BY DEF IssueTimes
<1>7. CacheOverrates'
  BY DEF CacheOverrates, OnlyIssuedInUse, Issued
<1>8. TokenOutlastsMargin'
  <2> SUFFICES ASSUME NEW d \in Calls, pc[d] \in {"ready", "patch", "retoken"}
               PROVE  expiry'[token[d]] + delay[token[d]] > took[d] + Margin
    BY DEF TokenOutlastsMargin
  <2>1. expiry[token[d]] # 0 /\ token[d] \in Tokens
    BY DEF HoldsToken, OnlyIssuedInUse, Issued
  <2>2. expiry'[token[d]] = expiry[token[d]]
    BY <2>1
  <2> QED BY <2>2 DEF TokenOutlastsMargin
<1>9. RejectedIsForgotten'
  BY DEF RejectedIsForgotten
<1>10. FailedForCause'
  BY DEF FailedForCause, Unsent, SentInOrder, NotBegun, AboutToSend, HasSent
<1> QED BY <1>1, <1>2, <1>3, <1>4, <1>5, <1>6, <1>7, <1>8, <1>9, <1>10

LEMMA TokenArrivesKeeps ==
  ASSUME Inductive, NEW c \in Calls, TokenArrives(c)
  PROVE  Inductive'
<1>0. \/ pc[c] = "token" /\ Moves(c, "ready", attempt[c])
      \/ pc[c] = "retoken" /\ attempt[c] + 1 < Attempts /\ Moves(c, "ready", attempt[c] + 1)
      \/ pc[c] = "retoken" /\ attempt[c] = Attempts - 1 /\ Moves(c, "failed", attempt[c])
  <2>1. "ready" \in Positions
    BY DEF Positions, Returned
  <2> QED BY <2>1, TokenCallMoves DEF Inductive, TokenArrives
<1> USE <1>0 DEF Inductive, TypeOK, TokenArrives, Moves, Takes
<1>1. TypeOK'
  <2>1. /\ now + TokenLife \in 0 .. MaxTime + TokenLife
        /\ expiry[answer[c]] \in Int /\ now \in 0 .. MaxTime
    OBVIOUS
  <2>2. TokenLife <= expiry[answer[c]] /\ expiry[answer[c]] <= now + TokenLife
    <3>1. answer[c] \in Tokens /\ expiry[answer[c]] # 0
      BY DEF OnlyIssuedInUse, Issued, Tokens, NoToken
    <3> QED BY <3>1 DEF IssueTimes
  <2>3. (now + TokenLife) - expiry[answer[c]] \in 0 .. MaxTime
    <3> HIDE DEF Inductive, TypeOK, TokenArrives
    <3> QED BY <2>1, <2>2
  <2>4. cache' \in [token : Tokens \cup {NoToken}, expires_at : 0 .. MaxTime + TokenLife]
    BY <2>1
  <2>5. delay' \in [Tokens -> 0 .. MaxTime]
    BY <2>3
  <2>6. /\ token' \in [Calls -> Tokens \cup {NoToken}] /\ took' \in [Calls -> 0 .. MaxTime]
        /\ answer' \in [Calls -> Tokens \cup {NoToken}]
    OBVIOUS
  <2> QED BY <2>4, <2>5, <2>6
<1>2. SentInOrder'
  <2> SUFFICES ASSUME NEW d \in Calls PROVE (NotBegun(d) /\ AboutToSend(d) /\ HasSent(d))'
    BY DEF SentInOrder
  <2>1. CASE d # c
    BY SMTT(30), <2>1 DEF SentInOrder, NotBegun, AboutToSend, HasSent, Unsent
  <2>2. CASE d = c
    BY SMTT(30), <2>2 DEF SentInOrder, NotBegun, AboutToSend, HasSent, Unsent
  <2> QED BY <2>1, <2>2
<1>3. HoldsToken'
  BY DEF HoldsToken
<1>4. OnlyIssuedInUse'
  BY DEF OnlyIssuedInUse, Issued, AnswersAreFresh, HoldsToken
<1>5. AnswersAreFresh'
  BY DEF AnswersAreFresh
<1>6. IssueTimes'
  BY DEF IssueTimes
<1>7. CacheOverrates'
  <2>1. expiry[answer[c]] \in Int /\ now + TokenLife \in Int /\ answer[c] # NoToken
    OBVIOUS
  <2>2. /\ cache'.token = answer[c] /\ cache'.expires_at = now + TokenLife
        /\ expiry' = expiry
        /\ delay'[answer[c]] = (now + TokenLife) - expiry[answer[c]]
    OBVIOUS
  <2> QED BY <2>1, <2>2 DEF CacheOverrates
<1>8. TokenOutlastsMargin'
  <2> SUFFICES ASSUME NEW d \in Calls, pc'[d] \in {"ready", "patch", "retoken"}
               PROVE  expiry[token'[d]] + delay'[token'[d]] > took'[d] + Margin
    BY DEF TokenOutlastsMargin
  <2>1. CASE d # c
    <3>1. token'[d] = token[d] /\ took'[d] = took[d] /\ pc'[d] = pc[d]
      BY <2>1 DEF Takes
    <3>2. pc[d] \in {"ready", "patch", "retoken"} /\ answer[c] # NoToken
      BY <3>1
    <3>3. token[d] # answer[c]
      BY <3>2 DEF AnswersAreFresh
    <3>4. token[d] \in Tokens
      BY <3>2 DEF HoldsToken
    <3>5. delay'[token[d]] = delay[token[d]]
      BY <3>3, <3>4
    <3>6. expiry[token[d]] + delay[token[d]] > took[d] + Margin
      BY <3>2 DEF TokenOutlastsMargin
    <3> QED BY <3>1, <3>5, <3>6
  <2>2. CASE d = c
    <3>1. token'[d] = answer[c] /\ took'[d] = now
      BY <2>2 DEF Takes
    <3>2. /\ delay'[answer[c]] = (now + TokenLife) - expiry[answer[c]]
          /\ expiry[answer[c]] \in Int /\ now \in Int
      OBVIOUS
    <3> HIDE DEF Inductive, TypeOK, TokenArrives
    <3> QED BY <3>1, <3>2
  <2> QED BY <2>1, <2>2
<1>9. RejectedIsForgotten'
  BY DEF RejectedIsForgotten, HoldsToken, OnlyIssuedInUse, Issued, AnswersAreFresh
<1>10. FailedForCause'
  <2> SUFFICES ASSUME NEW d \in Calls, pc'[d] = "failed"
               PROVE  (\/ patch[d][attempt[d]].state = "refused"
                       \/ \A a \in Tries : ~Unsent(d, a))'
    BY DEF FailedForCause
  <2>1. CASE d # c
    BY <2>1 DEF FailedForCause, Unsent
  <2>2. CASE d = c
    <3>1. \A a \in Tries : ~Unsent(c, a)
      BY <2>2, AfterLastAttempt
    <3> QED BY <2>2, <3>1 DEF Unsent
  <2> QED BY <2>1, <2>2
<1> QED BY <1>1, <1>2, <1>3, <1>4, <1>5, <1>6, <1>7, <1>8, <1>9, <1>10

LEMMA TokenRefusedKeeps ==
  ASSUME Inductive, NEW c \in Calls, TokenRefused(c)
  PROVE  Inductive'
<1> USE DEF Inductive, TypeOK, TokenRefused, GoTo
<1>1. TypeOK'
  OBVIOUS
<1>2. SentInOrder'
  BY DEF SentInOrder, NotBegun, AboutToSend, HasSent, Unsent
<1>3. HoldsToken'
  BY DEF HoldsToken, AnswersAreFresh, SentInOrder, NotBegun, AboutToSend, HasSent,
         Unsent
<1>4. OnlyIssuedInUse'
  BY DEF OnlyIssuedInUse, Issued
<1>5. AnswersAreFresh'
  BY DEF AnswersAreFresh, HoldsToken, OnlyIssuedInUse, Issued
<1>6. IssueTimes'
  BY DEF IssueTimes
<1>7. CacheOverrates'
  BY DEF CacheOverrates
<1>8. TokenOutlastsMargin'
  BY DEF TokenOutlastsMargin
<1>9. RejectedIsForgotten'
  BY DEF RejectedIsForgotten
<1>10. FailedForCause'
  BY DEF FailedForCause, Unsent, SentInOrder, NotBegun, AboutToSend, HasSent
<1> QED BY <1>1, <1>2, <1>3, <1>4, <1>5, <1>6, <1>7, <1>8, <1>9, <1>10

LEMMA TokenErrorKeeps ==
  ASSUME Inductive, NEW c \in Calls, TokenError(c)
  PROVE  Inductive'
<1>0. \/ pc[c] = "token" /\ Moves(c, "raised", attempt[c])
      \/ pc[c] = "retoken" /\ attempt[c] + 1 < Attempts /\ Moves(c, "ready", attempt[c] + 1)
      \/ pc[c] = "retoken" /\ attempt[c] = Attempts - 1 /\ Moves(c, "failed", attempt[c])
  <2>1. "raised" \in Positions
    BY DEF Positions, Returned
  <2> QED BY <2>1, TokenCallMoves DEF Inductive, TokenError
<1> USE <1>0 DEF Inductive, TypeOK, TokenError, Moves
<1>1. TypeOK'
  OBVIOUS
<1>2. SentInOrder'
  <2> SUFFICES ASSUME NEW d \in Calls PROVE (NotBegun(d) /\ AboutToSend(d) /\ HasSent(d))'
    BY DEF SentInOrder
  <2>1. CASE d # c
    BY <2>1 DEF SentInOrder, NotBegun, AboutToSend, HasSent, Unsent
  <2>2. CASE d = c
    BY <2>2 DEF SentInOrder, NotBegun, AboutToSend, HasSent, Unsent
  <2> QED BY <2>1, <2>2
<1>3. HoldsToken'
  BY DEF HoldsToken
<1>4. OnlyIssuedInUse'
  BY DEF OnlyIssuedInUse, Issued, AnswersAreFresh, HoldsToken
<1>5. AnswersAreFresh'
  BY DEF AnswersAreFresh
<1>6. IssueTimes'
  BY DEF IssueTimes
<1>7. CacheOverrates'
  BY DEF CacheOverrates
<1>8. TokenOutlastsMargin'
  BY DEF TokenOutlastsMargin
<1>9. RejectedIsForgotten'
  BY DEF RejectedIsForgotten, HoldsToken, OnlyIssuedInUse, Issued, AnswersAreFresh
<1>10. FailedForCause'
  <2> SUFFICES ASSUME NEW d \in Calls, pc'[d] = "failed"
               PROVE  (\/ patch[d][attempt[d]].state = "refused"
                       \/ \A a \in Tries : ~Unsent(d, a))'
    BY DEF FailedForCause
  <2>1. CASE d # c
    BY <2>1 DEF FailedForCause, Unsent
  <2>2. CASE d = c
    <3>1. \A a \in Tries : ~Unsent(c, a)
      BY <2>2, AfterLastAttempt
    <3> QED BY <2>2, <3>1 DEF Unsent
  <2> QED BY <2>1, <2>2
<1> QED BY <1>1, <1>2, <1>3, <1>4, <1>5, <1>6, <1>7, <1>8, <1>9, <1>10

LEMMA SendPatchKeeps ==
  ASSUME Inductive, NEW c \in Calls, SendPatch(c)
  PROVE  Inductive'
<1> USE DEF Inductive, TypeOK, SendPatch, GoTo
<1>1. TypeOK'
  OBVIOUS
<1>2. SentInOrder'
  BY DEF SentInOrder, NotBegun, AboutToSend, HasSent, Unsent
<1>3. HoldsToken'
  BY DEF HoldsToken, AnswersAreFresh, SentInOrder, NotBegun, AboutToSend, HasSent,
         Unsent
<1>4. OnlyIssuedInUse'
  BY DEF OnlyIssuedInUse, Issued
<1>5. AnswersAreFresh'
  BY DEF AnswersAreFresh, HoldsToken, OnlyIssuedInUse, Issued
<1>6. IssueTimes'
  BY DEF IssueTimes
<1>7. CacheOverrates'
  BY DEF CacheOverrates
<1>8. TokenOutlastsMargin'
  BY DEF TokenOutlastsMargin
<1>9. RejectedIsForgotten'
  BY DEF RejectedIsForgotten
<1>10. FailedForCause'
  BY DEF FailedForCause, Unsent, SentInOrder, NotBegun, AboutToSend, HasSent
<1> QED BY <1>1, <1>2, <1>3, <1>4, <1>5, <1>6, <1>7, <1>8, <1>9, <1>10

LEMMA HandlePatchKeeps ==
  ASSUME Inductive, NEW c \in Calls, NEW a \in Tries, NEW result \in Answers,
         HandlePatch(c, a, result)
  PROVE  Inductive'
<1>0. /\ patch \in [Calls -> [Tries -> [state : PatchStates, token : Tokens \cup {NoToken}]]]
      /\ patch' = [patch EXCEPT ![c] =
                    [patch[c] EXCEPT ![a] = [patch[c][a] EXCEPT !.state = result]]]
      /\ result \in PatchStates
  BY DEF Inductive, TypeOK, HandlePatch, Answers, PatchStates
<1>a. /\ \A d \in Calls, e \in Tries : d # c \/ e # a => patch'[d][e] = patch[d][e]
      /\ patch'[c][a].state = result /\ patch'[c][a].token = patch[c][a].token
      /\ patch' \in [Calls -> [Tries -> [state : PatchStates, token : Tokens \cup {NoToken}]]]
  <2> DEFINE P == [patch[c] EXCEPT ![a] = [patch[c][a] EXCEPT !.state = result]]
  <2>1. P \in [Tries -> [state : PatchStates, token : Tokens \cup {NoToken}]]
    BY <1>0
  <2>2. /\ P[a].state = result /\ P[a].token = patch[c][a].token
        /\ \A e \in Tries \ {a} : P[e] = patch[c][e]
    BY <1>0
  <2>3. patch' = [patch EXCEPT ![c] = P]
    BY <1>0
  <2> HIDE DEF P
  <2> QED BY <1>0, <2>1, <2>2, <2>3
<1>b. /\ \A d \in Calls, e \in Tries : patch'[d][e].token = patch[d][e].token
      /\ \A d \in Calls, e \in Tries : Unsent(d, e)' <=> Unsent(d, e)
  BY <1>a DEF Unsent, HandlePatch, Answers
<1>c. \A d \in Calls, e \in Tries :
        patch[d][e].state # "wire" => patch'[d][e].state = patch[d][e].state
  BY <1>a DEF HandlePatch
<1> USE <1>a, <1>b, <1>c DEF Inductive, TypeOK, HandlePatch, Accepted, Answers
<1>1. TypeOK'
  OBVIOUS
<1>2. SentInOrder'
  BY DEF SentInOrder, NotBegun, AboutToSend, HasSent
<1>3. HoldsToken'
  BY SMTT(30) DEF HoldsToken, AnswersAreFresh, SentInOrder, NotBegun, AboutToSend, HasSent,
         Unsent
<1>4. OnlyIssuedInUse'
  BY DEF OnlyIssuedInUse, Issued
<1>5. AnswersAreFresh'
  BY SMTT(30) DEF AnswersAreFresh, HoldsToken, OnlyIssuedInUse, Issued
<1>6. IssueTimes'
  BY DEF IssueTimes
<1>7. CacheOverrates'
  BY DEF CacheOverrates
<1>8. TokenOutlastsMargin'
  BY DEF TokenOutlastsMargin
<1>9. RejectedIsForgotten'
  BY DEF RejectedIsForgotten
<1>10. FailedForCause'
  BY SMTT(30) DEF FailedForCause
<1> QED BY <1>1, <1>2, <1>3, <1>4, <1>5, <1>6, <1>7, <1>8, <1>9, <1>10

LEMMA OnAnswerKeeps ==
  ASSUME Inductive, NEW c \in Calls, OnAnswer(c)
  PROVE  Inductive'
<1> USE DEF Inductive, TypeOK, OnAnswer, Answered, GoTo
<1>1. TypeOK'
  OBVIOUS
<1>2. SentInOrder'
  <2> SUFFICES ASSUME NEW d \in Calls PROVE (NotBegun(d) /\ AboutToSend(d) /\ HasSent(d))'
    BY DEF SentInOrder
  <2>1. CASE d # c
    BY <2>1 DEF SentInOrder, NotBegun, AboutToSend, HasSent, Unsent
  <2>2. CASE d = c
    BY <2>2 DEF SentInOrder, NotBegun, AboutToSend, HasSent, Unsent
  <2> QED BY <2>1, <2>2
<1>3. HoldsToken'
  BY DEF HoldsToken
<1>4. OnlyIssuedInUse'
  BY DEF OnlyIssuedInUse, Issued, AnswersAreFresh, HoldsToken
<1>5. AnswersAreFresh'
  BY DEF AnswersAreFresh
<1>6. IssueTimes'
  BY DEF IssueTimes
<1>7. CacheOverrates'
  BY DEF CacheOverrates
<1>8. TokenOutlastsMargin'
  BY DEF TokenOutlastsMargin
<1>9. RejectedIsForgotten'
  BY DEF RejectedIsForgotten, HoldsToken, OnlyIssuedInUse, Issued, AnswersAreFresh
<1>10. FailedForCause'
  BY DEF FailedForCause, Unsent
<1> QED BY <1>1, <1>2, <1>3, <1>4, <1>5, <1>6, <1>7, <1>8, <1>9, <1>10

LEMMA OnUnauthorizedKeeps ==
  ASSUME Inductive, NEW c \in Calls, OnUnauthorized(c)
  PROVE  Inductive'
<1> USE DEF Inductive, TypeOK, OnUnauthorized, Answered, ForgetToken, GoTo
<1>1. TypeOK'
  <2>1. cache' \in [token : Tokens \cup {NoToken}, expires_at : 0 .. MaxTime + TokenLife]
    OBVIOUS
  <2>2. pc' \in [Calls -> Positions]
    OBVIOUS
  <2>3. rejected' \subseteq Tokens
    BY DEF HoldsToken
  <2> QED BY <2>1, <2>2, <2>3
<1>2. SentInOrder'
  BY DEF SentInOrder, NotBegun, AboutToSend, HasSent, Unsent
<1>3. HoldsToken'
  BY DEF HoldsToken, AnswersAreFresh, SentInOrder, NotBegun, AboutToSend, HasSent,
         Unsent
<1>4. OnlyIssuedInUse'
  BY DEF OnlyIssuedInUse, Issued, HoldsToken
<1>5. AnswersAreFresh'
  BY DEF AnswersAreFresh, HoldsToken, OnlyIssuedInUse, Issued
<1>6. IssueTimes'
  BY DEF IssueTimes
<1>7. CacheOverrates'
  BY DEF CacheOverrates
<1>8. TokenOutlastsMargin'
  BY DEF TokenOutlastsMargin
<1>9. RejectedIsForgotten'
  <2>1. cache'.token = NoToken /\ rejected' = rejected \cup {token[c]}
    OBVIOUS
  <2>2. rejected \subseteq Tokens /\ token[c] \in Tokens
    BY DEF HoldsToken
  <2>3. NoToken \notin Tokens
    OBVIOUS
  <2> HIDE DEF Inductive, TypeOK, OnUnauthorized, Tokens
  <2> QED BY <2>1, <2>2, <2>3 DEF RejectedIsForgotten
<1>10. FailedForCause'
  BY SMTT(30) DEF FailedForCause, Unsent, SentInOrder, NotBegun, AboutToSend, HasSent
<1> QED BY <1>1, <1>2, <1>3, <1>4, <1>5, <1>6, <1>7, <1>8, <1>9, <1>10

LEMMA OnRequestErrorKeeps ==
  ASSUME Inductive, NEW c \in Calls, OnRequestError(c)
  PROVE  Inductive'
<1>0. \/ attempt[c] + 1 < Attempts /\ Moves(c, "ready", attempt[c] + 1)
      \/ attempt[c] = Attempts - 1 /\ Moves(c, "failed", attempt[c])
  BY NextAttemptMoves DEF Inductive, OnRequestError
<1> USE <1>0 DEF Inductive, TypeOK, OnRequestError, Moves
<1>1. TypeOK'
  OBVIOUS
<1>2. SentInOrder'
  <2> SUFFICES ASSUME NEW d \in Calls PROVE (NotBegun(d) /\ AboutToSend(d) /\ HasSent(d))'
    BY DEF SentInOrder
  <2>1. CASE d # c
    BY <2>1 DEF SentInOrder, NotBegun, AboutToSend, HasSent, Unsent
  <2>2. CASE d = c
    BY <2>2 DEF SentInOrder, NotBegun, AboutToSend, HasSent, Unsent
  <2> QED BY <2>1, <2>2
<1>3. HoldsToken'
  BY DEF HoldsToken
<1>4. OnlyIssuedInUse'
  BY DEF OnlyIssuedInUse, Issued, AnswersAreFresh, HoldsToken
<1>5. AnswersAreFresh'
  BY DEF AnswersAreFresh
<1>6. IssueTimes'
  BY DEF IssueTimes
<1>7. CacheOverrates'
  BY DEF CacheOverrates
<1>8. TokenOutlastsMargin'
  BY DEF TokenOutlastsMargin
<1>9. RejectedIsForgotten'
  BY DEF RejectedIsForgotten, HoldsToken, OnlyIssuedInUse, Issued, AnswersAreFresh
<1>10. FailedForCause'
  <2> SUFFICES ASSUME NEW d \in Calls, pc'[d] = "failed"
               PROVE  (\/ patch[d][attempt[d]].state = "refused"
                       \/ \A a \in Tries : ~Unsent(d, a))'
    BY DEF FailedForCause
  <2>1. CASE d # c
    BY <2>1 DEF FailedForCause, Unsent
  <2>2. CASE d = c
    <3>1. \A a \in Tries : ~Unsent(c, a)
      BY <2>2, AfterLastAttempt
    <3> QED BY <2>2, <3>1 DEF Unsent
  <2> QED BY <2>1, <2>2
<1> QED BY <1>1, <1>2, <1>3, <1>4, <1>5, <1>6, <1>7, <1>8, <1>9, <1>10

LEMMA TickKeeps ==
  ASSUME Inductive, Tick
  PROVE  Inductive'
<1> USE DEF Inductive, TypeOK, Tick, callVars
<1>a. now' = now + 1 /\ now \in Nat
  OBVIOUS
<1>1. TypeOK'
  OBVIOUS
<1>2. SentInOrder'
  BY DEF SentInOrder, NotBegun, AboutToSend, HasSent, Unsent
<1>3. HoldsToken'
  BY DEF HoldsToken, AnswersAreFresh, SentInOrder, NotBegun, AboutToSend, HasSent,
         Unsent
<1>4. OnlyIssuedInUse'
  BY DEF OnlyIssuedInUse, Issued
<1>5. AnswersAreFresh'
  BY DEF AnswersAreFresh, HoldsToken, OnlyIssuedInUse, Issued
<1>6. IssueTimes'
  <2> SUFFICES ASSUME NEW t \in Tokens, expiry[t] # 0
               PROVE  TokenLife <= expiry[t] /\ expiry[t] <= now' + TokenLife
    BY DEF IssueTimes
  <2>1. TokenLife <= expiry[t] /\ expiry[t] <= now + TokenLife /\ expiry[t] \in Int
    BY DEF IssueTimes
  <2> QED BY <1>a, <2>1
<1>7. CacheOverrates'
  BY DEF CacheOverrates
<1>8. TokenOutlastsMargin'
  BY DEF TokenOutlastsMargin
<1>9. RejectedIsForgotten'
  BY DEF RejectedIsForgotten
<1>10. FailedForCause'
  BY DEF FailedForCause, Unsent, SentInOrder, NotBegun, AboutToSend, HasSent
<1> QED BY <1>1, <1>2, <1>3, <1>4, <1>5, <1>6, <1>7, <1>8, <1>9, <1>10

LEMMA RevokeKeeps ==
  ASSUME Inductive, NEW t \in Tokens, Revoke(t)
  PROVE  Inductive'
<1> USE DEF Inductive, TypeOK, Revoke, callVars
<1>1. TypeOK'
  OBVIOUS
<1>2. SentInOrder'
  BY DEF SentInOrder, NotBegun, AboutToSend, HasSent, Unsent
<1>3. HoldsToken'
  BY DEF HoldsToken, AnswersAreFresh, SentInOrder, NotBegun, AboutToSend, HasSent,
         Unsent
<1>4. OnlyIssuedInUse'
  BY DEF OnlyIssuedInUse, Issued
<1>5. AnswersAreFresh'
  BY DEF AnswersAreFresh, HoldsToken, OnlyIssuedInUse, Issued
<1>6. IssueTimes'
  BY DEF IssueTimes
<1>7. CacheOverrates'
  BY DEF CacheOverrates
<1>8. TokenOutlastsMargin'
  BY DEF TokenOutlastsMargin
<1>9. RejectedIsForgotten'
  BY DEF RejectedIsForgotten
<1>10. FailedForCause'
  BY DEF FailedForCause, Unsent, SentInOrder, NotBegun, AboutToSend, HasSent
<1> QED BY <1>1, <1>2, <1>3, <1>4, <1>5, <1>6, <1>7, <1>8, <1>9, <1>10

LEMMA CrashKeeps ==
  ASSUME Inductive, Crash
  PROVE  Inductive'
<1> USE DEF Inductive, TypeOK, Crash
<1>1. TypeOK'
  OBVIOUS
<1>2. SentInOrder'
  BY DEF SentInOrder, NotBegun, AboutToSend, HasSent, Unsent
<1>3. HoldsToken'
  BY DEF HoldsToken, AnswersAreFresh, SentInOrder, NotBegun, AboutToSend, HasSent,
         Unsent
<1>4. OnlyIssuedInUse'
  BY DEF OnlyIssuedInUse, Issued
<1>5. AnswersAreFresh'
  BY DEF AnswersAreFresh, HoldsToken, OnlyIssuedInUse, Issued
<1>6. IssueTimes'
  BY DEF IssueTimes
<1>7. CacheOverrates'
  BY DEF CacheOverrates
<1>8. TokenOutlastsMargin'
  BY DEF TokenOutlastsMargin
<1>9. RejectedIsForgotten'
  BY DEF RejectedIsForgotten
<1>10. FailedForCause'
  BY DEF FailedForCause, Unsent, SentInOrder, NotBegun, AboutToSend, HasSent
<1> QED BY <1>1, <1>2, <1>3, <1>4, <1>5, <1>6, <1>7, <1>8, <1>9, <1>10

HIDE DEF Positions, Waiting, Returned, PatchStates, Tries, Tokens, NoToken, auth0Vars, ageVars

-----------------------------------------------------------------------------
(* The invariant holds initially, and every step preserves it.             *)
LEMMA InductiveInit == Init => Inductive
<1> SUFFICES ASSUME Init PROVE Inductive
  OBVIOUS
<1> USE DEF Init, Tokens, NoToken, Tries
<1>1. TypeOK
  BY AttemptsAssumption, TimesAssumption, BoundsAssumption DEF TypeOK, Positions, PatchStates
<1>2. /\ SentInOrder /\ HoldsToken /\ OnlyIssuedInUse /\ AnswersAreFresh
      /\ IssueTimes /\ CacheOverrates /\ RejectedIsForgotten
  BY AttemptsAssumption, TimesAssumption, BoundsAssumption
  DEF SentInOrder, NotBegun, AboutToSend, HasSent, Unsent, HoldsToken, OnlyIssuedInUse,
      Issued, AnswersAreFresh, IssueTimes, CacheOverrates, RejectedIsForgotten
<1>3. TokenOutlastsMargin /\ FailedForCause
  BY DEF TokenOutlastsMargin, FailedForCause
<1> QED BY <1>1, <1>2, <1>3 DEF Inductive

LEMMA InductiveStutter == Inductive /\ UNCHANGED vars => Inductive'
<1> SUFFICES ASSUME Inductive, UNCHANGED vars PROVE Inductive'
  OBVIOUS
<1> USE DEF Inductive, vars, auth0Vars, callVars, ageVars
<1>1. TypeOK' /\ SentInOrder' /\ HoldsToken' /\ OnlyIssuedInUse' /\ AnswersAreFresh'
  BY DEF TypeOK, SentInOrder, NotBegun, AboutToSend, HasSent, Unsent, HoldsToken,
         OnlyIssuedInUse, Issued, AnswersAreFresh
<1>2. /\ IssueTimes' /\ CacheOverrates' /\ TokenOutlastsMargin'
      /\ RejectedIsForgotten' /\ FailedForCause'
  BY DEF IssueTimes, CacheOverrates, TokenOutlastsMargin, RejectedIsForgotten,
         FailedForCause, Unsent
<1> QED BY <1>1, <1>2

LEMMA InductiveNext == Inductive /\ [Next]_vars => Inductive'
<1> SUFFICES ASSUME Inductive, [Next]_vars PROVE Inductive'
  OBVIOUS
<1>1. CASE \E c \in Calls, b \in BOOLEAN : Begin(c, b)
  BY <1>1, BeginKeeps
<1>2. CASE \E c \in Calls : Coroutine(c)
  BY <1>2, SendPatchKeeps, TokenArrivesKeeps, TokenRefusedKeeps, TokenErrorKeeps,
     OnAnswerKeeps, OnUnauthorizedKeeps, OnRequestErrorKeeps DEF Coroutine
<1>3. CASE \E c \in Calls, t \in Tokens : IssueToken(c, t)
  BY <1>3, IssueTokenKeeps
<1>4. CASE \E c \in Calls, a \in Tries, result \in Answers : HandlePatch(c, a, result)
  BY <1>4, HandlePatchKeeps
<1>5. CASE Tick \/ (\E t \in Tokens : Revoke(t)) \/ Crash
  BY <1>5, TickKeeps, RevokeKeeps, CrashKeeps
<1>6. CASE Idle \/ UNCHANGED vars
  BY <1>6, InductiveStutter DEF Idle
<1> QED BY <1>1, <1>2, <1>3, <1>4, <1>5, <1>6 DEF Next

(* The inductive invariant holds in every state that the client reaches.   *)
THEOREM ClientInvariant == Spec => []Inductive
BY InductiveInit, InductiveNext, PTL DEF Spec

(* The variables of the client and of Auth0 keep their types: in           *)
(* particular the attempt is one of range(Attempts).                       *)
THEOREM TypeCorrect == Spec => []TypeOK
<1>1. Inductive => TypeOK
  BY DEF Inductive
<1> QED BY <1>1, ClientInvariant, PTL

(* The margin of get_auth0_token pays for the way of the answer and for    *)
(* everything between taking the token and sending a PATCH: while the two  *)
(* delays together are within it, no PATCH carries an expired token.       *)
THEOREM MarginIsEnough == Spec => []MarginCoversDelays
<1>1. Inductive => MarginCoversDelays
  <2> SUFFICES ASSUME Inductive, NEW c \in Calls, pc[c] = "ready",
                      delay[token[c]] + now <= took[c] + Margin
               PROVE  expiry[token[c]] > now
    BY DEF MarginCoversDelays
  <2>1. token[c] \in Tokens
    BY DEF Inductive, HoldsToken
  <2>2. /\ now \in Int /\ expiry[token[c]] \in Int
        /\ delay[token[c]] \in Int /\ took[c] \in Int /\ Margin \in Int
    BY <2>1, TimesAssumption DEF Inductive, TypeOK
  <2>3. expiry[token[c]] + delay[token[c]] > took[c] + Margin
    BY DEF Inductive, TokenOutlastsMargin
  <2> QED BY <2>2, <2>3
<1> QED BY <1>1, ClientInvariant, PTL

(* A token for which a call has handled a 401 is never in _token_cache     *)
(* again, however the calls overlap.                                       *)
THEOREM RejectedStaysForgotten == Spec => []RejectedIsForgotten
<1>1. Inductive => RejectedIsForgotten
  BY DEF Inductive
<1> QED BY <1>1, ClientInvariant, PTL

(* freeze_user and unfreeze_user return False only after Auth0 refused the *)
(* change or all the attempts were sent.                                   *)
THEOREM FailureHasCause == Spec => []GivesUpWithCause
<1>1. Inductive => GivesUpWithCause
  BY DEF Inductive, FailedForCause, GivesUpWithCause, Unsent, Sent
<1> QED BY <1>1, ClientInvariant, PTL

-----------------------------------------------------------------------------
(* The client implements BlockCalls.  The counts of the abstract calls are *)
(* cardinalities of sets of attempts.                                      *)

(* One attempt more or less in a set of attempts.                          *)
LEMMA OneMore ==
  ASSUME NEW A, NEW B, NEW a, IsFiniteSet(A), a \notin A, B = A \cup {a}
  PROVE  Cardinality(B) = Cardinality(A) + 1
BY FS_AddElement

LEMMA OneLess ==
  ASSUME NEW A, NEW B, NEW a, IsFiniteSet(A), a \in A, B = A \ {a}
  PROVE  Cardinality(B) = Cardinality(A) - 1 /\ Cardinality(A) > 0
BY FS_RemoveElement, FS_EmptySet, FS_CardinalityType

LEMMA SetsOfTries ==
  ASSUME NEW A \in SUBSET Tries
  PROVE  /\ IsFiniteSet(A) /\ Cardinality(A) \in Nat /\ Cardinality(A) <= Attempts
         /\ \A a \in Tries \ A : Cardinality(A) < Attempts
         /\ A # {} => Cardinality(A) > 0
<1>1. IsFiniteSet(Tries) /\ Cardinality(Tries) = Attempts
  BY FS_Interval, AttemptsAssumption DEF Tries
<1>2. IsFiniteSet(A) /\ Cardinality(A) \in Nat /\ Cardinality(A) <= Attempts
  BY <1>1, FS_Subset, FS_CardinalityType
<1>3. ASSUME NEW a \in Tries \ A PROVE Cardinality(A) < Attempts
  <2>1. Cardinality(A) + 1 <= Attempts
    <3>1. Cardinality(A \cup {a}) = Cardinality(A) + 1
      BY <1>2, FS_AddElement
    <3>2. A \cup {a} \subseteq Tries
      OBVIOUS
    <3>3. Cardinality(A \cup {a}) <= Cardinality(Tries)
      BY <1>1, <3>2, FS_Subset
    <3> QED BY <1>1, <3>1, <3>3
  <2> QED BY <1>2, <2>1, AttemptsAssumption
<1>4. A # {} => Cardinality(A) > 0
  BY <1>2, FS_EmptySet
<1> QED BY <1>2, <1>3, <1>4

(* The call of BlockCalls that the state of the client stands for.         *)
AbstractCall == [c \in Calls |-> CallState(c)]

Status(where) == IF where \in Waiting \cup {"ready"} THEN "open" ELSE where

(* A move of the coroutine changes nothing but the status of its call.     *)
LEMMA CoroutineMoves ==
  ASSUME NEW c \in Calls, NEW where, UNCHANGED <<block, patch>>,
         pc'[c] = where, \A d \in Calls \ {c} : pc'[d] = pc[d]
  PROVE  AbstractCall' = [AbstractCall EXCEPT ![c].status = Status(where)]
<1>1. CallState(c)' = [CallState(c) EXCEPT !.status = Status(where)]
  <2>1. /\ block'[c] = block[c] /\ Cardinality(Sent(c))' = Cardinality(Sent(c))
        /\ CopiesIn(c, {"wire"})' = CopiesIn(c, {"wire"})
        /\ CopiesIn(c, {"applied"})' = CopiesIn(c, {"applied"})
    BY DEF Sent, CopiesIn
  <2>2. (IF pc[c] \in Waiting \cup {"ready"} THEN "open" ELSE pc[c])' = Status(where)
    BY DEF Status
  <2> QED BY <2>1, <2>2 DEF CallState
<1>2. \A d \in Calls \ {c} : CallState(d)' = CallState(d)
  BY DEF CallState, Sent, CopiesIn
<1> QED BY <1>1, <1>2 DEF AbstractCall

LEMMA CallStays ==
  ASSUME NEW c \in Calls, UNCHANGED <<block, patch>>, Status(pc'[c]) = Status(pc[c]),
         \A d \in Calls \ {c} : pc'[d] = pc[d]
  PROVE  UNCHANGED AbstractCall
<1>1. CallState(c)' = CallState(c)
  BY DEF CallState, Status, Sent, CopiesIn
<1>2. \A d \in Calls \ {c} : CallState(d)' = CallState(d)
  BY DEF CallState, Sent, CopiesIn
<1> QED BY <1>1, <1>2 DEF AbstractCall

(* It may return success once Auth0 has applied a copy.                    *)
LEMMA CallReturns ==
  ASSUME NEW c \in Calls, NEW o \in Returned, UNCHANGED <<block, patch, blocked>>,
         Status(pc[c]) = "open", pc'[c] = o, \A d \in Calls \ {c} : pc'[d] = pc[d],
         o = "ok" => \E a \in Tries : patch[c][a].state = "applied"
  PROVE  Abstract!CallNext
<1>1. AbstractCall' = [AbstractCall EXCEPT ![c].status = o]
  <2>1. Status(o) = o
    BY DEF Status, Returned, Waiting
  <2> QED BY <2>1, CoroutineMoves
<1>2. AbstractCall[c].status = "open"
  BY DEF AbstractCall, CallState, Status
<1>3. o = "ok" => AbstractCall[c].applied > 0
  <2>1. CopiesIn(c, {"applied"}) = Cardinality({a \in Tries : patch[c][a].state = "applied"})
    BY DEF CopiesIn
  <2> QED BY <2>1, SetsOfTries DEF AbstractCall, CallState
<1>4. o \in Abstract!Outcomes /\ c \in Abstract!Calls
  BY DEF Abstract!Outcomes, Abstract!Calls, Returned, Calls
<1>5. Abstract!CloseCall(c, o)
  BY <1>1, <1>2, <1>3 DEF Abstract!CloseCall, Abstract!MayClose, AbstractCall
<1> QED BY <1>4, <1>5 DEF Abstract!CallNext

(* The two updates of BlockCalls that change two counts of a call.         *)
CallsWith(S, B) == [status : S, block : B, sent : Int, wire : Int, applied : Int]

LEMMA CountsSent ==
  ASSUME NEW S, NEW B, NEW r \in CallsWith(S, B)
  PROVE  [r EXCEPT !.sent = @ + 1, !.wire = @ + 1]
           = [status |-> r.status, block |-> r.block, sent |-> r.sent + 1,
              wire |-> r.wire + 1, applied |-> r.applied]
<1> DEFINE q == [r EXCEPT !.sent = r.sent + 1]
<1>1. /\ q \in CallsWith(S, B) /\ q.sent = r.sent + 1 /\ q.wire = r.wire
      /\ q.applied = r.applied /\ q.status = r.status /\ q.block = r.block
  BY DEF CallsWith
<1>2. [r EXCEPT !.sent = @ + 1, !.wire = @ + 1] = [q EXCEPT !.wire = r.wire + 1]
  OBVIOUS
<1> HIDE DEF q
<1>3. [q EXCEPT !.wire = r.wire + 1]
        = [status |-> r.status, block |-> r.block, sent |-> r.sent + 1,
           wire |-> r.wire + 1, applied |-> r.applied]
  BY <1>1 DEF CallsWith
<1> QED BY <1>2, <1>3

LEMMA CountsApplied ==
  ASSUME NEW S, NEW B, NEW r \in CallsWith(S, B)
  PROVE  [r EXCEPT !.wire = @ - 1, !.applied = @ + 1]
           = [status |-> r.status, block |-> r.block, sent |-> r.sent,
              wire |-> r.wire - 1, applied |-> r.applied + 1]
<1> DEFINE q == [r EXCEPT !.wire = r.wire - 1]
<1>1. /\ q \in CallsWith(S, B) /\ q.sent = r.sent /\ q.wire = r.wire - 1
      /\ q.applied = r.applied /\ q.status = r.status /\ q.block = r.block
  BY DEF CallsWith
<1>2. [r EXCEPT !.wire = @ - 1, !.applied = @ + 1] = [q EXCEPT !.applied = r.applied + 1]
  OBVIOUS
<1> HIDE DEF q
<1>3. [q EXCEPT !.applied = r.applied + 1]
        = [status |-> r.status, block |-> r.block, sent |-> r.sent,
           wire |-> r.wire - 1, applied |-> r.applied + 1]
  BY <1>1 DEF CallsWith
<1> QED BY <1>2, <1>3

LEMMA CallStateType ==
  ASSUME NEW c \in Calls
  PROVE  CallState(c) \in CallsWith({CallState(c).status}, {block[c]})
<1>1. \A T \in SUBSET Tries : Cardinality(T) \in Int
  BY SetsOfTries
<1> HIDE DEF Tries
<1>2. Cardinality(Sent(c)) \in Int
  BY <1>1 DEF Sent
<1>3. CopiesIn(c, {"wire"}) \in Int /\ CopiesIn(c, {"applied"}) \in Int
  BY <1>1 DEF CopiesIn
<1> QED BY <1>2, <1>3 DEF CallState, CallsWith

(* Begin opens the abstract call.                                          *)
LEMMA BeginImplements ==
  ASSUME Inductive, NEW c \in Calls, NEW b \in BOOLEAN, Begin(c, b)
  PROVE  Abstract!CallNext
<1>1. pc[c] = "idle" /\ \A a \in Tries : patch[c][a].state = "unsent"
  BY DEF Begin, Inductive, SentInOrder, NotBegun, Unsent
<1>2. pc' = [pc EXCEPT ![c] = "ready"] \/ pc' = [pc EXCEPT ![c] = "token"]
  BY DEF Begin, GoTo
<1>3. /\ block' = [block EXCEPT ![c] = b] /\ patch' = patch /\ blocked' = blocked
      /\ pc \in [Calls -> Positions] /\ block \in [Calls -> BOOLEAN]
  BY DEF Begin, auth0Vars, Inductive, TypeOK
<1>4. CallState(c)' = Abstract!NewCall("open", b)
  <2>1. Sent(c)' = {} /\ {a \in Tries : patch'[c][a].state \in {"wire"}} = {}
        /\ {a \in Tries : patch'[c][a].state \in {"applied"}} = {}
    BY <1>1, <1>3 DEF Sent
  <2>2. /\ Cardinality(Sent(c))' = 0
        /\ CopiesIn(c, {"wire"})' = 0 /\ CopiesIn(c, {"applied"})' = 0
    BY <2>1, FS_EmptySet DEF CopiesIn
  <2>3. pc'[c] \in Waiting \cup {"ready"} /\ block'[c] = b
    BY <1>2, <1>3 DEF Waiting
  <2> QED BY <2>2, <2>3 DEF CallState, Abstract!NewCall
<1>5. \A d \in Calls \ {c} : CallState(d)' = CallState(d)
  BY <1>2, <1>3 DEF CallState, Sent, CopiesIn
<1>6. AbstractCall[c].status = "idle"
  BY <1>1 DEF AbstractCall, CallState, Waiting
<1>7. AbstractCall' = [AbstractCall EXCEPT ![c] = Abstract!NewCall("open", b)]
  BY <1>4, <1>5 DEF AbstractCall
<1>8. Abstract!OpenCall(c, b)
  BY <1>3, <1>6, <1>7 DEF Abstract!OpenCall, AbstractCall
<1> QED BY <1>8 DEF Abstract!CallNext, Abstract!Calls, Calls

(* The PATCH of the present attempt had not been sent: one more is on the  *)
(* wire, and there were fewer than Attempts.                               *)
LEMMA SendPatchImplements ==
  ASSUME Inductive, NEW c \in Calls, SendPatch(c)
  PROVE  Abstract!CallNext
<1> DEFINE a == attempt[c]
           InState(S) == {e \in Tries : patch[c][e].state \in S}
<1>1. /\ pc[c] = "ready" /\ a \in Tries /\ patch[c][a].state = "unsent"
      /\ patch \in [Calls -> [Tries -> [state : PatchStates, token : Tokens \cup {NoToken}]]]
  BY AttemptsAssumption DEF SendPatch, Inductive, TypeOK, SentInOrder, AboutToSend, Unsent, Tries
<1>2. /\ block' = block /\ blocked' = blocked /\ pc'[c] = "patch"
      /\ \A d \in Calls \ {c} : pc'[d] = pc[d] /\ patch'[d] = patch[d]
      /\ patch'[c][a].state = "wire"
      /\ \A e \in Tries \ {a} : patch'[c][e] = patch[c][e]
  BY <1>1 DEF SendPatch, GoTo, auth0Vars, Inductive, TypeOK
<1>3. Cardinality(Sent(c))' = Cardinality(Sent(c)) + 1 /\ Cardinality(Sent(c)) < Attempts
  <2>1. Sent(c) \subseteq Tries /\ a \notin Sent(c) /\ Sent(c)' = Sent(c) \cup {a}
    BY <1>1, <1>2 DEF Sent
  <2> QED BY <1>1, <2>1, SetsOfTries, OneMore
<1>4. CopiesIn(c, {"wire"})' = CopiesIn(c, {"wire"}) + 1
  <2>1. /\ InState({"wire"}) \subseteq Tries /\ a \notin InState({"wire"})
        /\ InState({"wire"})' = InState({"wire"}) \cup {a}
    BY <1>1, <1>2
  <2> QED BY <1>1, <2>1, SetsOfTries, OneMore DEF CopiesIn
<1>5. CopiesIn(c, {"applied"})' = CopiesIn(c, {"applied"})
  <2>1. InState({"applied"})' = InState({"applied"})
    BY <1>1, <1>2
  <2> QED BY <2>1 DEF CopiesIn
<1>6. CallState(c)' = [CallState(c) EXCEPT !.sent = @ + 1, !.wire = @ + 1]
  <2>1. pc[c] \in Waiting \cup {"ready"} /\ pc'[c] \in Waiting \cup {"ready"}
    BY <1>1, <1>2 DEF Waiting
  <2>2. CallState(c)' = [status |-> CallState(c).status, block |-> CallState(c).block,
                         sent |-> CallState(c).sent + 1, wire |-> CallState(c).wire + 1,
                         applied |-> CallState(c).applied]
    BY <1>2, <1>3, <1>4, <1>5, <2>1 DEF CallState
  <2>3. [CallState(c) EXCEPT !.sent = @ + 1, !.wire = @ + 1]
          = [status |-> CallState(c).status, block |-> CallState(c).block,
             sent |-> CallState(c).sent + 1, wire |-> CallState(c).wire + 1,
             applied |-> CallState(c).applied]
    BY CallStateType, CountsSent
  <2> QED BY <2>2, <2>3
<1>7. \A d \in Calls \ {c} : CallState(d)' = CallState(d)
  BY <1>2 DEF CallState, Sent, CopiesIn
<1>8. AbstractCall' = [AbstractCall EXCEPT ![c].sent = @ + 1, ![c].wire = @ + 1]
  BY <1>6, <1>7 DEF AbstractCall
<1>9. AbstractCall[c].status = "open" /\ AbstractCall[c].sent < Attempts
  BY <1>1, <1>3 DEF AbstractCall, CallState
<1>10. Abstract!SendPatch(c)
  BY <1>2, <1>8, <1>9 DEF Abstract!SendPatch, AbstractCall
<1> QED BY <1>10 DEF Abstract!CallNext, Abstract!Calls, Calls

(* One copy leaves the wire; if Auth0 applied it, one more is applied.     *)
LEMMA HandlePatchImplements ==
  ASSUME Inductive, NEW c \in Calls, NEW a \in Tries, NEW result \in Answers,
         HandlePatch(c, a, result)
  PROVE  Abstract!CallNext
<1> DEFINE InState(S) == {e \in Tries : patch[c][e].state \in S}
<1>1. /\ patch[c][a].state = "wire" /\ result \in {"applied", "unauthorized", "refused"}
      /\ patch \in [Calls -> [Tries -> [state : PatchStates, token : Tokens \cup {NoToken}]]]
  BY DEF HandlePatch, Answers, Inductive, TypeOK
<1>2. /\ block' = block /\ pc' = pc
      /\ \A d \in Calls \ {c} : patch'[d] = patch[d]
      /\ patch'[c][a].state = result
      /\ \A e \in Tries \ {a} : patch'[c][e] = patch[c][e]
  BY <1>1 DEF HandlePatch
<1>3. Cardinality(Sent(c))' = Cardinality(Sent(c))
  <2>1. Sent(c)' = Sent(c)
    BY <1>1, <1>2 DEF Sent
  <2> QED BY <2>1
<1>4. CopiesIn(c, {"wire"})' = CopiesIn(c, {"wire"}) - 1 /\ CopiesIn(c, {"wire"}) > 0
  <2>1. /\ InState({"wire"}) \subseteq Tries /\ a \in InState({"wire"})
        /\ InState({"wire"})' = InState({"wire"}) \ {a}
    BY <1>1, <1>2
  <2> QED BY <2>1, SetsOfTries, OneLess DEF CopiesIn
<1>5. \A d \in Calls \ {c} : CallState(d)' = CallState(d)
  BY <1>2 DEF CallState, Sent, CopiesIn
<1>6. AbstractCall[c].wire > 0
  BY <1>4 DEF AbstractCall, CallState
<1>7. CASE result = "applied"
  <2>1. CopiesIn(c, {"applied"})' = CopiesIn(c, {"applied"}) + 1
    <3>1. /\ InState({"applied"}) \subseteq Tries /\ a \notin InState({"applied"})
          /\ InState({"applied"})' = InState({"applied"}) \cup {a}
      BY <1>1, <1>2, <1>7
    <3> QED BY <3>1, SetsOfTries, OneMore DEF CopiesIn
  <2>2. CallState(c)' = [CallState(c) EXCEPT !.wire = @ - 1, !.applied = @ + 1]
    <3>1. CallState(c)' = [status |-> CallState(c).status, block |-> CallState(c).block,
                           sent |-> CallState(c).sent, wire |-> CallState(c).wire - 1,
                           applied |-> CallState(c).applied + 1]
      BY <1>2, <1>3, <1>4, <2>1 DEF CallState
    <3> QED BY ZenonT(30), <3>1, CallStateType, CountsApplied
  <2>3. AbstractCall' = [AbstractCall EXCEPT ![c].wire = @ - 1, ![c].applied = @ + 1]
    BY <1>5, <2>2 DEF AbstractCall
  <2>4. blocked' = [blocked EXCEPT ![c[2]] = AbstractCall[c].block]
    BY <1>7 DEF HandlePatch, AbstractCall, CallState
  <2>5. Abstract!ApplyPatch(c)
    BY <1>6, <2>3, <2>4 DEF Abstract!ApplyPatch, AbstractCall
  <2> QED BY <2>5 DEF Abstract!CallNext, Abstract!Calls, Calls
<1>8. CASE result # "applied"
  <2>1. CopiesIn(c, {"applied"})' = CopiesIn(c, {"applied"})
    <3>1. InState({"applied"})' = InState({"applied"})
      BY <1>1, <1>2, <1>8
    <3> QED BY <3>1 DEF CopiesIn
  <2>2. CallState(c)' = [CallState(c) EXCEPT !.wire = @ - 1]
    BY <1>2, <1>3, <1>4, <2>1 DEF CallState
  <2>3. AbstractCall' = [AbstractCall EXCEPT ![c].wire = @ - 1]
    BY <1>5, <2>2 DEF AbstractCall
  <2>4. Abstract!DropPatch(c)
    BY <1>6, <1>8, <2>3 DEF Abstract!DropPatch, AbstractCall, HandlePatch
  <2> QED BY <2>4 DEF Abstract!CallNext, Abstract!Calls, Calls
<1> QED BY <1>7, <1>8

(* The steps of the coroutine that Auth0 does not see: the call goes on,   *)
(* or returns.                                                             *)
LEMMA MovesImplement ==
  ASSUME Inductive, NEW c \in Calls, NEW where \in {"ready", "failed", "raised"}, NEW n,
         pc[c] \in Waiting, Moves(c, where, n), UNCHANGED <<block, patch, blocked>>
  PROVE  Abstract!CallNext \/ UNCHANGED <<blocked, AbstractCall>>
<1>1. CASE where = "ready"
  BY <1>1, CallStays DEF Moves, Status
<1>2. CASE where # "ready"
  BY <1>2, CallReturns DEF Moves, Status, Returned
<1> QED BY <1>1, <1>2

LEMMA CoroutineImplements ==
  ASSUME Inductive, NEW c \in Calls, Coroutine(c)
  PROVE  Abstract!CallNext \/ UNCHANGED <<blocked, AbstractCall>>
<1>0. TypeOK /\ attempt[c] \in Tries
  BY DEF Inductive, TypeOK
<1>1. CASE SendPatch(c)
  BY <1>1, SendPatchImplements
<1>2. CASE TokenArrives(c)
  <2>1. "ready" \in Positions
    BY DEF Positions
  <2> QED BY <1>0, <1>2, <2>1, TokenCallMoves, MovesImplement
      DEF TokenArrives, auth0Vars, Waiting
<1>3. CASE TokenRefused(c)
  <2>1. "raised" \in Positions
    BY DEF Positions, Returned
  <2> QED BY <1>0, <1>3, <2>1, GoToMoves, MovesImplement DEF TokenRefused, auth0Vars, Waiting
<1>4. CASE TokenError(c)
  <2>1. "raised" \in Positions
    BY DEF Positions, Returned
  <2> QED BY <1>0, <1>4, <2>1, TokenCallMoves, MovesImplement
      DEF TokenError, auth0Vars, Waiting
<1>5. CASE OnAnswer(c)
  <2>1. /\ pc[c] \in Waiting /\ Status(pc[c]) = "open"
        /\ UNCHANGED <<block, patch, blocked, attempt>>
    BY <1>5 DEF OnAnswer, Answered, auth0Vars, Waiting, Status
  <2>2. PICK o \in {"ok", "failed"} :
          GoTo(c, o) /\ (o = "ok" => patch[c][attempt[c]].state = "applied")
    BY <1>5 DEF OnAnswer, Answered
  <2>3. pc'[c] = o /\ \A d \in Calls \ {c} : pc'[d] = pc[d]
    BY <1>0, <2>2 DEF GoTo, TypeOK
  <2> QED BY <1>0, <2>1, <2>2, <2>3, CallReturns DEF Returned
<1>6. CASE OnUnauthorized(c)
  <2>1. Status(pc'[c]) = Status(pc[c]) /\ \A d \in Calls \ {c} : pc'[d] = pc[d]
    BY <1>0, <1>6 DEF OnUnauthorized, Answered, GoTo, TypeOK, Status, Waiting
  <2> QED BY <1>6, <2>1, CallStays DEF OnUnauthorized, auth0Vars
<1>7. CASE OnRequestError(c)
  BY <1>0, <1>7, NextAttemptMoves, MovesImplement DEF OnRequestError, auth0Vars, Waiting
<1> QED BY <1>1, <1>2, <1>3, <1>4, <1>5, <1>6, <1>7 DEF Coroutine

LEMMA CrashImplements ==
  ASSUME Inductive, Crash
  PROVE  Abstract!CallNext
<1>1. UNCHANGED <<block, patch, blocked>>
  BY DEF Crash, auth0Vars
<1>2. ASSUME NEW c \in Calls
      PROVE  CallState(c)' = IF CallState(c).status = "open"
                             THEN [CallState(c) EXCEPT !.status = "raised"]
                             ELSE CallState(c)
  <2>1. /\ block'[c] = block[c] /\ Cardinality(Sent(c))' = Cardinality(Sent(c))
        /\ CopiesIn(c, {"wire"})' = CopiesIn(c, {"wire"})
        /\ CopiesIn(c, {"applied"})' = CopiesIn(c, {"applied"})
    BY <1>1 DEF Sent, CopiesIn
  <2>2. pc'[c] = IF pc[c] \in Waiting \cup {"ready"} THEN "raised" ELSE pc[c]
    BY DEF Crash
  <2>3. CASE pc[c] \in Waiting \cup {"ready"}
    BY <2>1, <2>2, <2>3 DEF CallState, Waiting
  <2>4. CASE pc[c] \notin Waiting \cup {"ready"}
    <3>1. pc[c] # "open"
      BY DEF Inductive, TypeOK, Positions, Waiting, Returned
    <3> QED BY <2>1, <2>2, <2>4, <3>1 DEF CallState
  <2> QED BY <2>3, <2>4
<1>3. AbstractCall' = [c \in Calls |-> IF AbstractCall[c].status = "open"
                                       THEN [AbstractCall[c] EXCEPT !.status = "raised"]
                                       ELSE AbstractCall[c]]
  BY <1>2 DEF AbstractCall
<1>4. Abstract!AbandonCalls
  BY <1>1, <1>3 DEF Abstract!AbandonCalls, AbstractCall, Abstract!Calls, Calls
<1> QED BY <1>4 DEF Abstract!CallNext

(* Begin is OpenCall, SendPatch is SendPatch, HandlePatch is ApplyPatch or *)
(* DropPatch, returning is CloseCall, Crash is AbandonCalls; the rest is   *)
(* invisible to the handlers.                                              *)
LEMMA StepImplements ==
  ASSUME Inductive, [Next]_vars
  PROVE  [Abstract!CallNext]_(Abstract!callVars)
<1>0. UNCHANGED <<blocked, AbstractCall>> => UNCHANGED Abstract!callVars
  BY DEF Abstract!callVars, AbstractCall
<1> SUFFICES Abstract!CallNext \/ UNCHANGED <<blocked, AbstractCall>>
  BY <1>0
<1>1. CASE \E c \in Calls, b \in BOOLEAN : Begin(c, b)
  BY <1>1, BeginImplements
<1>2. CASE \E c \in Calls : Coroutine(c)
  BY <1>2, CoroutineImplements
<1>3. CASE \E c \in Calls, a \in Tries, result \in Answers : HandlePatch(c, a, result)
  BY <1>3, HandlePatchImplements
<1>4. CASE Crash
  BY <1>4, CrashImplements
<1>5. CASE \/ \E c \in Calls, t \in Tokens : IssueToken(c, t)
           \/ Tick
           \/ \E t \in Tokens : Revoke(t)
           \/ Idle
           \/ UNCHANGED vars
  <2>1. UNCHANGED <<pc, block, patch, blocked>>
    BY <1>5 DEF IssueToken, Tick, Revoke, Idle, vars, callVars, auth0Vars
  <2> QED BY <2>1 DEF AbstractCall, CallState, Sent, CopiesIn
<1> QED BY <1>1, <1>2, <1>3, <1>4, <1>5 DEF Next

LEMMA InitImplements == Init => Abstract!CallInit
<1> SUFFICES ASSUME Init PROVE Abstract!CallInit
  OBVIOUS
<1>1. ASSUME NEW c \in Calls PROVE CallState(c) = Abstract!NewCall("idle", FALSE)
  <2>1. /\ Sent(c) = {} /\ {a \in Tries : patch[c][a].state \in {"wire"}} = {}
        /\ {a \in Tries : patch[c][a].state \in {"applied"}} = {}
    BY DEF Sent, Init
  <2> QED BY <2>1, FS_EmptySet DEF CopiesIn, CallState, Init, Waiting, Abstract!NewCall
<1> QED BY <1>1 DEF Abstract!CallInit, Abstract!Calls, Calls, Init

(* The retry loop keeps the promise of BlockCalls: at most Attempts copies *)
(* of the PATCH, each applied at most once and possibly late, and success  *)
(* only after one was applied.                                             *)
THEOREM ClientKeepsItsPromise == Spec => ImplementsBlockCalls
<1>1. Init => Abstract!CallInit
  BY InitImplements
<1>2. Inductive /\ [Next]_vars => [Abstract!CallNext]_(Abstract!callVars)
  BY StepImplements
<1> QED BY <1>1, <1>2, ClientInvariant, PTL DEF Spec, ImplementsBlockCalls, Abstract!CallSpec
=============================================================================
