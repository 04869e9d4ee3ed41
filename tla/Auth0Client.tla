---------------------------- MODULE Auth0Client ----------------------------
(***************************************************************************)
(* auth0_client.py: freeze_user and unfreeze_user with their retry loop,   *)
(* and the management token they share through _token_cache.               *)
(*                                                                         *)
(* The coroutines of the calls run on one event loop; they are suspended   *)
(* while they await the token endpoint (at "token" and "retoken") or a     *)
(* PATCH (at "patch").  Auth0 and the network are external: a request that *)
(* httpx gave up on may still reach Auth0, and an answer may be lost.      *)
(*                                                                         *)
(* No wait is bounded by the clock: httpx limits the phases of a request,  *)
(* but the sleep between two attempts and the blocking calls of every      *)
(* other handler (pymongo, algosdk, neo4j) hold the loop, and a coroutine  *)
(* resumes when they are done.  So time may pass at any moment, and as     *)
(* much of it as there is.                                                 *)
(***************************************************************************)
EXTENDS Naturals, FiniteSets

CONSTANTS
  Callers, Users,   \* as in BlockCalls
  Attempts,         \* range(3) in freeze_user and unfreeze_user
  TokenLife,        \* expires_in
  Margin,           \* the 60 s that a cached token must have left
  MaxTime,          \* bound: the clock stops here
  MaxTokens,        \* bound: tokens that Auth0 issues
  MaxRevoked,       \* bound: tokens that Auth0 revokes
  MaxCrashes        \* bound: deaths of the server process

ASSUME AttemptsAssumption == Attempts \in Nat \ {0}
ASSUME TimesAssumption == TokenLife \in Nat /\ Margin \in Nat /\ MaxTime \in Nat

(* Auth0 issues tokens that outlive the margin.                            *)
ASSUME MarginAssumption == Margin < TokenLife

ASSUME BoundsAssumption ==
  MaxTokens \in Nat /\ MaxRevoked \in Nat /\ MaxCrashes \in Nat

Calls == Callers \X Users
Tokens == 1 .. MaxTokens
NoToken == 0
Tries == 0 .. Attempts - 1

VARIABLES
  now,        \* the clock
  cache,      \* _token_cache
  expiry,     \* when each token that Auth0 issued expires (0: not issued)
  revoked,    \* tokens that Auth0 does not accept any more
  rejected,   \* tokens for which a call has handled a 401
  blocked,    \* the "blocked" attribute of the users, kept by Auth0
  pc,         \* where the coroutine of each call is
  block,      \* TRUE for freeze_user, FALSE for unfreeze_user
  token,      \* the local variable token of each call
  attempt,    \* the loop variable attempt of each call
  answer,     \* the token in the token endpoint's answer to each call, if any
  patch,      \* the PATCH of each attempt of each call
  crashes,    \* deaths of the server process
  took,       \* history: when each call got the token it has
  delay       \* history: how long the answer with each token took

auth0Vars == <<expiry, revoked, blocked>>
callVars  == <<pc, block, token, attempt, answer, patch>>
ageVars   == <<took, delay>>
vars == <<now, cache, rejected, auth0Vars, callVars, crashes, ageVars>>

Waiting == {"token", "retoken", "patch"}
Returned == {"ok", "failed", "raised"}
Positions == {"idle", "ready"} \cup Waiting \cup Returned

PatchStates == {"unsent", "wire", "applied", "unauthorized", "refused"}

Init ==
  /\ now = 0
  /\ cache = [token |-> NoToken, expires_at |-> 0]
  /\ expiry = [t \in Tokens |-> 0]
  /\ revoked = {} /\ rejected = {}
  /\ blocked = [u \in Users |-> FALSE]
  /\ pc = [c \in Calls |-> "idle"]
  /\ block = [c \in Calls |-> FALSE]
  /\ token = [c \in Calls |-> NoToken]
  /\ attempt = [c \in Calls |-> 0]
  /\ answer = [c \in Calls |-> NoToken]
  /\ patch = [c \in Calls |-> [a \in Tries |-> [state |-> "unsent", token |-> NoToken]]]
  /\ crashes = 0
  /\ took = [c \in Calls |-> 0]
  /\ delay = [t \in Tokens |-> 0]

-----------------------------------------------------------------------------
(* The token.                                                              *)

(* Auth0 accepts t now.                                                    *)
Accepted(t) == expiry[t] > now /\ t \notin revoked

(* Mutant of CacheHit: without the margin.                                 *)
CacheHitToTheEnd == cache.token # NoToken /\ cache.expires_at > now

(* get_auth0_token returns the cached token without asking.                *)
CacheHit == cache.token # NoToken /\ cache.expires_at > now + Margin

(* No other coroutine runs: one that is about to send has not awaited yet. *)
LoopFree == \A c \in Calls : pc[c] # "ready"

GoTo(c, where) == pc' = [pc EXCEPT ![c] = where]

Takes(c, t) ==
  /\ token' = [token EXCEPT ![c] = t]
  /\ took' = [took EXCEPT ![c] = now]

(* freeze_user or unfreeze_user is called and gets its first token from    *)
(* the cache, or awaits the token endpoint.  A caller awaits one call at a *)
(* time.                                                                   *)
Begin(c, b) ==
  /\ pc[c] = "idle"
  /\ LoopFree
  /\ \A d \in Calls : d[1] = c[1] => pc[d] \notin Waiting
  /\ block' = [block EXCEPT ![c] = b]
  /\ IF CacheHit
     THEN GoTo(c, "ready") /\ Takes(c, cache.token)
     ELSE GoTo(c, "token") /\ UNCHANGED <<token, took>>
  /\ UNCHANGED <<now, cache, rejected, auth0Vars, attempt, answer, patch, crashes, delay>>

(* Auth0 issues a token; its life starts now, not when the answer arrives. *)
IssueToken(c, t) ==
  /\ pc[c] \in {"token", "retoken"} /\ answer[c] = NoToken
  /\ expiry[t] = 0
  /\ \A s \in Tokens : s < t => expiry[s] # 0
  /\ expiry' = [expiry EXCEPT ![t] = now + TokenLife]
  /\ answer' = [answer EXCEPT ![c] = t]
  /\ UNCHANGED <<now, cache, rejected, revoked, blocked, pc, block, token, attempt,
                 patch, crashes, ageVars>>

(* Mutants of NextAttempt: one attempt too many, one too few, no count.    *)
NextAttemptTooMany(c) ==
  IF attempt[c] < Attempts
  THEN attempt' = [attempt EXCEPT ![c] = @ + 1] /\ GoTo(c, "ready")
  ELSE GoTo(c, "failed") /\ UNCHANGED attempt

NextAttemptTooFew(c) ==
  IF attempt[c] + 2 < Attempts
  THEN attempt' = [attempt EXCEPT ![c] = @ + 1] /\ GoTo(c, "ready")
  ELSE GoTo(c, "failed") /\ UNCHANGED attempt

NextAttemptUncounted(c) == GoTo(c, "ready") /\ UNCHANGED attempt

(* The loop goes on with the next attempt, or ends after the last.         *)
NextAttempt(c) ==
  IF attempt[c] + 1 < Attempts
  THEN /\ attempt' = [attempt EXCEPT ![c] = @ + 1]
       /\ GoTo(c, "ready")
  ELSE /\ GoTo(c, "failed")
       /\ UNCHANGED attempt

(* The answer of the token endpoint arrives and is cached.  After a 401    *)
(* the attempt that failed is used up: "continue".                         *)
TokenArrives(c) ==
  /\ pc[c] \in {"token", "retoken"}
  /\ LoopFree
  /\ answer[c] \in Tokens
  /\ cache' = [token |-> answer[c], expires_at |-> now + TokenLife]
  /\ Takes(c, answer[c])
  /\ delay' = [delay EXCEPT ![answer[c]] = (now + TokenLife) - expiry[answer[c]]]
  /\ answer' = [answer EXCEPT ![c] = NoToken]
  /\ IF pc[c] = "token" THEN GoTo(c, "ready") /\ UNCHANGED attempt
                        ELSE NextAttempt(c)
  /\ UNCHANGED <<now, rejected, auth0Vars, block, patch, crashes>>

(* The token endpoint answers with an error status: Exception, which       *)
(* neither function catches.                                               *)
TokenRefused(c) ==
  /\ pc[c] \in {"token", "retoken"}
  /\ LoopFree
  /\ answer[c] = NoToken
  /\ GoTo(c, "raised")
  /\ UNCHANGED <<now, cache, rejected, auth0Vars, block, token, attempt, answer, patch,
                 crashes, ageVars>>

(* httpx.RequestError at the token endpoint.  Only the request after a 401 *)
(* is inside the try: the loop goes on with the old token.                 *)
TokenError(c) ==
  /\ pc[c] \in {"token", "retoken"}
  /\ LoopFree
  /\ answer' = [answer EXCEPT ![c] = NoToken]
  /\ IF pc[c] = "token" THEN GoTo(c, "raised") /\ UNCHANGED attempt
                        ELSE NextAttempt(c)
  /\ UNCHANGED <<now, cache, rejected, auth0Vars, block, token, patch, crashes, ageVars>>

-----------------------------------------------------------------------------
(* The PATCH.                                                              *)

SendPatch(c) ==
  /\ pc[c] = "ready"
  /\ GoTo(c, "patch")
  /\ patch' = [patch EXCEPT ![c][attempt[c]] = [state |-> "wire", token |-> token[c]]]
  /\ UNCHANGED <<now, cache, rejected, auth0Vars, block, token, attempt, answer, crashes,
                 ageVars>>

(* Auth0 handles a copy, early, late or (when it got lost) never.  It      *)
(* answers 401 exactly if it does not accept the token, and may refuse the *)
(* change for another reason.                                              *)
HandlePatch(c, a, result) ==
  /\ patch[c][a].state = "wire"
  /\ result = "unauthorized" <=> ~Accepted(patch[c][a].token)
  /\ patch' = [patch EXCEPT ![c][a].state = result]
  /\ blocked' = IF result = "applied" THEN [blocked EXCEPT ![c[2]] = block[c]]
                                      ELSE blocked
  /\ UNCHANGED <<now, cache, rejected, expiry, revoked, pc, block, token, attempt,
                 answer, crashes, ageVars>>

(* The answer that the call awaits has arrived.                            *)
Answered(c, state) ==
  /\ pc[c] = "patch"
  /\ LoopFree
  /\ patch[c][attempt[c]].state = state

(* Mutant of OnAnswer: any status but 401 is taken for success.            *)
OnAnyAnswer(c) ==
  /\ Answered(c, "applied") \/ Answered(c, "refused")
  /\ GoTo(c, "ok")
  /\ UNCHANGED <<now, cache, rejected, auth0Vars, block, token, attempt, answer,
                 patch, crashes, ageVars>>

(* 200, and any status that is neither 200 nor 401.                        *)
OnAnswer(c) ==
  /\ \/ Answered(c, "applied") /\ GoTo(c, "ok")
     \/ Answered(c, "refused") /\ GoTo(c, "failed")
  /\ UNCHANGED <<now, cache, rejected, auth0Vars, block, token, attempt, answer,
                 patch, crashes, ageVars>>

(* Mutant of ForgetToken: the token stays in the cache.                    *)
KeepToken == cache

(* 401: the cached token is forgotten, whoever put it there, and a new one *)
(* is asked for.                                                           *)
ForgetToken == [cache EXCEPT !.token = NoToken]

OnUnauthorized(c) ==
  /\ Answered(c, "unauthorized")
  /\ cache' = ForgetToken
  /\ rejected' = rejected \cup {token[c]}
  /\ GoTo(c, "retoken")
  /\ UNCHANGED <<now, auth0Vars, block, token, attempt, answer, patch, crashes, ageVars>>

(* httpx.RequestError: the connection failed or a limit of time passed,    *)
(* before or after Auth0 handled the copy.  The sleep that follows blocks  *)
(* the loop: the call is at "ready", and time may pass there, too.         *)
OnRequestError(c) ==
  /\ pc[c] = "patch"
  /\ LoopFree
  /\ NextAttempt(c)
  /\ UNCHANGED <<now, cache, rejected, auth0Vars, block, token, answer, patch, crashes,
                 ageVars>>

-----------------------------------------------------------------------------
(* The environment.                                                        *)

(* Time passes: while a request is under way, while a call sleeps, while   *)
(* another handler holds the loop.                                         *)
Tick ==
  /\ now < MaxTime
  /\ now' = now + 1
  /\ UNCHANGED <<cache, rejected, auth0Vars, callVars, crashes, ageVars>>

(* Auth0 stops accepting a token (a rotated key or client secret).         *)
Revoke(t) ==
  /\ Cardinality(revoked) < MaxRevoked
  /\ expiry[t] # 0 /\ t \notin revoked
  /\ revoked' = revoked \cup {t}
  /\ UNCHANGED <<now, cache, rejected, expiry, blocked, callVars, crashes, ageVars>>

(* The process dies, and with it the calls and the cache.                  *)
Crash ==
  /\ crashes < MaxCrashes
  /\ crashes' = crashes + 1
  /\ cache' = [token |-> NoToken, expires_at |-> 0]
  /\ pc' = [c \in Calls |-> IF pc[c] \in Waiting \cup {"ready"} THEN "raised" ELSE pc[c]]
  /\ answer' = [c \in Calls |-> NoToken]
  /\ UNCHANGED <<now, rejected, auth0Vars, block, token, attempt, patch, ageVars>>

Idle == (\A c \in Calls : pc[c] \in Returned) /\ UNCHANGED vars

-----------------------------------------------------------------------------
Answers == {"applied", "unauthorized", "refused"}

(* What the coroutine of a call does.                                      *)
Coroutine(c) ==
  \/ SendPatch(c)
  \/ TokenArrives(c) \/ TokenRefused(c) \/ TokenError(c)
  \/ OnAnswer(c) \/ OnUnauthorized(c) \/ OnRequestError(c)

Next ==
  \/ \E c \in Calls :
       \/ \E b \in BOOLEAN : Begin(c, b)
       \/ Coroutine(c)
       \/ \E t \in Tokens : IssueToken(c, t)
       \/ \E a \in Tries, result \in Answers : HandlePatch(c, a, result)
  \/ Tick
  \/ \E t \in Tokens : Revoke(t)
  \/ Crash
  \/ Idle

Spec == Init /\ [][Next]_vars

(* httpx ends every request, with an answer or with an error, and the      *)
(* event loop resumes the coroutine.                                       *)
FairSpec == Spec /\ \A c \in Calls : WF_vars(Coroutine(c))

-----------------------------------------------------------------------------
(* Properties.                                                             *)

TypeOK ==
  /\ now \in 0 .. MaxTime
  /\ cache \in [token : Tokens \cup {NoToken}, expires_at : 0 .. MaxTime + TokenLife]
  /\ expiry \in [Tokens -> 0 .. MaxTime + TokenLife]
  /\ revoked \subseteq Tokens /\ rejected \subseteq Tokens
  /\ blocked \in [Users -> BOOLEAN]
  /\ pc \in [Calls -> Positions]
  /\ block \in [Calls -> BOOLEAN]
  /\ token \in [Calls -> Tokens \cup {NoToken}]
  /\ attempt \in [Calls -> Tries]
  /\ answer \in [Calls -> Tokens \cup {NoToken}]
  /\ patch \in [Calls -> [Tries -> [state : PatchStates, token : Tokens \cup {NoToken}]]]
  /\ crashes \in 0 .. MaxCrashes
  /\ took \in [Calls -> 0 .. MaxTime]
  /\ delay \in [Tokens -> 0 .. MaxTime]

(* What the margin of get_auth0_token is good for.  The cache counts the   *)
(* life of a token from the arrival of the answer, so it overrates it by   *)
(* the time that the answer took; and a call keeps its token through every *)
(* wait, sleep and retry.  As long as the two delays together are within   *)
(* the margin, whatever the calls share and in whatever order they take    *)
(* and replace tokens, no PATCH is sent with an expired one.               *)
MarginCoversDelays ==
  \A c \in Calls :
    pc[c] = "ready" /\ delay[token[c]] + now <= took[c] + Margin
      => expiry[token[c]] > now

(* A token for which a call has handled a 401 is never in the cache again, *)
(* so no later call begins with it, however the calls overlap.             *)
RejectedIsForgotten == cache.token \notin rejected

(* freeze_user and unfreeze_user report failure only for a reason: Auth0   *)
(* refused the change, or every attempt of the loop was made and none was  *)
(* seen to succeed.                                                        *)
Sent(c) == {a \in Tries : patch[c][a].state # "unsent"}

GivesUpWithCause ==
  \A c \in Calls :
    pc[c] = "failed" => \/ patch[c][attempt[c]].state = "refused"
                        \/ Sent(c) = Tries

(* Every call returns or raises.                                           *)
EveryCallReturns == \A c \in Calls : pc[c] # "idle" ~> pc[c] \in Returned

-----------------------------------------------------------------------------
(* This module implements BlockCalls, which FreezeLifecycle builds on.     *)

CopiesIn(c, states) == Cardinality({a \in Tries : patch[c][a].state \in states})

CallState(c) ==
  [status  |-> IF pc[c] \in Waiting \cup {"ready"} THEN "open" ELSE pc[c],
   block   |-> block[c],
   sent    |-> Cardinality(Sent(c)),
   wire    |-> CopiesIn(c, {"wire"}),
   applied |-> CopiesIn(c, {"applied"})]

Abstract == INSTANCE BlockCalls WITH call <- [c \in Calls |-> CallState(c)]

(* Every behaviour of the client is one that BlockCalls allows: at most    *)
(* Attempts copies, each applied at most once and possibly late, success   *)
(* only after one was applied.                                             *)
ImplementsBlockCalls == Abstract!CallSpec
=============================================================================
