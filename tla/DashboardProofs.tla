-------------------------- MODULE DashboardProofs --------------------------
(***************************************************************************)
(* Theorems about Dashboard: what a tab shows is of its session, a reload  *)
(* keeps the session, and sessions end for a cause, for every number of    *)
(* tabs, accounts and reloads.                                             *)
(***************************************************************************)
EXTENDS Dashboard, TLAPS

(* What a tab waits for, one thing at a time: the start-up check, an       *)
(* answer to one of the forms, the timer of a sign-up or the team.         *)
OneAtATime(page) ==
  /\ ~IsNone(page.startup) =>
       IsNone(page.login) /\ IsNone(page.signup) /\ page.redirects = {} /\ page.team = {}
  /\ ~IsNone(page.login) => IsNone(page.signup) /\ page.redirects = {} /\ page.team = {}
  /\ ~IsNone(page.signup) => page.redirects = {} /\ page.team = {}
  /\ page.redirects # {} => page.team = {}
  /\ page.shown = "dashboard" =>
       IsNone(page.startup) /\ IsNone(page.login) /\ IsNone(page.signup) /\ page.redirects = {}

(* What is visible, and what is waited for, are of the page's own token.   *)
OwnToken(page) ==
  /\ page.refreshing <=> page.shown = "dashboard"
  /\ page.shown = "dashboard" => ~IsNone(page.token) /\ page.profile = page.token.of
  /\ ~IsNone(page.startup) => page.startup = page.token
  /\ page.redirects # {} => ~IsNone(page.token) /\ page.redirects = {page.token.of}
  /\ page.team # {} /\ ~IsNone(page.token) => page.team = {page.token}

InOrder(page) == OneAtATime(page) /\ OwnToken(page)

(* What the stores hold: a session in a tab's own store is signed in, and  *)
(* unless another tab overruled it nothing but its own token is stored.    *)
StoresFollow ==
  \A t \in Tabs :
    /\ IsNone(tab[t].token) => IsNone(tab[t].session)
    /\ t \notin overruled /\ ~IsNone(tab[t].token) =>
         local \in {None, tab[t].token} /\ tab[t].session \in {None, tab[t].token}

Inductive ==
  /\ TypeOK
  /\ \A t \in Tabs \ hasty : InOrder(tab[t])
  /\ StoresFollow

-----------------------------------------------------------------------------
(* Tokens that are issued have a life within the bounds.                   *)
LEMMA TokenType ==
  ASSUME NEW account \in Accounts, NEW remember \in BOOLEAN, now \in 0 .. MaxTime
  PROVE  /\ CreateToken(account, remember) \in Tokens
         /\ CreateToken(account, remember).of = account
<1> DEFINE life == IF remember THEN Month ELSE Day
<1>1. now + life \in 1 .. MaxTime + Month
  BY LivesAssumption, BoundsAssumption
<1>2. CreateToken(account, remember) = [of |-> account, exp |-> now + life]
  BY DEF CreateToken
<1> HIDE DEF life
<1>3. QED
  BY <1>1, <1>2 DEF Tokens

LEMMA TokensAreNotNone ==
  /\ \A token \in Tokens : ~IsNone(token) /\ token.of \in Accounts
  /\ \A account \in Accounts : ~IsNone(account)
BY NoneAssumption DEF IsNone, Tokens

(* A page just loaded is in order.                                         *)
LEMMA PageInOrder ==
  ASSUME NEW session \in MaybeToken, NEW token \in MaybeToken
  PROVE  /\ Page(session, token) \in Pages
         /\ InOrder(Page(session, token))
         /\ Page(session, token).session = session
         /\ Page(session, token).token = token
BY DEF Page, Pages, InOrder, OneAtATime, OwnToken, IsNone

(* The steps that change one tab keep the pages in order if its new page   *)
(* is, or is hasty.                                                        *)
LEMMA OnePage ==
  ASSUME Inductive, NEW t \in Tabs, NEW page \in Pages,
         tab' = [tab EXCEPT ![t] = page], hasty \ {t} \subseteq hasty',
         t \notin hasty' => InOrder(page)
  PROVE  /\ tab' \in [Tabs -> Pages]
         /\ \A q \in Tabs \ hasty' : InOrder(tab'[q])
         /\ tab'[t] = page
         /\ \A q \in Tabs \ {t} : tab'[q] = tab[q]
BY DEF Inductive, TypeOK

(* A tab is signed out, and localStorage emptied.                          *)
LEMMA SignedOut ==
  ASSUME Inductive, NEW t \in Tabs, NEW page \in Pages,
         tab' = [tab EXCEPT ![t] = page], IsNone(page.token), IsNone(page.session),
         local' = None, overruled' = overruled
  PROVE  StoresFollow'
BY DEF Inductive, TypeOK, StoresFollow, IsNone

(* A tab's page keeps its token, and all stores are as they were.          *)
LEMMA StoresKept ==
  ASSUME Inductive, NEW t \in Tabs, NEW page \in Pages,
         tab' = [tab EXCEPT ![t] = page],
         page.token = tab[t].token, page.session = tab[t].session,
         local' = local, overruled' = overruled
  PROVE  StoresFollow'
BY DEF Inductive, TypeOK, StoresFollow, IsNone

(* A tab stores a token it was given.                                      *)
LEMMA StoresSaved ==
  ASSUME Inductive, NEW t \in Tabs, NEW page \in Pages, NEW token \in Tokens,
         NEW remember \in BOOLEAN,
         tab' = [tab EXCEPT ![t] = page],
         page.token = token, page.session = IF remember THEN None ELSE token,
         local' = Saved(token, remember), overruled' = Overruled(t, remember)
  PROVE  StoresFollow' /\ local' \in MaybeToken /\ overruled' \subseteq Tabs
<1>1. ~IsNone(token)
  BY TokensAreNotNone
<1>2. tab'[t] = page /\ \A q \in Tabs \ {t} : tab'[q] = tab[q]
  BY DEF Inductive, TypeOK
<1>3. overruled' \subseteq Tabs /\ local' \in MaybeToken
  BY DEF Overruled, Saved, Inductive, TypeOK, MaybeToken
<1>4. CASE remember
  BY <1>1, <1>2, <1>3, <1>4 DEF Inductive, StoresFollow, Saved, Overruled, IsNone
<1>5. CASE ~remember
  BY <1>1, <1>2, <1>3, <1>5 DEF Inductive, StoresFollow, Saved, Overruled, IsNone
<1>6. QED
  BY <1>3, <1>4, <1>5

-----------------------------------------------------------------------------
LEMMA InitInductive == Init => Inductive
<1> SUFFICES ASSUME Init PROVE Inductive
  OBVIOUS
<1>1. Page(None, None) \in Pages /\ InOrder(Page(None, None))
      /\ Page(None, None).session = None /\ Page(None, None).token = None
  BY PageInOrder DEF MaybeToken
<1>2. TypeOK
  BY <1>1, BoundsAssumption DEF Init, TypeOK, MaybeToken
<1>3. QED
  BY <1>1, <1>2 DEF Init, Inductive, StoresFollow, IsNone

LEMMA LoadInductive ==
  ASSUME Inductive, NEW t \in Tabs, Load(t)
  PROVE  Inductive'
<1> DEFINE page == Page(tab[t].session, LoadToken(t))
<1>1. /\ tab[t] \in Pages /\ local \in MaybeToken
      /\ tab[t].session \in MaybeToken /\ LoadToken(t) \in MaybeToken
  BY DEF Inductive, TypeOK, LoadToken, Pages
<1>2. /\ page \in Pages /\ InOrder(page)
      /\ page.session = tab[t].session /\ page.token = LoadToken(t)
  BY <1>1, PageInOrder
<1>3. /\ tab' = [tab EXCEPT ![t] = page]
      /\ loads < MaxLoads /\ loads' = loads + 1
      /\ hasty' = hasty \ {t}
      /\ overruled' = IF IsNone(tab[t].session) THEN overruled \ {t} ELSE overruled
      /\ UNCHANGED <<now, registered, local>>
  BY DEF Load, Inductive, TypeOK, serverVars
<1> HIDE DEF page
<1>4. /\ tab' \in [Tabs -> Pages]
      /\ \A q \in Tabs \ hasty' : InOrder(tab'[q])
      /\ tab'[t] = page
      /\ \A q \in Tabs \ {t} : tab'[q] = tab[q]
  BY <1>2, <1>3, OnePage
<1>5. TypeOK'
  BY <1>3, <1>4, BoundsAssumption DEF Inductive, TypeOK
<1>6. StoresFollow'
  <2> SUFFICES ASSUME NEW q \in Tabs
               PROVE  /\ IsNone(tab'[q].token) => IsNone(tab'[q].session)
                      /\ q \notin overruled' /\ ~IsNone(tab'[q].token) =>
                           /\ local \in {None, tab'[q].token}
                           /\ tab'[q].session \in {None, tab'[q].token}
    BY <1>3 DEF StoresFollow
  <2>1. CASE q # t
    BY <1>3, <1>4, <2>1 DEF Inductive, StoresFollow
  <2>2. CASE q = t
    BY <1>2, <1>3, <1>4, <2>2 DEF Inductive, StoresFollow, LoadToken, IsNone
  <2>3. QED
    BY <2>1, <2>2
<1>7. QED
  BY <1>4, <1>5, <1>6 DEF Inductive

LEMMA StartupInductive ==
  ASSUME Inductive, NEW t \in Tabs, NEW ok \in BOOLEAN, StartupAnswered(t, ok)
  PROVE  Inductive'
<1> DEFINE old == tab[t]
           idle == [old EXCEPT !.startup = None]
           page == IF ok THEN Enter(idle, old.startup.of) ELSE Leave(ClearToken(idle))
<1>1. old \in Pages /\ ~IsNone(old.startup) /\ old.startup \in Tokens
  BY DEF StartupAnswered, Inductive, TypeOK, Pages, MaybeToken, IsNone
<1>2. page \in Pages
  BY <1>1, TokensAreNotNone DEF Enter, Leave, ClearToken, Pages, MaybeToken
<1>3. t \notin hasty => InOrder(page)
  <2> SUFFICES ASSUME InOrder(old) PROVE InOrder(page)
    BY DEF Inductive
  <2>1. /\ IsNone(old.login) /\ IsNone(old.signup) /\ old.redirects = {} /\ old.team = {}
        /\ old.startup = old.token /\ old.shown # "dashboard" /\ old.refreshing = FALSE
    BY <1>1 DEF InOrder, OneAtATime, OwnToken, Pages
  <2>2. QED
    BY <1>1, <2>1 DEF InOrder, OneAtATime, OwnToken, Pages, Enter, Leave, ClearToken, IsNone
<1>4. /\ tab' = [tab EXCEPT ![t] = page]
      /\ local' = IF ok THEN local ELSE None
      /\ UNCHANGED <<now, registered, loads, hasty, overruled>>
  BY DEF StartupAnswered, serverVars, historyVars
<1>5. StoresFollow'
  <2>1. CASE ok
    <3>1. page.token = old.token /\ page.session = old.session
      BY <1>1, <2>1 DEF Enter, Pages
    <3> HIDE DEF page
    <3>2. QED
      BY <1>2, <1>4, <2>1, <3>1, StoresKept
  <2>2. CASE ~ok
    <3>1. IsNone(page.token) /\ IsNone(page.session)
      BY <1>1, <2>2 DEF Leave, ClearToken, Pages, IsNone
    <3> HIDE DEF page
    <3>2. QED
      BY <1>2, <1>4, <2>2, <3>1, SignedOut
  <2>3. QED
    BY <2>1, <2>2
<1> HIDE DEF page
<1>6. tab' \in [Tabs -> Pages] /\ \A q \in Tabs \ hasty' : InOrder(tab'[q])
  BY <1>2, <1>3, <1>4, OnePage
<1>7. TypeOK'
  BY <1>4, <1>6 DEF Inductive, TypeOK, MaybeToken
<1>8. QED
  BY <1>5, <1>6, <1>7 DEF Inductive

(* A form is only submitted on the page of the forms; unless the tab waits *)
(* for something already, it then waits for the answer alone.              *)
LEMMA SubmitInductive ==
  ASSUME Inductive, NEW t \in Tabs, NEW page \in Pages,
         tab' = [tab EXCEPT ![t] = page], Submitted(t),
         t \notin hasty /\ ~Busy(tab[t]) => InOrder(page),
         page.token = tab[t].token, page.session = tab[t].session,
         UNCHANGED <<serverVars, local, loads, overruled>>
  PROVE  Inductive'
<1>1. hasty' = IF Busy(tab[t]) THEN hasty \cup {t} ELSE hasty
  BY DEF Submitted
<1>2. t \notin hasty' => InOrder(page)
  BY <1>1
<1>3. tab' \in [Tabs -> Pages] /\ \A q \in Tabs \ hasty' : InOrder(tab'[q])
  BY <1>1, <1>2, OnePage
<1>4. TypeOK'
  BY <1>1, <1>3 DEF Inductive, TypeOK, serverVars
<1>5. StoresFollow'
  BY StoresKept
<1>6. QED
  BY <1>3, <1>4, <1>5 DEF Inductive

LEMMA SubmitLoginInductive ==
  ASSUME Inductive, NEW t \in Tabs, NEW account \in Accounts, NEW remember \in BOOLEAN,
         SubmitLogin(t, account, remember)
  PROVE  Inductive'
<1> DEFINE page == [tab[t] EXCEPT !.login = account, !.remember = remember]
<1>1. tab[t] \in Pages /\ tab[t].shown = "auth"
  BY DEF SubmitLogin, Inductive, TypeOK
<1>2. page \in Pages /\ page.token = tab[t].token /\ page.session = tab[t].session
  BY <1>1 DEF Pages
<1>3. tab' = [tab EXCEPT ![t] = page]
  BY DEF SubmitLogin, Inductive, TypeOK
<1>4. t \notin hasty /\ ~Busy(tab[t]) => InOrder(page)
  BY <1>1, TokensAreNotNone
  DEF Inductive, InOrder, OneAtATime, OwnToken, Busy, Pages, IsNone
<1>5. Submitted(t) /\ UNCHANGED <<serverVars, local, loads, overruled>>
  BY DEF SubmitLogin
<1> HIDE DEF page
<1>6. QED
  BY <1>2, <1>3, <1>4, <1>5, SubmitInductive

LEMMA SubmitSignupInductive ==
  ASSUME Inductive, NEW t \in Tabs, NEW account \in Accounts, SubmitSignup(t, account)
  PROVE  Inductive'
<1> DEFINE page == [tab[t] EXCEPT !.signup = account]
<1>1. tab[t] \in Pages /\ tab[t].shown = "auth"
  BY DEF SubmitSignup, Inductive, TypeOK
<1>2. page \in Pages /\ page.token = tab[t].token /\ page.session = tab[t].session
  BY <1>1 DEF Pages
<1>3. tab' = [tab EXCEPT ![t] = page]
  BY DEF SubmitSignup, Inductive, TypeOK
<1>4. t \notin hasty /\ ~Busy(tab[t]) => InOrder(page)
  BY <1>1, TokensAreNotNone
  DEF Inductive, InOrder, OneAtATime, OwnToken, Busy, Pages, IsNone
<1>5. Submitted(t) /\ UNCHANGED <<serverVars, local, loads, overruled>>
  BY DEF SubmitSignup
<1> HIDE DEF page
<1>6. QED
  BY <1>2, <1>3, <1>4, <1>5, SubmitInductive

(* An answer without a token changes nothing but what the tab waits for.   *)
LEMMA KeptInductive ==
  ASSUME Inductive, NEW t \in Tabs, NEW page \in Pages,
         tab' = [tab EXCEPT ![t] = page], t \notin hasty => InOrder(page),
         page.token = tab[t].token, page.session = tab[t].session,
         registered' \subseteq Accounts,
         UNCHANGED <<now, local, loads, hasty, overruled>>
  PROVE  Inductive'
<1>1. tab' \in [Tabs -> Pages] /\ \A q \in Tabs \ hasty' : InOrder(tab'[q])
  BY OnePage
<1>2. TypeOK'
  BY <1>1 DEF Inductive, TypeOK
<1>3. StoresFollow'
  BY StoresKept
<1>4. QED
  BY <1>1, <1>2, <1>3 DEF Inductive

(* An answer with a token is stored by saveToken.                          *)
LEMMA SavedInductive ==
  ASSUME Inductive, NEW t \in Tabs, NEW page \in Pages, NEW token \in Tokens,
         NEW remember \in BOOLEAN,
         tab' = [tab EXCEPT ![t] = page], t \notin hasty => InOrder(page),
         page.token = token, page.session = IF remember THEN None ELSE token,
         local' = Saved(token, remember), overruled' = Overruled(t, remember),
         registered' \subseteq Accounts,
         UNCHANGED <<now, loads, hasty>>
  PROVE  Inductive'
<1>1. tab' \in [Tabs -> Pages] /\ \A q \in Tabs \ hasty' : InOrder(tab'[q])
  BY OnePage
<1>2. StoresFollow' /\ local' \in MaybeToken /\ overruled' \subseteq Tabs
  BY StoresSaved
<1>3. TypeOK'
  BY <1>1, <1>2 DEF Inductive, TypeOK
<1>4. QED
  BY <1>1, <1>2, <1>3 DEF Inductive

LEMMA LoginAnsweredInductive ==
  ASSUME Inductive, NEW t \in Tabs, NEW ok \in BOOLEAN, LoginAnswered(t, ok)
  PROVE  Inductive'
<1> DEFINE old == tab[t]
           token == CreateToken(old.login, old.remember)
           idle == [old EXCEPT !.login = None, !.remember = FALSE]
           page == Enter(SaveToken(idle, token, old.remember), old.login)
<1>1. old \in Pages /\ ~IsNone(old.login) /\ old.login \in Accounts
      /\ old.remember \in BOOLEAN
  BY DEF LoginAnswered, Inductive, TypeOK, Pages, IsNone
<1>2. token \in Tokens /\ token.of = old.login /\ ~IsNone(token)
  BY <1>1, TokenType, TokensAreNotNone DEF Inductive, TypeOK
<1>3. t \notin hasty =>
        /\ IsNone(old.startup) /\ IsNone(old.signup) /\ old.redirects = {} /\ old.team = {}
        /\ old.shown # "dashboard" /\ old.refreshing = FALSE
  BY <1>1 DEF Inductive, InOrder, OneAtATime, OwnToken, Pages
<1>4. UNCHANGED <<now, registered, loads, hasty>> /\ registered' \subseteq Accounts
  BY DEF LoginAnswered, serverVars, Inductive, TypeOK
<1>5. CASE ok
  <2>1. tab' = [tab EXCEPT ![t] = page] /\ local' = Saved(token, old.remember)
        /\ overruled' = Overruled(t, old.remember)
    BY <1>5 DEF LoginAnswered
  <2> HIDE DEF token
  <2>2. page \in Pages /\ page.token = token
        /\ page.session = IF old.remember THEN None ELSE token
    BY <1>1, <1>2 DEF Enter, SaveToken, Pages, MaybeToken
  <2>3. t \notin hasty => InOrder(page)
    BY <1>1, <1>2, <1>3
    DEF InOrder, OneAtATime, OwnToken, Enter, SaveToken, Pages, IsNone
  <2> HIDE DEF page, idle
  <2>4. QED
    BY <1>1, <1>2, <1>4, <2>1, <2>2, <2>3, SavedInductive
<1>6. CASE ~ok
  <2>1. tab' = [tab EXCEPT ![t] = idle] /\ UNCHANGED <<local, overruled>>
    BY <1>6 DEF LoginAnswered
  <2>2. idle \in Pages /\ idle.token = old.token /\ idle.session = old.session
    BY <1>1 DEF Pages
  <2>3. t \notin hasty => InOrder(idle)
    BY <1>1, <1>3 DEF Inductive, InOrder, OneAtATime, OwnToken, Pages, IsNone
  <2> HIDE DEF idle
  <2>4. QED
    BY <1>4, <2>1, <2>2, <2>3, KeptInductive
<1>7. QED
  BY <1>5, <1>6

LEMMA SignupAnsweredInductive ==
  ASSUME Inductive, NEW t \in Tabs, NEW created \in BOOLEAN, NEW ok \in BOOLEAN,
         SignupAnswered(t, created, ok)
  PROVE  Inductive'
<1> DEFINE old == tab[t]
           token == CreateToken(old.signup, FALSE)
           idle == [old EXCEPT !.signup = None]
           page == SaveToken([idle EXCEPT !.redirects = @ \cup {old.signup}], token, FALSE)
<1>1. old \in Pages /\ ~IsNone(old.signup) /\ old.signup \in Accounts
  BY DEF SignupAnswered, Inductive, TypeOK, Pages, IsNone
<1>2. token \in Tokens /\ token.of = old.signup /\ ~IsNone(token)
  BY <1>1, TokenType, TokensAreNotNone DEF Inductive, TypeOK
<1>3. t \notin hasty =>
        /\ IsNone(old.startup) /\ IsNone(old.login) /\ old.redirects = {} /\ old.team = {}
        /\ old.shown # "dashboard" /\ old.refreshing = FALSE
  BY <1>1 DEF Inductive, InOrder, OneAtATime, OwnToken, Pages
<1>4. UNCHANGED <<now, loads, hasty>> /\ registered' \subseteq Accounts
  BY <1>1 DEF SignupAnswered, Inductive, TypeOK
<1>5. CASE ok
  <2>1. tab' = [tab EXCEPT ![t] = page] /\ local' = Saved(token, FALSE)
        /\ overruled' = Overruled(t, FALSE)
    BY <1>5 DEF SignupAnswered
  <2> HIDE DEF token
  <2>2. page \in Pages /\ page.token = token /\ page.session = token
    BY <1>1, <1>2 DEF SaveToken, Pages, MaybeToken
  <2>3. t \notin hasty => InOrder(page)
    BY <1>1, <1>2, <1>3
    DEF InOrder, OneAtATime, OwnToken, SaveToken, Pages, IsNone
  <2> HIDE DEF page, idle
  <2>4. QED
    BY <1>2, <1>4, <2>1, <2>2, <2>3, SavedInductive
<1>6. CASE ~ok
  <2>1. tab' = [tab EXCEPT ![t] = idle] /\ UNCHANGED <<local, overruled>>
    BY <1>6 DEF SignupAnswered
  <2>2. idle \in Pages /\ idle.token = old.token /\ idle.session = old.session
    BY <1>1 DEF Pages
  <2>3. t \notin hasty => InOrder(idle)
    BY <1>1, <1>3 DEF Inductive, InOrder, OneAtATime, OwnToken, Pages, IsNone
  <2> HIDE DEF idle
  <2>4. QED
    BY <1>4, <2>1, <2>2, <2>3, KeptInductive
<1>7. QED
  BY <1>5, <1>6

LEMMA RedirectInductive ==
  ASSUME Inductive, NEW t \in Tabs, NEW account \in Accounts, Redirect(t, account)
  PROVE  Inductive'
<1> DEFINE old == tab[t]
           page == Enter([old EXCEPT !.redirects = @ \ {account}], account)
<1>1. old \in Pages /\ account \in old.redirects
  BY DEF Redirect, Inductive, TypeOK
<1>2. tab' = [tab EXCEPT ![t] = page]
  BY DEF Redirect, Enter, Inductive, TypeOK
<1>3. page \in Pages /\ page.token = old.token /\ page.session = old.session
  BY <1>1 DEF Enter, Pages
<1>4. t \notin hasty => InOrder(page)
  <2> SUFFICES ASSUME InOrder(old) PROVE InOrder(page)
    BY DEF Inductive
  <2>1. /\ IsNone(old.startup) /\ IsNone(old.login) /\ IsNone(old.signup) /\ old.team = {}
        /\ ~IsNone(old.token) /\ old.token.of = account /\ old.redirects \ {account} = {}
    BY <1>1 DEF InOrder, OneAtATime, OwnToken
  <2>2. QED
    BY <1>1, <2>1 DEF InOrder, OneAtATime, OwnToken, Enter, Pages
<1>5. UNCHANGED <<now, local, loads, hasty, overruled>> /\ registered' \subseteq Accounts
  BY DEF Redirect, serverVars, historyVars, Inductive, TypeOK
<1> HIDE DEF page
<1>6. QED
  BY <1>2, <1>3, <1>4, <1>5, KeptInductive

(* logout, by the user or by a 401.                                        *)
LEMMA LoggedOutInductive ==
  ASSUME Inductive, NEW t \in Tabs, NEW old \in Pages,
         t \notin hasty =>
           OneAtATime(old) /\ IsNone(old.startup) /\ old.redirects = {},
         tab' = [tab EXCEPT ![t] = LoggedOut(old)], local' = None,
         UNCHANGED <<serverVars, loads, historyVars>>
  PROVE  Inductive'
<1> DEFINE page == LoggedOut(old)
<1>1. /\ page \in Pages /\ IsNone(page.token) /\ IsNone(page.session)
  BY DEF LoggedOut, Leave, ClearToken, Pages, MaybeToken, IsNone
<1>2. t \notin hasty => InOrder(page)
  <2> SUFFICES ASSUME OneAtATime(old), IsNone(old.startup), old.redirects = {}
               PROVE  InOrder(page)
    OBVIOUS
  <2>1. /\ page.shown = "auth" /\ page.refreshing = FALSE /\ page.startup = old.startup
        /\ page.login = old.login /\ page.signup = old.signup
        /\ page.redirects = old.redirects /\ page.team = old.team
    BY DEF LoggedOut, Leave, ClearToken, Pages
  <2>2. QED
    BY <1>1, <2>1 DEF InOrder, OneAtATime, OwnToken
<1>3. tab' = [tab EXCEPT ![t] = page] /\ UNCHANGED <<now, registered, loads, hasty, overruled>>
  BY DEF serverVars, historyVars
<1> HIDE DEF page
<1>4. tab' \in [Tabs -> Pages] /\ \A q \in Tabs \ hasty' : InOrder(tab'[q])
  BY <1>1, <1>2, <1>3, OnePage
<1>5. StoresFollow'
  BY <1>1, <1>3, SignedOut
<1>6. TypeOK'
  BY <1>3, <1>4 DEF Inductive, TypeOK, MaybeToken
<1>7. QED
  BY <1>4, <1>5, <1>6 DEF Inductive

LEMMA LogoutInductive ==
  ASSUME Inductive, NEW t \in Tabs, Logout(t)
  PROVE  Inductive'
<1>1. /\ tab' = [tab EXCEPT ![t] = LoggedOut(tab[t])] /\ local' = None
      /\ UNCHANGED <<serverVars, loads, historyVars>>
      /\ tab[t].shown = "dashboard"
  BY DEF Logout, historyVars
<1>2. tab[t] \in Pages
  BY DEF Inductive, TypeOK
<1>3. t \notin hasty =>
        OneAtATime(tab[t]) /\ IsNone(tab[t].startup) /\ tab[t].redirects = {}
  BY <1>1 DEF Inductive, InOrder, OneAtATime
<1>4. QED
  BY <1>1, <1>2, <1>3, LoggedOutInductive

LEMMA OpenTeamInductive ==
  ASSUME Inductive, NEW t \in Tabs, OpenTeam(t)
  PROVE  Inductive'
<1> DEFINE page == [tab[t] EXCEPT !.team = {tab[t].token}]
<1>1. tab[t] \in Pages /\ tab[t].shown = "dashboard"
  BY DEF OpenTeam, Inductive, TypeOK
<1>2. tab' = [tab EXCEPT ![t] = page]
  BY DEF OpenTeam, Inductive, TypeOK
<1>3. page \in Pages /\ page.token = tab[t].token /\ page.session = tab[t].session
  BY <1>1 DEF Pages
<1>4. t \notin hasty => InOrder(page)
  BY <1>1 DEF Inductive, InOrder, OneAtATime, OwnToken, Pages
<1>5. UNCHANGED <<now, local, loads, hasty, overruled>> /\ registered' \subseteq Accounts
  BY DEF OpenTeam, serverVars, historyVars, Inductive, TypeOK
<1> HIDE DEF page
<1>6. QED
  BY <1>2, <1>3, <1>4, <1>5, KeptInductive

LEMMA TeamAnsweredInductive ==
  ASSUME Inductive, NEW t \in Tabs, NEW ok \in BOOLEAN, TeamAnswered(t, ok)
  PROVE  Inductive'
<1> DEFINE page == [tab[t] EXCEPT !.team = {}]
<1>1. PICK token \in tab[t].team :
        IF Unauthorized(token, ok)
        THEN tab' = [tab EXCEPT ![t] = LoggedOut(page)] /\ local' = None
        ELSE tab' = [tab EXCEPT ![t] = page] /\ UNCHANGED local
  BY DEF TeamAnswered
<1>2. UNCHANGED <<serverVars, loads, historyVars>>
  BY DEF TeamAnswered
<1>3. tab[t] \in Pages
  BY DEF Inductive, TypeOK
<1>4. page \in Pages /\ page.token = tab[t].token /\ page.session = tab[t].session
  BY <1>3 DEF Pages
<1>5. t \notin hasty => InOrder(page) /\ IsNone(page.startup) /\ page.redirects = {}
  BY <1>1, <1>3 DEF Inductive, InOrder, OneAtATime, OwnToken, Pages
<1> HIDE DEF page
<1>6. CASE Unauthorized(token, ok)
  BY <1>1, <1>2, <1>4, <1>5, <1>6, LoggedOutInductive DEF InOrder
<1>7. CASE ~Unauthorized(token, ok)
  <2>1. UNCHANGED <<now, local, loads, hasty, overruled>> /\ registered' \subseteq Accounts
    BY <1>1, <1>2, <1>7 DEF serverVars, historyVars, Inductive, TypeOK
  <2>2. QED
    BY <1>1, <1>4, <1>5, <1>7, <2>1, KeptInductive
<1>8. QED
  BY <1>6, <1>7

LEMMA TickInductive == Inductive /\ Tick => Inductive'
<1> SUFFICES ASSUME Inductive, Tick PROVE Inductive'
  OBVIOUS
<1>1. now' \in 0 .. MaxTime /\ UNCHANGED <<registered, local, tab, loads, historyVars>>
  BY BoundsAssumption DEF Tick, Inductive, TypeOK
<1>2. QED
  BY <1>1 DEF Inductive, TypeOK, StoresFollow, historyVars

LEMMA NextInductive == Inductive /\ [Next]_vars => Inductive'
<1> SUFFICES ASSUME Inductive, [Next]_vars PROVE Inductive'
  OBVIOUS
<1>1. CASE Tick
  BY <1>1, TickInductive
<1>2. ASSUME NEW t \in Tabs, Load(t) \/ Logout(t) \/ OpenTeam(t)
      PROVE  Inductive'
  BY <1>2, LoadInductive, LogoutInductive, OpenTeamInductive
<1>3. ASSUME NEW t \in Tabs, NEW account \in Accounts,
             \/ \E remember \in BOOLEAN : SubmitLogin(t, account, remember)
             \/ SubmitSignup(t, account) \/ Redirect(t, account)
      PROVE  Inductive'
  BY <1>3, SubmitLoginInductive, SubmitSignupInductive, RedirectInductive
<1>4. ASSUME NEW t \in Tabs, NEW ok \in BOOLEAN,
             \/ StartupAnswered(t, ok) \/ LoginAnswered(t, ok) \/ TeamAnswered(t, ok)
             \/ \E created \in BOOLEAN : SignupAnswered(t, created, ok)
      PROVE  Inductive'
  BY <1>4, StartupInductive, LoginAnsweredInductive, TeamAnsweredInductive,
    SignupAnsweredInductive
<1>5. CASE UNCHANGED vars
  BY <1>5 DEF vars, serverVars, historyVars, Inductive, TypeOK, StoresFollow
<1>6. QED
  BY <1>1, <1>2, <1>3, <1>4, <1>5 DEF Next

-----------------------------------------------------------------------------
(* Every tab waits for one thing at a time, of its own token, unless it is *)
(* hasty, and the stores follow the tabs.                                  *)
THEOREM InductiveInvariant == Spec => []Inductive
BY InitInductive, NextInductive, PTL DEF Spec

(* Every state of the dashboard is well typed.                             *)
THEOREM TypeCorrect == Spec => []TypeOK
<1>1. Inductive => TypeOK
  BY DEF Inductive
<1>2. QED
  BY <1>1, InductiveInvariant, PTL

(* A visible dashboard refreshes and is that of the session's account.     *)
THEOREM ShownIsOfTheSession == Spec => []ShownIsSignedIn
<1>1. Inductive => ShownIsSignedIn
  BY DEF Inductive, InOrder, OwnToken, ShownIsSignedIn
<1>2. QED
  BY <1>1, InductiveInvariant, PTL

(* A tab that no other overruled reloads its own session or none.          *)
THEOREM ReloadIsSafe == Spec => []ReloadKeepsTheSession
<1>1. Inductive => ReloadKeepsTheSession
  BY DEF Inductive, StoresFollow, ReloadKeepsTheSession, LoadToken
<1>2. QED
  BY <1>1, InductiveInvariant, PTL

-----------------------------------------------------------------------------
(* Why a session that is in use ends.                                      *)
EndsForACause(t) ==
  ~IsNone(tab[t].token) /\ IsNone(tab[t].startup) /\ IsNone(tab'[t].token)
    => Logout(t) \/ Load(t) \/ Expired(tab[t].token)

(* Requests, timers and the clock change no token.                         *)
LEMMA TokensStay ==
  ASSUME Inductive, NEW t \in Tabs, NEW account \in Accounts, NEW q \in Tabs,
         \/ \E remember \in BOOLEAN : SubmitLogin(t, account, remember)
         \/ SubmitSignup(t, account) \/ Redirect(t, account)
  PROVE  EndsForACause(q)
<1>1. tab'[q].token = tab[q].token
  <2>1. CASE \E remember \in BOOLEAN : SubmitLogin(t, account, remember)
    <3>1. PICK remember \in BOOLEAN : SubmitLogin(t, account, remember)
      BY <2>1
    <3> DEFINE page == [tab[t] EXCEPT !.login = account, !.remember = remember]
    <3>2. tab' = [tab EXCEPT ![t] = page]
      BY <3>1 DEF SubmitLogin
    <3>3. page.token = tab[t].token
      BY DEF Inductive, TypeOK, Pages
    <3> HIDE DEF page
    <3>4. QED
      BY <3>2, <3>3 DEF Inductive, TypeOK
  <2>2. CASE SubmitSignup(t, account)
    BY <2>2 DEF SubmitSignup, Inductive, TypeOK, Pages
  <2>3. CASE Redirect(t, account)
    BY <2>3 DEF Redirect, Enter, Inductive, TypeOK, Pages
  <2>4. QED
    BY <2>1, <2>2, <2>3
<1>2. QED
  BY <1>1 DEF EndsForACause

(* An answer to a form only ever gives its own tab another token.          *)
LEMMA AnswersGiveTokens ==
  ASSUME Inductive, NEW t \in Tabs, NEW ok \in BOOLEAN, NEW q \in Tabs,
         \/ LoginAnswered(t, ok)
         \/ \E created \in BOOLEAN : SignupAnswered(t, created, ok)
  PROVE  EndsForACause(q)
<1>1. tab \in [Tabs -> Pages] /\ tab[t] \in Pages /\ now \in 0 .. MaxTime
  BY DEF Inductive, TypeOK
<1>2. PICK page :
        tab' = [tab EXCEPT ![t] = page] /\ (page.token = tab[t].token \/ ~IsNone(page.token))
  <2>1. CASE LoginAnswered(t, ok)
    <3>1. CreateToken(tab[t].login, tab[t].remember) \in Tokens
      BY <1>1, <2>1, TokenType DEF LoginAnswered, Pages, IsNone
    <3>2. ~IsNone(CreateToken(tab[t].login, tab[t].remember))
      BY <3>1, TokensAreNotNone
    <3> DEFINE token == CreateToken(tab[t].login, tab[t].remember)
               idle  == [tab[t] EXCEPT !.login = None, !.remember = FALSE]
               page  == Enter(SaveToken(idle, token, tab[t].remember), tab[t].login)
    <3>3. tab' = [tab EXCEPT ![t] = IF ok THEN page ELSE idle]
      BY <2>1 DEF LoginAnswered
    <3> HIDE DEF token
    <3>4. page.token = token /\ idle.token = tab[t].token
      BY <1>1 DEF Enter, SaveToken, Pages
    <3> HIDE DEF page, idle
    <3>5. QED
      BY <3>2, <3>3, <3>4 DEF token
  <2>2. CASE \E created \in BOOLEAN : SignupAnswered(t, created, ok)
    <3>1. CreateToken(tab[t].signup, FALSE) \in Tokens
      BY <1>1, <2>2, TokenType DEF SignupAnswered, Pages, IsNone
    <3>2. ~IsNone(CreateToken(tab[t].signup, FALSE))
      BY <3>1, TokensAreNotNone
    <3> DEFINE token == CreateToken(tab[t].signup, FALSE)
               idle  == [tab[t] EXCEPT !.signup = None]
               page  == SaveToken([idle EXCEPT !.redirects = @ \cup {tab[t].signup}],
                                  token, FALSE)
    <3>3. tab' = [tab EXCEPT ![t] = IF ok THEN page ELSE idle]
      BY <2>2 DEF SignupAnswered
    <3> HIDE DEF token
    <3>4. page.token = token /\ idle.token = tab[t].token
      BY <1>1 DEF SaveToken, Pages
    <3> HIDE DEF page, idle
    <3>5. QED
      BY <3>2, <3>3, <3>4 DEF token
  <2>3. QED
    BY <2>1, <2>2
<1>3. QED
  BY <1>1, <1>2 DEF EndsForACause

(* The request a tab that is not hasty is waiting for carries its token:   *)
(* a 401 says that this one has expired.                                   *)
LEMMA TeamEndsTheExpired ==
  ASSUME Inductive, NEW t \in Tabs, NEW ok \in BOOLEAN, NEW q \in Tabs \ hasty,
         TeamAnswered(t, ok)
  PROVE  EndsForACause(q)
<1> DEFINE page == [tab[t] EXCEPT !.team = {}]
<1>1. PICK token \in tab[t].team :
        IF Unauthorized(token, ok)
        THEN tab' = [tab EXCEPT ![t] = LoggedOut(page)] /\ local' = None
        ELSE tab' = [tab EXCEPT ![t] = page] /\ UNCHANGED local
  BY DEF TeamAnswered
<1>2. tab \in [Tabs -> Pages] /\ tab[t] \in Pages /\ page.token = tab[t].token
  BY DEF Inductive, TypeOK, Pages
<1>3. CASE q # t
  BY <1>1, <1>2, <1>3 DEF EndsForACause
<1>4. CASE q = t /\ ~Unauthorized(token, ok)
  BY <1>1, <1>2, <1>4 DEF EndsForACause
<1>5. CASE q = t /\ Unauthorized(token, ok)
  <2>1. ~IsNone(tab[t].token) => token = tab[t].token
    BY <1>1, <1>5 DEF Inductive, InOrder, OwnToken
  <2>2. QED
    BY <1>5, <2>1 DEF EndsForACause, Unauthorized
<1>6. QED
  BY <1>3, <1>4, <1>5

LEMMA StartupEndsNothing ==
  ASSUME Inductive, NEW t \in Tabs, NEW ok \in BOOLEAN, NEW q \in Tabs,
         StartupAnswered(t, ok)
  PROVE  EndsForACause(q)
BY DEF Inductive, TypeOK, StartupAnswered, EndsForACause

LEMMA LoadOrLogout ==
  ASSUME Inductive, NEW t \in Tabs, NEW q \in Tabs, Load(t) \/ Logout(t)
  PROVE  EndsForACause(q)
<1>1. CASE q = t
  BY <1>1 DEF EndsForACause
<1>2. CASE q # t
  BY <1>2 DEF Inductive, TypeOK, Load, Logout, EndsForACause
<1>3. QED
  BY <1>1, <1>2

LEMMA NextEndsForACause ==
  ASSUME Inductive, Next, NEW q \in Tabs \ hasty
  PROVE  EndsForACause(q)
<1>1. CASE Tick
  BY <1>1 DEF Tick, EndsForACause
<1>2. ASSUME NEW t \in Tabs, Load(t) \/ Logout(t) \/ OpenTeam(t)
      PROVE  EndsForACause(q)
  <2>1. CASE Load(t) \/ Logout(t)
    BY <2>1, LoadOrLogout
  <2>2. CASE OpenTeam(t)
    <3>1. tab'[q].token = tab[q].token
      BY <2>2 DEF OpenTeam, Inductive, TypeOK, Pages
    <3>2. QED
      BY <3>1 DEF EndsForACause
  <2>3. QED
    BY <1>2, <2>1, <2>2
<1>3. ASSUME NEW t \in Tabs, NEW account \in Accounts,
             \/ \E remember \in BOOLEAN : SubmitLogin(t, account, remember)
             \/ SubmitSignup(t, account) \/ Redirect(t, account)
      PROVE  EndsForACause(q)
  BY <1>3, TokensStay
<1>4. ASSUME NEW t \in Tabs, NEW ok \in BOOLEAN,
             \/ StartupAnswered(t, ok) \/ LoginAnswered(t, ok) \/ TeamAnswered(t, ok)
             \/ \E created \in BOOLEAN : SignupAnswered(t, created, ok)
      PROVE  EndsForACause(q)
  BY <1>4, StartupEndsNothing, AnswersGiveTokens, TeamEndsTheExpired
<1>5. QED
  BY <1>1, <1>2, <1>3, <1>4 DEF Next

(* No failed request and no other tab ends the session of a tab that had   *)
(* nothing pending when it signed in.                                      *)
THEOREM SessionsEnd == Spec => SessionsEndForACause
<1>1. Inductive /\ [Next]_vars =>
        [\A t \in Tabs \ hasty :
           ~IsNone(tab[t].token) /\ IsNone(tab[t].startup) /\ IsNone(tab'[t].token)
             => Logout(t) \/ Load(t) \/ Expired(tab[t].token)]_vars
  BY NextEndsForACause DEF EndsForACause
<1>2. QED
  BY <1>1, InductiveInvariant, PTL DEF Spec, SessionsEndForACause
=============================================================================
