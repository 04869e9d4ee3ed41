----------------------------- MODULE Dashboard -----------------------------
(***************************************************************************)
(* static/app.js: the sessions of the dashboard, in several tabs of one    *)
(* browser.  Each tab has its own variables and its own sessionStorage;    *)
(* localStorage is shared.  JavaScript runs one callback at a time, but    *)
(* between a fetch and its answer the page stays usable: other answers,    *)
(* the timer of a sign-up, the user and the other tabs may come first.     *)
(*                                                                         *)
(* The server is external: it issues tokens (main.py, create_token) and    *)
(* asks for one in /api/me and /api/users alone, so that of all panels     *)
(* only the team can be answered with 401.  The other panels change no     *)
(* state of a session and are left out, like the rendering.                *)
(***************************************************************************)
EXTENDS Naturals, FiniteSets

CONSTANTS
  Tabs,         \* tabs of the browser
  Accounts,     \* who may sign in or sign up
  None,         \* null
  Day, Month,   \* life of a token, of one with remember_me
  MaxTime,      \* bound: the clock
  MaxLoads,     \* bound: pages loaded
  MaxHasty      \* bound: tabs in "hasty" at a time

ASSUME LivesAssumption == Day \in Nat \ {0} /\ Month \in Nat /\ Day <= Month
ASSUME BoundsAssumption ==
  MaxTime \in Nat /\ MaxLoads \in Nat /\ MaxHasty \in Nat

VARIABLES
  now,          \* the clock
  registered,   \* accounts that exist
  local,        \* as_token of localStorage
  tab,          \* what each tab holds
  loads,        \* pages loaded so far
  hasty,        \* history: tabs that signed in while something was pending
  overruled     \* history: tabs since whose sign-in another tab stored a token

serverVars == <<now, registered>>
historyVars == <<hasty, overruled>>
vars == <<serverVars, local, tab, loads, historyVars>>

(* A JWT: of whom, and when it expires.                                    *)
Tokens == [of : Accounts, exp : 1 .. MaxTime + Month]

MaybeToken == Tokens \cup {None}

ASSUME NoneAssumption == None \notin Accounts \cup Tokens

IsNone(x) == x = None

Expired(token) == token.exp <= now

(* Mutant of CreateToken: the longer life on top of the other.             *)
LongerToken(account, remember) ==
  [of |-> account, exp |-> now + Day + IF remember THEN Month ELSE 0]

CreateToken(account, remember) ==
  [of |-> account, exp |-> now + IF remember THEN Month ELSE Day]

(* A page as index.html shows it: no dashboard, no request, no timer.      *)
Page(session, token) ==
  [session    |-> session,    \* as_token of sessionStorage
   token      |-> token,      \* the variable token
   shown      |-> "auth",     \* which of the two pages is visible
   profile    |-> None,       \* whose name the visible dashboard shows
   refreshing |-> FALSE,      \* autoRefreshTimer runs
   startup    |-> token,      \* the token that /api/me is asked about
   login      |-> None,       \* whom /api/login was asked to sign in
   remember   |-> FALSE,      \* ... with remember_me
   signup     |-> None,       \* whom /api/register was asked to create
   redirects  |-> {},         \* timers of sign-ups, by their account
   team       |-> {}]         \* the token a request for /api/users was sent with

Init ==
  /\ now = 0
  /\ registered \in SUBSET Accounts
  /\ local = None
  /\ tab = [t \in Tabs |-> Page(None, None)]
  /\ loads = 0
  /\ hasty = {} /\ overruled = {}

-----------------------------------------------------------------------------
(* The functions of app.js that several handlers call, on one tab.         *)

(* loadToken: localStorage first.                                          *)
LoadToken(t) == IF IsNone(local) THEN tab[t].session ELSE local

(* Mutant of Saved: the other store keeps what it has.                     *)
SavedBeside(token, remember) == IF remember THEN token ELSE local

(* saveToken: what is left in localStorage, and in the tab.                *)
Saved(token, remember) == IF remember THEN token ELSE None

SaveToken(page, token, remember) ==
  [page EXCEPT !.token = token, !.session = IF remember THEN None ELSE token]

ClearToken(page) == [page EXCEPT !.token = None, !.session = None]

(* showDashboard, applyUserProfile and startAutoRefresh.                   *)
Enter(page, account) ==
  [page EXCEPT !.shown = "dashboard", !.profile = account, !.refreshing = TRUE]

(* showAuthPage                                                            *)
Leave(page) == [page EXCEPT !.shown = "auth", !.profile = None]

(* Mutant of LoggedOut: without the clearInterval.                         *)
LoggedOutRefreshing(page) == Leave(ClearToken(page))

(* logout, by its button or by a 401.                                      *)
LoggedOut(page) == [Leave(ClearToken(page)) EXCEPT !.refreshing = FALSE]

Busy(page) ==
  \/ ~IsNone(page.startup) \/ ~IsNone(page.login) \/ ~IsNone(page.signup)
  \/ page.redirects # {} \/ page.team # {}

(* The user submits a form.                                                *)
Submitted(t) ==
  /\ hasty' = IF Busy(tab[t]) THEN hasty \cup {t} ELSE hasty
  /\ Cardinality(hasty') <= MaxHasty

(* A tab stores a token: one in localStorage hides those of other tabs.    *)
Overruled(t, remember) == (IF remember THEN Tabs ELSE overruled) \ {t}

-----------------------------------------------------------------------------
(* DOMContentLoaded: a tab is opened or reloaded.                          *)
Load(t) ==
  /\ loads < MaxLoads
  /\ loads' = loads + 1
  /\ tab' = [tab EXCEPT ![t] = Page(@.session, LoadToken(t))]
  /\ hasty' = hasty \ {t}
  /\ overruled' = IF IsNone(tab[t].session) THEN overruled \ {t} ELSE overruled
  /\ UNCHANGED <<serverVars, local>>

(* The answer of /api/me.  Whatever is not a success, an expired token or  *)
(* a network that failed, ends the session.                                *)
StartupAnswered(t, ok) ==
  /\ ~IsNone(tab[t].startup)
  /\ ok => ~Expired(tab[t].startup)
  /\ LET page == [tab[t] EXCEPT !.startup = None]
     IN tab' = [tab EXCEPT ![t] =
          IF ok THEN Enter(page, tab[t].startup.of)
                ELSE Leave(ClearToken(page))]
  /\ local' = IF ok THEN local ELSE None
  /\ UNCHANGED <<serverVars, loads, historyVars>>

(* handleLogin; its button is disabled while a request is out.             *)
SubmitLogin(t, account, remember) ==
  /\ tab[t].shown = "auth" /\ IsNone(tab[t].login)
  /\ account \in registered
  /\ tab' = [tab EXCEPT ![t].login = account, ![t].remember = remember]
  /\ Submitted(t)
  /\ UNCHANGED <<serverVars, local, loads, overruled>>

LoginAnswered(t, ok) ==
  /\ ~IsNone(tab[t].login)
  /\ LET account  == tab[t].login
         remember == tab[t].remember
         token    == CreateToken(account, remember)
         page     == [tab[t] EXCEPT !.login = None, !.remember = FALSE]
     IN IF ok
        THEN /\ tab' = [tab EXCEPT ![t] = Enter(SaveToken(page, token, remember), account)]
             /\ local' = Saved(token, remember)
             /\ overruled' = Overruled(t, remember)
        ELSE /\ tab' = [tab EXCEPT ![t] = page]
             /\ UNCHANGED <<local, overruled>>
  /\ UNCHANGED <<serverVars, loads, hasty>>

(* handleSignup.                                                           *)
SubmitSignup(t, account) ==
  /\ tab[t].shown = "auth" /\ IsNone(tab[t].signup)
  /\ account \notin registered
  /\ tab' = [tab EXCEPT ![t].signup = account]
  /\ Submitted(t)
  /\ UNCHANGED <<serverVars, local, loads, overruled>>

(* The account is created and signed in at once; the dashboard follows     *)
(* 1.2 s later.  The answer of a server that did create it may get lost.   *)
SignupAnswered(t, created, ok) ==
  /\ ~IsNone(tab[t].signup)
  /\ ok => created
  /\ LET account == tab[t].signup
         token   == CreateToken(account, FALSE)
         page    == [tab[t] EXCEPT !.signup = None]
     IN /\ created => account \notin registered
        /\ registered' = IF created THEN registered \cup {account} ELSE registered
        /\ IF ok
           THEN /\ tab' = [tab EXCEPT ![t] =
                     SaveToken([page EXCEPT !.redirects = @ \cup {account}], token, FALSE)]
                /\ local' = Saved(token, FALSE)
                /\ overruled' = Overruled(t, FALSE)
           ELSE /\ tab' = [tab EXCEPT ![t] = page]
                /\ UNCHANGED <<local, overruled>>
  /\ UNCHANGED <<now, loads, hasty>>

Redirect(t, account) ==
  /\ account \in tab[t].redirects
  /\ tab' = [tab EXCEPT ![t] = Enter([tab[t] EXCEPT !.redirects = @ \ {account}], account)]
  /\ UNCHANGED <<serverVars, local, loads, historyVars>>

(* logout, by its button.                                                  *)
Logout(t) ==
  /\ tab[t].shown = "dashboard"
  /\ tab' = [tab EXCEPT ![t] = LoggedOut(tab[t])]
  /\ local' = None
  /\ UNCHANGED <<serverVars, loads, hasty, overruled>>

(* loadTeam; one request at a time is a bound.                             *)
OpenTeam(t) ==
  /\ tab[t].shown = "dashboard" /\ tab[t].team = {}
  /\ tab' = [tab EXCEPT ![t].team = {tab[t].token}]
  /\ UNCHANGED <<serverVars, local, loads, historyVars>>

(* Mutant of Unauthorized: any failure ends the session.                   *)
NotAnswered(token, ok) == ~ok

(* verify_token: 401 without a token that is still valid.                  *)
Unauthorized(token, ok) == ok /\ (IsNone(token) \/ Expired(token))

(* apiFetch.                                                               *)
TeamAnswered(t, ok) ==
  /\ \E token \in tab[t].team :
       LET page == [tab[t] EXCEPT !.team = {}]
       IN IF Unauthorized(token, ok)
          THEN tab' = [tab EXCEPT ![t] = LoggedOut(page)] /\ local' = None
          ELSE tab' = [tab EXCEPT ![t] = page] /\ UNCHANGED local
  /\ UNCHANGED <<serverVars, loads, historyVars>>

Tick ==
  /\ now < MaxTime
  /\ now' = now + 1
  /\ UNCHANGED <<registered, local, tab, loads, historyVars>>

-----------------------------------------------------------------------------
Next ==
  \/ \E t \in Tabs :
       \/ Load(t) \/ Logout(t) \/ OpenTeam(t)
       \/ \E account \in Accounts :
            \/ \E remember \in BOOLEAN : SubmitLogin(t, account, remember)
            \/ SubmitSignup(t, account) \/ Redirect(t, account)
       \/ \E ok \in BOOLEAN :
            \/ StartupAnswered(t, ok) \/ LoginAnswered(t, ok) \/ TeamAnswered(t, ok)
            \/ \E created \in BOOLEAN : SignupAnswered(t, created, ok)
  \/ Tick

Spec == Init /\ [][Next]_vars

-----------------------------------------------------------------------------
(* Properties.                                                             *)

Pages ==
  [session : MaybeToken, token : MaybeToken, startup : MaybeToken, team : SUBSET MaybeToken,
   shown : {"auth", "dashboard"}, profile : Accounts \cup {None}, refreshing : BOOLEAN,
   login : Accounts \cup {None}, remember : BOOLEAN,
   signup : Accounts \cup {None}, redirects : SUBSET Accounts]

TypeOK ==
  /\ now \in 0 .. MaxTime /\ loads \in 0 .. MaxLoads
  /\ registered \subseteq Accounts
  /\ local \in MaybeToken
  /\ tab \in [Tabs -> Pages]
  /\ hasty \subseteq Tabs /\ overruled \subseteq Tabs

(* The dashboard of a tab is visible exactly while the tab refreshes, for  *)
(* a session, and under the name of the account the session is of: whoever *)
(* signs in anew, in this tab or another, and whatever answers come late.  *)
(* Not so after a sign-in of the tab while something else was pending in   *)
(* it: a start-up check, the other form, the timer of a sign-up (1.2 s),   *)
(* or a request of the session before.                                     *)
ShownIsSignedIn ==
  \A t \in Tabs \ hasty :
    /\ tab[t].refreshing <=> tab[t].shown = "dashboard"
    /\ tab[t].shown = "dashboard" => /\ ~IsNone(tab[t].token)
                                     /\ tab[t].profile = tab[t].token.of

(* A reload never turns the session of a tab into another one, though      *)
(* localStorage comes first and belongs to all tabs: what is stored is the *)
(* tab's own token or nothing.  So the session may be gone after a reload: *)
(* a logout, a failed start-up check or a sign-in that is not to be        *)
(* remembered in another tab empties localStorage, and a remembered        *)
(* session is stored nowhere else.  Not so after another tab stored a      *)
(* remembered sign-in; a tab that has a token of its own takes that one at *)
(* its next reload, and its own again once the other is gone.              *)
ReloadKeepsTheSession ==
  \A t \in Tabs \ overruled :
    IsNone(tab[t].token) \/ LoadToken(t) \in {tab[t].token, None}

(* A session in use ends only when the user logs out or reloads the page,  *)
(* or when its own token has expired: not by another tab and not by a      *)
(* failed request.  This is said of tabs that waited for nothing when they *)
(* signed in.  Of the others it is false: an answer meant for an earlier   *)
(* session logs the new one out, the 401 of a request sent with the old    *)
(* token (app.js:254) as well as the failed check of a start-up (:54).     *)
SessionsEndForACause ==
  [][\A t \in Tabs \ hasty :
       ~IsNone(tab[t].token) /\ IsNone(tab[t].startup) /\ IsNone(tab'[t].token)
         => Logout(t) \/ Load(t) \/ Expired(tab[t].token)]_vars

(* "Remember me for 30 days" (index.html): a remembered session is kept    *)
(* until it expires, somebody logs out, or another sign-in takes its place.*)
SignsIn(t) == tab'[t].token \notin {tab[t].token, None}

RememberedIsKept ==
  [][~IsNone(local) /\ ~Expired(local) /\ IsNone(local')
       => \E t \in Tabs : Logout(t) \/ SignsIn(t)]_vars
=============================================================================
