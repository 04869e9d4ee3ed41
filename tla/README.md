# AuthShield in TLA+

AuthShield watches logins, clusters users that behave alike, and freezes the
accounts it takes for bots: it blocks them in Auth0, records the freeze in
MongoDB and writes an audit note to Algorand. This directory holds a TLA+
model of the parts of the program where ordering, failure and recovery decide
whether it is right, the TLC configurations that check it on small instances,
and proofs, checked by TLAPS, for every size.

    tlc -workers 2 -config FreezeRaces.cfg MCFreezeLifecycle
    tlapm FreezeLifecycleProofs.tla

## The system

| Component | Code | State it keeps | Talks to |
| --- | --- | --- | --- |
| Freeze and unfreeze handlers | `main.py` 425-552, 595-597, 608-620 | none of its own; locals across an await | Auth0 client (await), storage, ledger, graph (blocking calls) |
| Auth0 client | `auth0_client.py` | `_token_cache`, shared by all calls | Auth0's token endpoint and Management API, over httpx |
| Storage | `db.py` | MongoDB collections, or lists and dicts of the process; the sticky flag `db` | MongoDB |
| User graph | `graph.py` | nodes with `risk_score` and `flagged`, edges to behaviour, device and IP | Neo4j |
| Login pipeline | `main.py` 312-363, 378-423, 554-568, 26-41 | none | fingerprint, graph, risk, storage, then the ledger in a background task |
| Risk model | `risk.py` | the cached Isolation Forest, `isolation_forest.pkl` | |
| Fingerprint | `fingerprint.py`, `main.py` 100-136 | none | |
| Algorand client, ledger, badges, reputation | `blockchain/` | none that is read again | an Algorand node |
| Accounts and sessions | `main.py` 56-69, 169-231; `db.py` 32-152 | users, in MongoDB or in memory; the JWT is the session | MongoDB |
| Dashboard | `static/app.js` | per tab: token, current user, refresh timer, sessionStorage; shared: localStorage | the HTTP interface |
| Configuration, page, scripts | `config.py`, `vercel.json`, `static/index.html`, `demo_attack.py`, `test_*.py` | | |

**How it runs.** One process, one asyncio event loop. Every handler is a
coroutine, but only the calls of `auth0_client` suspend it: pymongo, the Neo4j
driver, algosdk and `time.sleep` block the loop. So everything between two
awaits is atomic for the other handlers. It is not atomic for the outside: the
process may die between two writes, and Auth0 goes on applying requests that
were sent.

**What is hard.** (1) A handler reads nothing again after its await, and two
handlers for one user may await Auth0 together. (2) httpx gives up on requests
that still take effect; the client then sends another. (3) Log, registry,
ledger and graph are written one after another with no transaction and no
repair at start-up. (4) Auth0 tokens expire, are revoked and are shared by
overlapping calls. (5) Every database call has a fallback of its own.
(6) `vercel.json` deploys the process as a serverless function, so that
there may be several processes, each with its own memory. (7) Names and e-mail
addresses are unique by two indexes whose failure is ignored, and a token is only
a name. (8) The page stays usable between a fetch and its answer, and all tabs
share localStorage.

**What makes each part correct.**
- *Handlers*: the log and the list of frozen users agree with each other and,
  unless something nameable went wrong, with Auth0; what an answer reports was
  done; beside the notes made by hand the ledger never runs ahead of what was
  done; every request is answered.
- *Auth0 client*: success only after Auth0 applied the change; failure only
  with a cause; no token is sent expired while the delays of its answer and of
  the call are within the margin; no rejected token is reused; it always ends.
- *Storage*: what was acknowledged is kept in one of the stores; who is listed as
  frozen has a freeze in the log; an operation that reached MongoDB is what later
  reads show.
- *Graph*: sizes of clusters, flags that belong to a sweep, the risk of the
  latest login.
- *Ledger*: a transaction reported as confirmed is on the ledger, one reported as
  failed may be there as well; within one process no call reports a failure of what
  another has reported done.
- *Accounts*: a name leads to its own account, and so does a token unless its
  account is lost, its name is that of the administrator, or another store is read.
- *Dashboard*: what it shows belongs to the session that is signed in, and the
  session of a tab that had nothing pending ends for a cause.

## The modules

| Module | Models | Lines of the code |
| --- | --- | --- |
| `BlockCalls` | what a call of `freeze_user`/`unfreeze_user` promises: at most `Attempts` copies of the PATCH, each applied at most once and possibly after the call returned, success only after one was | `auth0_client.py` 39-130, from the caller's side |
| `FreezeLifecycle` | the five freeze and unfreeze routes over `BlockCalls`, and the one that only writes a note, with `frozen_users`, `freeze_log`, the ledger's notes, the graph's flags, faults and crashes | `main.py` 425-552, 595-597, 608-620; `db.py` 181-252; `graph.py` 172-201, 255-266; `freeze_ledger.py` 12-64 |
| `Auth0Client` | the retry loop and the token cache line by line; implements `BlockCalls` | `auth0_client.py` 6-130 |
| `Storage` | the freeze log, the frozen users and the thresholds of several processes over one MongoDB, each operation with its fallback | `db.py` 8-54, 181-288 |
| `LedgerCalls` | what a call that writes to Algorand promises | `algorand_client.py` 81-101, from the caller's side |
| `AlgorandLedger` | building, submitting and awaiting transactions, round by round and in several processes; implements `LedgerCalls` | `algorand_client.py` 15-127; `freeze_ledger.py` 12-64; `reputation.py` 34-89; `nft_badge.py` 46-108 |
| `RiskModel` | the score of a login and the behaviour hash, as operators | `risk.py` 33-86; `fingerprint.py` 84-96 |
| `UserGraph` | user nodes, shared behaviour hashes, flags; one action per Neo4j statement | `graph.py` 35-100, 144-201, 255-266 |
| `LoginPipeline` | `simulate_login` and its background task over `UserGraph` and `RiskModel`, against sweeps and freezes | `main.py` 26-41, 312-363, 378-423, 554-568 |
| `Accounts` | registration, login, that of the environment's administrator, and the lookup of a token's account, in several processes over one MongoDB, with its indexes | `main.py` 56-69, 169-231; `db.py` 32-137 |
| `Dashboard` | the sessions of the dashboard in several tabs of a browser | `app.js` 8-64, 85-145, 178-256, 288-291, 433; `main.py` 56-69 |
| `FreezeLifecycleProofs`, `Auth0ClientProofs`, `StorageProofs`, `AlgorandLedgerProofs`, `LoginPipelineProofs`, `AccountsProofs`, `DashboardProofs` | theorems about the modules of those names | |
| `FreezeReportsProofs` | theorems about the reports, flags and notes of `FreezeLifecycle`, over `FreezeLifecycleProofs` | |
| `MC...` | symmetry and small sets for TLC | |

**How they fit.** `FreezeLifecycle` EXTENDS `BlockCalls`, which `Auth0Client`
implements. A freeze's two writes of `db.py` are the steps `Log` and `Mark` of
`FreezeLifecycle`, which assumes that MongoDB answers; `Storage` is about the
same two writes when it does not. `FreezeLifecycle`'s `Chain` writes its note or does
not; `AlgorandLedger` says what the caller may conclude of that.
`FreezeLifecycle` takes any set of users as the outcome of a sweep; `UserGraph`
has the query, and `LoginPipeline` the logins it depends on. `Dashboard` takes the
server as one that answers, or not, and issues tokens that expire; `Accounts` is
the server's side of the same requests.

`FreezeLifecycle` EXTENDS `BlockCalls` and uses its actions, so the handlers
are checked against everything that a call *may* do, and proved to ask for nothing
that it may not (`HandlersObeyBlockCalls`); `Auth0Client` is checked, and proved,
to do nothing else (`ImplementsBlockCalls`).

### FreezeLifecycle

A request is a member of `Callers`. `pc` says where its handler is: `"new"`,
`"pick"` (choosing the next user of its list), `"await"` (inside
`auth0_client`), `"log"`, `"mark"`, `"chain"`, `"clear"` (about to do that
write), `"done"`, `"error"` (an exception of `get_auth0_token` left the
handler) or `"killed"`. The manual routes have one user, the sweeps a set:
any set, since the result of `graph.get_flagged_users` depends on logins that
are not modelled here; check-clusters visits exactly the flagged users,
freeze-all others as well (the recent bots of the event log).

| Action | Code |
| --- | --- |
| `ArriveManual`, `ArriveSweep` | the handler up to its loop; the sweep sets `flagged` |
| `CallAuth0`, `Send`, `Return` | `await auth0_client.freeze_user(...)`: call, attempts, outcome |
| `Apply`, `Drop` | Auth0 and the network (external) |
| `Log`, `Mark`, `Chain`, `Clear` | `db.log_*`, `db.mark_*`, `freeze_ledger.log_freeze`, `graph.clear_flag`, in each route's own order (`FirstStep`, `NextStep`) |
| `LogFreezeNote` | `/api/blockchain/log-freeze`: the note alone, in one step |
| `Finish`, `Crash` | the answer; death and restart of the process |

`LoopFree` guards every step that needs the event loop: a handler that has
left its await keeps the loop until it awaits again or answers. `disturbed` and
`torn` are history variables: they collect the users for whom one of the
*named causes* has occurred, and are read by properties only. `noted` counts the
notes that were asked for by hand: `/api/blockchain/log-freeze` writes a note
for any user, without a call of Auth0 and without an entry in the log or the list,
so what the ledger tells of Auth0 and of the log can only be said beside these.

Assumed: MongoDB answers (`Storage` is about what happens if not); a
PATCH's effect is the `blocked` flag. Left out: mock mode, where no handler
awaits anything and nothing interleaves; risk scores and reasons in the
records; the logins that reset a user's flag.

### Auth0Client

One coroutine per call, at `"token"` (first `get_auth0_token`), `"ready"`
(about to send), `"patch"` (awaiting the PATCH), `"retoken"` (after a 401), or
returned. Auth0 handles each copy of a PATCH at any time or
never, and answers 401 exactly when it does not accept the token.

Time (`now`) passes at any moment and by any amount: a request may be answered late,
the loop sleeps between two attempts (`time.sleep(2 ** attempt)`, at `"ready"`),
and other handlers block the event loop in pymongo, algosdk or a sleep of their
own. Nothing in the code bounds the sum, so nothing in the model does. What
can be said of expiry is said of two delays, which are history variables: `delay`,
how long the answer with a token took, by which the cache overrates the
token's life, and `took`, when a call got the token it goes on using. The margin of
`get_auth0_token` (60 s) has to cover both (`MarginCoversDelays`).

### Storage

Each process has a sticky `db` (connected, or `False`, decided at its first use) and three
collections of its own in memory; MongoDB holds the shared ones. A log entry is
a user, freeze or unfreeze, and a timestamp, which readers sort by; `Stamp`
takes it, `Log` writes the entry and `Mark` the list, and other processes may
act between any two of them. `Replies` says how an operation can end: MongoDB
carries it out and answers, carries it out and fails to answer, or does neither;
in the last two cases, and when there is no connection, the operation
falls back to memory (`FallsBack`). `Restart` empties a process's memory.

Assumed: the clocks of the processes do not run backwards against each other;
an operation that raised is carried out then or never. The accounts are in
`Accounts`; login events are left out, like the reads that only list.

### AlgorandLedger

`pc` follows each call: `"params"`
(suggested_params), `"send"`, `"status"`, `"poll"` and `"wait"`
(status_after_block) of the loop in `wait_for_confirmation`. `Host` says which
process makes a call; a call blocks the event loop of its process, which
therefore makes one at a time (`LoopFree`), and calls of two processes may overlap
(`crossed`, a history variable, has the pairs that did). `Crash` ends a
process with its call. Node and ledger are
external: `NewRound` confirms any of the transactions submitted, `Evict` gives
one a pool-error although another node may still confirm it, and `NodeFails`
makes any request raise. A transaction is its kind, its user, and what tells it
from another of the same kind: the timestamp in the notes of `log_freeze` and
`update_reputation`; only the round of the suggested parameters for a badge, since
`mint_badge` builds `note` and does not pass it on.

### RiskModel, UserGraph and LoginPipeline

Scores are integers in ten-thousandths, to which the code rounds them;
decisions of the forest, entropies and densities are in hundredths, and the
quotients in between are rounded down. The Isolation Forest, whose training and
caching are left out, may return any decision.

A login passes `"user"` (MERGE the node, with risk 0 and no flag), `"behavior"`,
`"density"`, `"event"` (MongoDB) and `"risk"`, each a write of its own; then it
is `"queued"` until its background task has run. Nothing here awaits: a process
handles one login at a time (`LoopFree`), and two logins overlap only in two
processes. run-attack calls `simulate_login` many times without giving up the
event loop, and the webhook once; both are sequences of it. A statement
of the graph may fail without anyone noticing, and a process may die between any
two writes.

`get_cluster_density` is modelled as its query computes it: `count(*)` in
its last line counts the single row that is left, so the density is
1 / C(n, 2), and Neo4j 5 (README.md:192) refuses the line for its
implicit grouping, which the function turns into 0. Both are possible (`Densities`).

`crossed`, `spoiled` and `unreset` are history variables like `disturbed`: they
collect the logins that overlapped and the users for whom a named cause excuses
the graph.

### Accounts

`step` is how far a process has come in `_get_db`: `"fresh"`, about to ask for
the index on `"name"` or on `"email"`, `"connected"`, or `"off"` for the rest of
its life. `unique` holds the fields that MongoDB has an index on, `users` its
accounts; `memory` is each process's `_in_memory_users`.

| Action | Code |
| --- | --- |
| `Ping`, `CreateIndex` | `_get_db`, a step for each call of MongoDB, between which other processes may register users; an index is refused over duplicates, and a failure ends the `try`, so that a failed index on names leaves e-mail addresses without one |
| `Register` | `/api/register` with `create_user`; the answer of the insert may be lost |
| `Login` | `/api/login` with `authenticate_user` and the update of last_login |
| `AdminLogin` | the same for the administrator of the environment, before any store is asked |
| `Me` | `/api/me`: the account found under a token's name, or else the administrator |
| `Restart` | the end of a process: its memory is gone, the tokens are not |

A username as typed is a name and whether anything about it is there to be
normalised (`padded`); `Normal` is lower() and strip(). A token has the name that
is its subject and, for the properties, the account and the store it was issued
from. The administrator is account 0 of the store `Env`; his name `AdminName` is one
that anyone may register, and then his token shows that account, while the
token of that account shows him when MongoDB does not answer. A connected
process whose read of MongoDB fails looks into its memory (`FindInMemory`), where it
has nobody. `loose`, `entered` and `lost` are history variables: which accounts were added
without which index, whose owners logged in, and which were in the memory of
a process that ended. Requests that are refused change nothing and
are not actions; passwords and bcrypt are left out.

### Dashboard

A tab is a record of app.js's variables, its sessionStorage and what it waits
for: the start-up check (`startup`), the answer to a form (`login`, `signup`),
the timer of a sign-up (`redirects`), the list of the team (`team`). `local` is
localStorage. Each action is one callback, which nothing interrupts; any
answer may fail, and `created` without `ok` is a sign-up that the server carried out and whose
answer was lost.

| Action | Code |
| --- | --- |
| `Load`, `StartupAnswered` | DOMContentLoaded before and after its await |
| `SubmitLogin`, `LoginAnswered` | handleLogin before and after its await |
| `SubmitSignup`, `SignupAnswered`, `Redirect` | handleSignup before and after its await, and its setTimeout |
| `Logout`, `OpenTeam`, `TeamAnswered` | logout; loadTeam with apiFetch, of whose routes only /api/users asks for a token, so that a 401 can come from there alone |
| `Tick` | time, by which tokens expire |

`hasty` and `overruled` are history variables which the properties use to name
what the code does not guard against. A tab is `hasty` once its user submitted
a form while the tab still waited for something; then a late answer may
show the dashboard of an account that is not signed in, or sign the new
session out: the 401 of a request that was sent with the old token
(app.js:254), or the failed check of the start-up (app.js:54). Of hasty tabs
`ShownIsSignedIn` and `SessionsEndForACause` therefore say nothing. A tab is
`overruled` once another tab stored a remembered token, which
every tab prefers to its own at its next reload. Of the others
`ReloadKeepsTheSession` says that a reload finds their own session or none: a
logout or an unremembered sign-in in another tab empties localStorage, and
a remembered session is stored nowhere else. `MaxHasty` bounds how many tabs are hasty at a time.

## What the runs check

| Run | Instance | Shows |
| --- | --- | --- |
| `FreezeRaces` | 3 requests, 1 user, 1 attempt, freeze, unfreeze and freeze-all, Auth0 fails, 1 crash, 1 note by hand | `TypeOK`, `LogMatchesRegistry`, `LedgerTrailsLog`, `LedgerBackedByAuth0`, `FlagsBelongToASweep`, and `Inductive`, the invariant of the proofs, which implies `DivergenceHasCause` |
| `FreezeFaults` | 2 requests, 1 user, 2 attempts, all kinds of route, all faults, 1 crash, fairness | `DivergenceHasCause`, `SuccessMeansApplied`, `EveryRequestAnswered` |
| `Auth0Tokens` | 2 calls, 2 attempts, 2 tokens that last 2 units, 1 revoked, a margin of 1, 3 units of time | `TypeOK`, `MarginCoversDelays`, `RejectedIsForgotten` |
| `Auth0Retries` | 2 calls, 2 attempts, 3 tokens, 1 revoked, 1 crash, fairness | `GivesUpWithCause`, `ImplementsBlockCalls`, `EveryCallReturns` |
| `Storage` | 2 processes, 1 user, 3 freezes or unfreezes, 2 updates of thresholds, 1 restart | `TypeOK`, `FreezesAreLogged`, `LogAndListAgree`, `EntriesAreKept`, `OffProcessAgrees`, `ThresholdsReadBack` |
| `LedgerNotes` | 2 calls in 2 processes for 1 user, notes and badges, 2 rounds to wait of 4, fairness | `TypeOK`, `TimeoutIsLate`, `RepeatsAreUnsettledBadges`, `ImplementsLedgerCalls`, `EveryCallEnds` |
| `Logins` | 3 logins of 2 users in 2 processes, the extreme readings, 1 death | `TypeOK`, `RiskIsOfLastLogin`, `FlaggedAreRisky` |
| `Accounts` | 2 processes, 2 usernames (one too short, one the administrator's), 2 addresses, 3 accounts, 2 restarts | `TypeOK`, `NamesFindTheirAccounts`, `SessionsFindTheirAccounts`, `EmailsAreDistinct`, `LastLoginIsTheirs` |
| `Dashboard` | 2 tabs, 2 accounts, 2 reloads, 2 ticks; tokens last 1 or 2; 1 tab hasty at a time | `TypeOK`, `ShownIsSignedIn`, `ReloadKeepsTheSession`, `SessionsEndForACause` |

**Bounds.** Three requests are the fewest with which a user is frozen, unfrozen
and swept while another call is out, or with which two sweeps flag and clear
a user around a third request. One attempt already gives late and lost copies;
two give a repeated one that overtakes or follows the first; the third repeats
the second. One user is enough for what is said of each user alone; that a sweep
visits several, and stops or dies half way, is covered by the proofs, which hold
for every set of users. One note by hand is enough to put the ledger ahead
of the log and of Auth0. `MaxTime = 3` is beyond `TokenLife = 2`, so that a token
expires in the cache and while it is used, with delays below and above the
margin; three tokens are one more than a call can use up (`Auth0Retries`, where
time stands still). In `Storage` one user is enough, since every record belongs to one user and no
operation reads two; three actions are the fewest that freeze in one process,
unfreeze in another and freeze again. `LedgerNotes` waits for two rounds of
the code's ten, the fewest with a first and a last; four rounds let a
transaction be confirmed in the one after. Its two calls have a process each:
they may overlap, and they may follow each other as the calls of one process do.
The notes of a reputation differ
from those of a freeze only in their kind, so two kinds are enough. In `Logins` three logins
let two of one user overlap before or after a third, which makes a peer; both
users come from one address, so that they share a hash: the other
cases have no peers. The readings are the highest score a login can have
and a low one. In `Accounts` three accounts are the fewest with a duplicate
and one added after it; two restarts let a process lose its memory and connect,
or build an index that failed before. In `Dashboard` two tabs are enough, since
a tab meets the others only through localStorage; two ticks let tokens of both kinds expire, and two
reloads let a session be reloaded after another tab has been. There is no
deadlock check in these two: users may do nothing more, and the bounds
end what they can do.

**Fairness.** `FairSpec` is weak fairness of each handler's steps, its sends
and its returns: the event loop resumes every coroutine that is ready, and httpx
ends every request, so a call cannot wait for ever. Nothing is asked of Auth0 or
of the network: it may handle a copy of a PATCH or never do so. In `Auth0Client` it is weak
fairness of each coroutine alone; there, too, nothing is asked of Auth0. In
`AlgorandLedger` it is weak fairness of each call's steps: a node answers
status_after_block after a time of its own if there is no block, or the request
fails; rounds need not go on. A crash is never
required to happen and never forbidden; a killed request counts as ended.

**The divergences that runs exhibit** (expected violations):

| Run | Said | Done |
| --- | --- | --- |
| `FrozenListStale` | README.md:417 "Currently frozen users" | a freeze and an unfreeze that overlap leave the list wrong with nothing failing |
| `RememberedSession` | static/index.html:72 "Remember me for 30 days" | whatever keeps /api/me from succeeding at the start-up of a tab, a moment without network included, removes the token from localStorage (app.js:54) |
| `BotsInReadme` | README.md:351 "0.847  ⚠ SUSPICIOUS  🔒 FROZEN", README.md:355 "Flagged as suspicious individually: 12/12" | similarity is never earned and the anomaly is at most 0.84 (risk.py:68-77), so no login reaches 0.64, and 0.7 is the threshold |

Others met while reading, without a run: README.md:49 says that "every freeze and
unfreeze action is written to the Algorand blockchain", and unfreeze writes
no note, as `log_unfreeze` has no caller; static/app.js:588 reports "accounts
blocked", and freeze-all counts users whom Auth0 refused to block as well;
README.md:119 says that "communities exceeding the cluster-size threshold are auto-flagged", and
the risk of every member must reach 0.7 as well, which by the theorem
`NoLoginReachesTheThreshold` no score does (so README.md:95 and DEMO.md:18 describe
freezes that no risk brings about: a demonstration freezes the bot_account_ users that
freeze-all adds by their names, main.py:443-456); main.py:192 asks for usernames of three
characters, and counts those that strip() then removes; db.py:70 promises a
ValueError "on duplicate", which in memory is not raised for an e-mail address;
db.py:113 says MongoDB is asked before the environment's administrator, and
it is the other way round; anybody may register his name, and then /api/me
(main.py:221-227) may show the account of the one for the token of the other; main.py:186 allows "only admin and analyst", and
viewer is allowed too; app.js:237 compares the function selectRole with a
string where selectedRole is meant; app.js:600 leaves the freeze button disabled
after a network error, until the attack is run again; README.md:409 calls `/api/freeze`
"Auth0 only", and it writes to the ledger (main.py:520); main.py:442 and 449
speak of bots "that are suspicious" and of the "top 12", and the code filters
by neither; main.py:605 passes three arguments to `calculate_trust_score`,
which takes one; badges and reputation read `confirmed-round` where
`send_transaction` returns `confirmed_round`; README.md:144 shows `cluster_id`
and `reason` in the note, and log_freeze writes neither; README.md:119 has nodes
linked by subnet, and no query follows those edges, while the behaviour hash
holds the whole address, so that bots of one subnet do not share it;
get_all_clusters counts members twice that are both greater than one and
smaller than another; run-attack's "Seed ML model" (main.py:380) has no
effect once a model is cached (risk.py:14).

## What is proved

Every safety invariant and every action property that a passing run checks is
proved for all values of the constants, and so are both refinements.

`FreezeLifecycleProofs` and `FreezeReportsProofs`, for every set of requests
and users, every choice of routes and faults, any number of attempts and
crashes:

| Theorem | Statement |
| --- | --- |
| `TypeCorrect` | `Spec => []TypeOK` |
| `InductiveInvariant` | `Spec => []Inductive` |
| `LogAndRegistryAgree` | `Spec => []LogMatchesRegistry` |
| `DivergenceIsCaused` | `Spec => []DivergenceHasCause` |
| `HandlersObeyBlockCalls` | `Spec => CallSpec`: the handlers with Auth0, faults and crashes make only steps of `BlockCalls` |
| `ReportsAreTrue` | `Spec => []SuccessMeansApplied` |
| `FlagsAreCleared` | `Spec => []FlagsBelongToASweep` |
| `NotesAreBackedByCalls` | `Spec => []LedgerBackedByAuth0` |
| `LedgerFollowsLog` | `Spec => []LedgerTrailsLog` |

`Auth0ClientProofs`, for every set of calls and tokens, any number of attempts
and of crashes, and however much time passes anywhere:

| Theorem | Statement |
| --- | --- |
| `TypeCorrect` | `Spec => []TypeOK` |
| `MarginIsEnough` | `Spec => []MarginCoversDelays` |
| `RejectedStaysForgotten` | `Spec => []RejectedIsForgotten` |
| `FailureHasCause` | `Spec => []GivesUpWithCause` |
| `ClientKeepsItsPromise` | `Spec => ImplementsBlockCalls` |

`StorageProofs`, for every set of processes, users and thresholds, any number
of freezes, updates and restarts:

| Theorem | Statement |
| --- | --- |
| `TypeCorrect` | `Spec => []TypeOK` |
| `NoFreezeIsUnlogged` | `Spec => []FreezesAreLogged` |
| `LogAgreesWithList` | `Spec => []LogAndListAgree` |
| `NoEntryIsLost` | `Spec => []EntriesAreKept` |
| `MemoryAgrees` | `Spec => []OffProcessAgrees` |
| `ThresholdsAreReadBack` | `Spec => []ThresholdsReadBack` |

`AlgorandLedgerProofs`, for any finite set of calls, any processes that make them, any
users, kinds, rounds to wait from two on, and any number of rounds and crashes:

| Theorem | Statement |
| --- | --- |
| `TypeCorrect` | `Spec => []TypeOK` |
| `TimeoutTellsLate` | `Spec => []TimeoutIsLate` |
| `RepeatsAreBadges` | `Spec => []RepeatsAreUnsettledBadges` |
| `LedgerKeepsItsPromise` | `Spec => ImplementsLedgerCalls` |

`LoginPipelineProofs`, for every set of users, hashes, events, readings, thresholds,
logins and processes, and any number of deaths:

| Theorem | Statement |
| --- | --- |
| `TypeCorrect` | `Spec => []TypeOK` |
| `NoLoginReachesTheThreshold` | `Spec => []NoneIsSuspicious`: what `BotsInReadme` shows of one attack holds of every login |
| `GraphKeepsTheRisk` | `Spec => []RiskIsOfLastLogin` |
| `FlagsHaveReasons` | `Spec => []FlaggedAreRisky` |
| `RiskRises` | `RiskScore` does not fall when the decision of the forest falls, or entropy or density rise |

`AccountsProofs`, for every set of processes, names and addresses and any
number of accounts and restarts:

| Theorem | Statement |
| --- | --- |
| `TypeCorrect` | `Spec => []TypeOK` |
| `NamesAreFound` | `Spec => []NamesFindTheirAccounts` |
| `SessionsAreFound` | `Spec => []SessionsFindTheirAccounts` |
| `EmailsDiffer` | `Spec => []EmailsAreDistinct` |
| `LastLoginIsOwners` | `Spec => []LastLoginIsTheirs` |

`DashboardProofs`, for every set of tabs and accounts, any number of reloads and
any lives of tokens:

| Theorem | Statement |
| --- | --- |
| `TypeCorrect` | `Spec => []TypeOK` |
| `ShownIsOfTheSession` | `Spec => []ShownIsSignedIn` |
| `ReloadIsSafe` | `Spec => []ReloadKeepsTheSession` |
| `SessionsEnd` | `Spec => SessionsEndForACause` |

**Assumptions** on the constants, with what in the code justifies those that are
more than a type or a bound:

- `FreezeLifecycle`: `Attempts` is positive, `Routes` are routes of the program,
  `NoUser` is not a user, `MaxCrashes` and `MaxNotes` are natural numbers.
- `Auth0Client`: the same of the bounds, and `MarginAssumption`: a token lives
  longer than the margin of 60 s (Auth0's tokens last for hours). Nothing is
  assumed of how long anything takes.
- `Storage`: `Unset` is neither a user, a process nor a threshold, and the default
  thresholds are thresholds.
- `AlgorandLedger`: the calls are finitely many, since each note counts those before
  it, and each is made by one process (`HostAssumption`); `Timeout >= 2`, ten in the code (algorand_client.py), for with one round
  the only poll may come before the first round that is awaited.
- `LoginPipeline`: `Users` are numbers and finite, since the queries compare
  and count them; `Hashes` is finite; events are of `Users` and their hashes in
  `Hashes`; `Readings` are possible ones; thresholds of sweeps are numbers.
- `Accounts`: MongoDB and the configuration are two stores and not processes, the
  administrator's name is one that can be typed, too short
  names are names, the bounds are natural numbers.
- `Dashboard`: `None` is neither an account nor a token, a token lives for some
  time and a remembered one at least as long, the bounds are natural numbers.

**The arguments.** Each component has one inductive invariant, a conjunction of
named parts, and one lemma for each action.

*FreezeLifecycle.* `DivergenceHasCause` speaks of users nobody works on, so it
says nothing about the states in between and is not inductive.
`Inductive` adds what carries it through a request: (1) `LoopExclusive`, at most
one handler is between two awaits; (2) `CallsFollowHandlers`, a call is open
exactly while its handler awaits it and asks for what its route asks for;
(3) `MarkFollowsLog`, a handler about to write the registry wrote the matching
log entry last, which gives `LogMatchesRegistry` together with (1);
(4) `Agreement`, for every user not `disturbed`: all handlers at work on it
want the same, the flag at Auth0 is what they want as soon as one copy was
applied, before that registry and Auth0 agree, and no copy outlives its call.
Each action is taken in turn; most leave a user's *frame* (who works on it, and
which calls were applied) as it was, which `FrameKeepsAgreement` settles once.

*Reports, flags and notes* have an invariant of their own on top of it, `Reports`.
Only freeze-all records what Auth0 has not confirmed (`RecordsConfirmed`), and each note has
a handler that backs it (`NotesHaveWriters`), where the notes made by hand
are taken off (`Notes`). Ledger and log are compared by `Gap`:
these notes, and one that is owed, less the entries, and one whose note was
written first. `LoopExclusive` leaves at most one handler that owes or is ahead
for each user, so every step of a handler leaves the gap as it was; a fault or a crash
can only lower it, except that a killed freeze-all stays ahead for ever and is
counted on the other side (`NotesAreLogged`, `LoggedHaveNotes`). The requests need
not be finitely many: those that have arrived always are (`FinitelyManyArrived`).

*Auth0Client.* Time is the point. A token is issued for `TokenLife` at a time that
has passed (`IssueTimes`); the cache counts from the arrival of the answer, and so
overrates the token by exactly the delay of that answer (`CacheOverrates`). A call that
takes a token, from the cache or from an answer, finds more than the margin left of
it, save for that delay, and this stays true of a token that the call keeps
because the next one did not come (`TokenOutlastsMargin`): what the call has lasted
since and the delay have to add up to the margin before the token expires. An answer that nobody has
read is known to nobody else (`AnswersAreFresh`), so no answer brings a rejected
token back. For the refinement, the state of a PATCH is mapped to a count of copies;
`CountsSent` and `CountsApplied` say how it moves with each step.

*Storage.* An entry's timestamp is newer than all that were taken before
(`TimesAreTaken`), but entries are written later, in any order. A pair of writes
that no other process crossed finds only older entries of its user and leaves
the newest (`MongoOrder`), and the newest entry decides (`NewestDecides`);
a process without MongoDB has the same of its own memory (`MemoryOrder`). The entry of a
pair is in the one store or the other before its mark is written (`MarkFollowsEntry`),
and entries leave a memory only with its process; hence `MarksAreLogged`.

*AlgorandLedger.* `OneAtATime` says that calls which are open at once are
`crossed` and made by two processes. A note is stamped with a
number that grows with each call (`NotesInOrder`), so no node knows it yet. A
badge is stamped with a round only; a transaction is confirmed after the round it was built
in (`RoundsInOrder`) and a call that ended well did so before the next one that did
not overlap it asked for its round (`OkIsConfirmed`), so of two badges with one stamp
the first reported no success unless the two are crossed (`RepeatsAreKnown`). `WaitsSeeRounds` counts the rounds that an untroubled wait has seen;
at its end these are `Timeout`, and what is confirmed later is late.

*LoginPipeline.* The score is at most 6360 = 40 * 84 + 15 * 100 + 15 * 100
(`RiskScoreBound`, from `AnomalyBound` and `DensityBound`, which needs that
the rows of the density query are a finite set). A risk in the
graph is a score or 0, so it is below 7000 as well (`LowScores`), and no user
can exceed the threshold of a sweep. Two logins of a user that run at a time are
both `crossed` (`OverlapsAreCrossed`); one that is not finds in the end the risk
that it has reset (`ResetIsZero`) and the event that it has saved
(`SavedIsScored`). Edges are only added, so a user whose risk does not fall
goes on exceeding the thresholds it was flagged for (`ExceedsGrows`).

*Accounts.* The invariant splits the accounts of MongoDB by field: where a field has an
index there are no duplicates (`IndexedAreDistinct`), where it has none all
accounts are known to be loose (`UnindexedAreLoose`). The two survive the moment
at which an index is built, since MongoDB builds it over distinct values only;
`SameIsLoose` draws from them what names, addresses and last_login need.
`TokensHaveAccounts` ties each token to the account in its store (`Stands`), or, once
that was a memory and is gone, leaves there only accounts that were added later
(`Lost`, with `IdsAreCounted`). A connected process has nobody in its memory
(`ConnectedRememberNobody`), so that a read which fails shows nobody.

*Dashboard.* `OneAtATime` says that a tab which is not hasty waits for
one thing at most, and `OwnToken` that this thing, and what is visible, is of the
tab's own token; so an answer never meets a token it was not asked for.
`StoresFollow` adds sessionStorage to what `ReloadKeepsTheSession` says of
localStorage, since another tab may empty the latter at any time.

Each inductive invariant was checked by TLC on an instance like that of the component's
run before it was proved; `FreezeRaces` still checks `Inductive`.

**Only model-checked**: that every request is answered (`EveryRequestAnswered`),
every call of Auth0 returns (`EveryCallReturns`) and every call of the ledger ends
(`EveryCallEnds`). They are liveness under fairness, which TLAPS does not prove.

## Not modelled, and the plan

What is left, in this order (PROJECT.json lists the hazards with their lines):

1. Lemmas about `UserGraph`'s queries: who stays in the result of a sweep while the graph
   grows beyond the user's own edges, and what the density of a cluster says of its size.
2. That the processes of `Storage` carry out the two writes which `FreezeLifecycle` takes
   for granted while MongoDB answers.

The reads for display (clusters of a user, lists of events, histories of the
ledger) keep no state and stay out, like the training of the forest, the login
events, which are appended and listed, and the panels of the dashboard, which show
the last answer that came.

Out of scope: markup and styles, the demo and test scripts (clients of the
HTTP interface), scikit-learn, bcrypt, JWT and the cryptography of algosdk.
