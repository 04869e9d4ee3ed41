----------------------------- MODULE BlockCalls -----------------------------
(***************************************************************************)
(* What auth0_client.freeze_user and auth0_client.unfreeze_user promise to *)
(* the handlers that await them, and what they do not.                     *)
(*                                                                         *)
(* A call asks Auth0 to set the "blocked" attribute of one user.  It sends *)
(* the PATCH at most Attempts times.  Every copy that was sent may be      *)
(* applied once, at any time, also after the call has returned: a timeout  *)
(* on the client's side does not take the request back.  A call that       *)
(* reports success has had a copy applied; a call that reports failure, or *)
(* raises, promises nothing.                                               *)
(*                                                                         *)
(* Auth0Client is the detailed specification that implements this one;     *)
(* FreezeLifecycle composes its actions with the handlers of main.py.      *)
(***************************************************************************)
EXTENDS Naturals

CONSTANTS
  Callers,     \* the handler executions (HTTP requests) that make calls
  Users,       \* the Auth0 users
  Attempts     \* copies of the PATCH one call may send: range(3)

ASSUME AttemptsAssumption == Attempts \in Nat \ {0}

(* A handler calls Auth0 at most once per user: c[1] is the caller and     *)
(* c[2] the user.                                                          *)
Calls == Callers \X Users

VARIABLES
  blocked,     \* the "blocked" attribute of every user, kept by Auth0
  call         \* the progress of every call

callVars == <<blocked, call>>

Outcomes == {"ok", "failed", "raised"}

CallRecord ==
  [status  : {"idle", "open"} \cup Outcomes,
   block   : BOOLEAN,          \* TRUE for freeze_user, FALSE for unfreeze_user
   sent    : 0 .. Attempts,    \* copies of the PATCH sent so far
   wire    : 0 .. Attempts,    \* copies that Auth0 has not answered
   applied : 0 .. Attempts]    \* copies that Auth0 has applied

NewCall(status, block) ==
  [status |-> status, block |-> block, sent |-> 0, wire |-> 0, applied |-> 0]

(* A copy is applied at most once: those on the wire and those applied are *)
(* among those that were sent.                                             *)
CallTypeOK ==
  /\ blocked \in [Users -> BOOLEAN]
  /\ call \in [Calls -> CallRecord]
  /\ \A c \in Calls : call[c].wire + call[c].applied <= call[c].sent

CallInit ==
  /\ blocked = [u \in Users |-> FALSE]
  /\ call = [c \in Calls |-> NewCall("idle", FALSE)]

(* The handler enters freeze_user (b = TRUE) or unfreeze_user.             *)
OpenCall(c, b) ==
  /\ call[c].status = "idle"
  /\ call' = [call EXCEPT ![c] = NewCall("open", b)]
  /\ UNCHANGED blocked

(* One iteration of the retry loop puts a copy of the PATCH on the wire.   *)
SendPatch(c) ==
  /\ call[c].status = "open"
  /\ call[c].sent < Attempts
  /\ call' = [call EXCEPT ![c].sent = @ + 1, ![c].wire = @ + 1]
  /\ UNCHANGED blocked

(* Auth0 applies a copy, whether or not the caller still waits for it.     *)
ApplyPatch(c) ==
  /\ call[c].wire > 0
  /\ call' = [call EXCEPT ![c].wire = @ - 1, ![c].applied = @ + 1]
  /\ blocked' = [blocked EXCEPT ![c[2]] = call[c].block]

(* A copy has no effect: Auth0 refuses it, or the network loses it.        *)
DropPatch(c) ==
  /\ call[c].wire > 0
  /\ call' = [call EXCEPT ![c].wire = @ - 1]
  /\ UNCHANGED blocked

(* The call returns o; success is reported only after a copy was applied.  *)
MayClose(c, o) == o = "ok" => call[c].applied > 0

CloseCall(c, o) ==
  /\ call[c].status = "open"
  /\ MayClose(c, o)
  /\ call' = [call EXCEPT ![c].status = o]
  /\ UNCHANGED blocked

(* The server process dies: no open call returns, but the copies that it   *)
(* sent are still on their way to Auth0.                                   *)
AbandonCalls ==
  /\ call' = [c \in Calls |-> IF call[c].status = "open"
                              THEN [call[c] EXCEPT !.status = "raised"]
                              ELSE call[c]]
  /\ UNCHANGED blocked

CallNext ==
  \/ \E c \in Calls :
       \/ \E b \in BOOLEAN : OpenCall(c, b)
       \/ SendPatch(c)
       \/ ApplyPatch(c)
       \/ DropPatch(c)
       \/ \E o \in Outcomes : CloseCall(c, o)
  \/ AbandonCalls

CallSpec == CallInit /\ [][CallNext]_callVars
=============================================================================
