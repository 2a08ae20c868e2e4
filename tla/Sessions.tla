------------------------------ MODULE Sessions ------------------------------
(***************************************************************************)
(* Credentials and the sessions of those who log in with them.  A request  *)
(* awaits between its statements, and others are served meanwhile: a login *)
(* reads the ledger and then inserts a session, a request for one's own    *)
(* identity selects the session and then updates it.  The expiry is        *)
(* computed when the statement is sent and stored when it is executed.     *)
(*                                                                         *)
(* Sessions are rows in PostgreSQL; each statement is atomic.  The clock   *)
(* of the API and that of the database are one.                            *)
(***************************************************************************)
EXTENDS Clock

CONSTANTS Requests, Credentials, Secrets,
          SessionIds,  \* random, hence never given twice
          SessionTtl,  \* the life of a session after a login
          TouchTtl,    \* and after it was used
          NoSecret, NoSession

\* The configuration gives a session the 24 hours that its use gives it.
ASSUME TtlAssumption ==
  /\ SessionTtl \in Nat \ {0} /\ TouchTtl \in Nat /\ SessionTtl <= TouchTtl
  /\ NoSecret \notin Secrets /\ NoSession \notin SessionIds

VARIABLES secret,   \* of the first issue of each credential, or NoSecret
          retired,  \* the credentials that were rotated or revoked
          created,  \* the sessions inserted so far
          expiry,   \* of the row of each session, 0 when there is none
          request,  \* how far each request is, with its session and the expiry it stores
          promised, \* history: the expiry the login gave each session, and its cookie
          loggedOut \* history: the sessions deleted by a logout

sessionVars == <<secret, retired, created, expiry, request, promised, loggedOut>>

Doing(step, session, expires) == [step |-> step, session |-> session, expires |-> expires]

Idle == Doing("idle", NoSession, 0)

Expiries == 0 .. (MaxTime + TouchTtl)

SessionsTypeOK ==
  /\ secret \in [Credentials -> Secrets \cup {NoSecret}] /\ retired \subseteq Credentials
  /\ created \subseteq SessionIds /\ loggedOut \subseteq created
  /\ expiry \in [SessionIds -> Expiries] /\ promised \in [SessionIds -> Expiries]
  /\ request \in [Requests -> [step : {"idle", "login", "selected", "touch"},
                               session : SessionIds \cup {NoSession}, expires : Expiries]]

SessionsInit ==
  /\ secret = [c \in Credentials |-> NoSecret] /\ retired = {}
  /\ created = {} /\ expiry = [s \in SessionIds |-> 0]
  /\ request = [r \in Requests |-> Idle]
  /\ promised = [s \in SessionIds |-> 0] /\ loggedOut = {}
-----------------------------------------------------------------------------
(* Credentials: unguarded appends, in any order.                            *)

IssueCredential(c, word) ==
  /\ secret' = [secret EXCEPT ![c] = IF @ = NoSecret THEN word ELSE @]
  /\ UNCHANGED <<retired, created, expiry, request, promised, loggedOut>>

\* revokeCredential, and rotateCredential, whose new secret no login compares.
RetireCredential(c) ==
  /\ retired' = retired \cup {c}
  /\ UNCHANGED <<secret, created, expiry, request, promised, loggedOut>>
-----------------------------------------------------------------------------
(* Requests.                                                                *)

Goto(r, state) == request' = [request EXCEPT ![r] = state]

Alive(s) == expiry[s] > now

\* POST /api/auth/login, as far as the sending of the INSERT.
BeginLogin(r, c, word) ==
  /\ request[r] = Idle
  /\ secret[c] = word /\ c \notin retired
  /\ Goto(r, Doing("login", NoSession, now + SessionTtl))
  /\ UNCHANGED <<secret, retired, created, expiry, promised, loggedOut>>

\* create; the answer and its cookie carry the expiry that is stored.
CreateSession(r, s) ==
  /\ request[r].step = "login" /\ s \notin created
  /\ created' = created \cup {s}
  /\ expiry' = [expiry EXCEPT ![s] = request[r].expires]
  /\ promised' = [promised EXCEPT ![s] = request[r].expires]
  /\ Goto(r, Idle)
  /\ UNCHANGED <<secret, retired, loggedOut>>

\* GET /api/auth/me and requireAuth: the session is selected ...
ReadSession(r, s) ==
  /\ request[r] = Idle
  /\ s \in created /\ Alive(s)
  /\ Goto(r, Doing("selected", s, 0))
  /\ UNCHANGED <<secret, retired, created, expiry, promised, loggedOut>>

\* Mutant: the life after a use is so short that it is over at once.
SendTouchBriefly(r) ==
  /\ request[r].step = "selected"
  /\ Goto(r, Doing("touch", request[r].session, now))
  /\ UNCHANGED <<secret, retired, created, expiry, promised, loggedOut>>

\* ... an UPDATE with a new expiry is sent ...
SendTouch(r) ==
  /\ request[r].step = "selected"
  /\ Goto(r, Doing("touch", request[r].session, now + TouchTtl))
  /\ UNCHANGED <<secret, retired, created, expiry, promised, loggedOut>>

\* Mutant: touch extends a session that has expired and was not cleaned up.
TouchAnyway(r) ==
  /\ request[r].step = "touch"
  /\ LET s == request[r].session
     IN  expiry' = IF expiry[s] # 0 THEN [expiry EXCEPT ![s] = request[r].expires] ELSE expiry
  /\ Goto(r, Idle)
  /\ UNCHANGED <<secret, retired, created, promised, loggedOut>>

\* ... and executed, after others that were sent later perhaps; it finds a session
\* that is still there.  The request is served in either case.
TouchSession(r) ==
  /\ request[r].step = "touch"
  /\ LET s == request[r].session
     IN  expiry' = IF Alive(s) THEN [expiry EXCEPT ![s] = request[r].expires] ELSE expiry
  /\ Goto(r, Idle)
  /\ UNCHANGED <<secret, retired, created, promised, loggedOut>>

\* A statement fails: the request is answered with an error.
FailRequest(r) ==
  /\ request[r] # Idle /\ Goto(r, Idle)
  /\ UNCHANGED <<secret, retired, created, expiry, promised, loggedOut>>

\* POST /api/auth/logout: a single DELETE.
Logout(s) ==
  /\ s \in created
  /\ expiry' = [expiry EXCEPT ![s] = 0]
  /\ loggedOut' = loggedOut \cup {s}
  /\ UNCHANGED <<secret, retired, created, request, promised>>

Cleanup ==
  /\ expiry' = [s \in SessionIds |-> IF expiry[s] < now THEN 0 ELSE expiry[s]]
  /\ UNCHANGED <<secret, retired, created, request, promised, loggedOut>>

SessionsNext ==
  \/ \E c \in Credentials :
       RetireCredential(c) \/ \E word \in Secrets : IssueCredential(c, word)
  \/ \E r \in Requests :
       \/ \E c \in Credentials, word \in Secrets : BeginLogin(r, c, word)
       \/ \E s \in SessionIds : CreateSession(r, s) \/ ReadSession(r, s)
       \/ SendTouch(r) \/ TouchSession(r) \/ FailRequest(r)
  \/ \E s \in SessionIds : Logout(s)
  \/ Cleanup
-----------------------------------------------------------------------------
Ended(s) == s \in created /\ ~Alive(s)

\* A session that was logged out or has expired does not come back, whichever request
\* had selected it before and updates it afterwards.
EndedSessionsStayEnded ==
  [][\A s \in SessionIds : Ended(s) => Ended(s)']_<<sessionVars, now>>

\* A session lasts as long as the login said and as its cookie does, unless it is logged
\* out: a use of the session, one whose UPDATE is executed after those of later uses
\* too, does not end it before.  The later expiry that an answer to a use reports is not
\* covered: such an UPDATE can shorten it again.
PromisedExpiryHolds ==
  \A s \in created : promised[s] > now => s \in loggedOut \/ Alive(s)
-----------------------------------------------------------------------------
(* What makes it inductive. *)

\* No login promises more than a use at any later time gives: what a request stores for
\* a session is no less than the login promised for it.
UsesOutlastPromises ==
  /\ \A s \in created : promised[s] <= now + SessionTtl
  /\ \A r \in Requests :
       /\ request[r].step = "login" => request[r].expires <= now + SessionTtl
       /\ request[r].step \in {"selected", "touch"} => request[r].session \in created
       /\ request[r].step = "touch" => promised[request[r].session] <= request[r].expires

\* The row of a session is there as long as its login promised, or it was deleted.
RowsOutlastPromises ==
  \A s \in created \ loggedOut : promised[s] <= expiry[s] \/ promised[s] <= now

SessionsIInv == SessionsTypeOK /\ UsesOutlastPromises /\ RowsOutlastPromises
=============================================================================
