----------------------------- MODULE ApiServer -----------------------------
(***************************************************************************)
(* The process of the API: authentication and webhooks.  When it starts    *)
(* again, the requests under way are gone, and so is what it kept of       *)
(* deliveries; the rows of the sessions and the ledger remain.             *)
(***************************************************************************)
EXTENDS Sessions, Webhooks

apiVars == <<sessionVars, webhookVars>>

ApiTypeOK == SessionsTypeOK /\ WebhooksTypeOK

ApiInit == SessionsInit /\ WebhooksInit

RestartApi ==
  /\ request' = [r \in Requests |-> Idle]
  /\ progress' = [a \in Attempts |->
       IF progress[a] \in {"reading", "storing", "answering"} THEN "failed" ELSE progress[a]]
  /\ seen' = {}
  /\ UNCHANGED <<secret, retired, created, expiry, promised, loggedOut, atVersion, attached>>

ApiNext ==
  \/ SessionsNext /\ UNCHANGED webhookVars
  \/ WebhooksNext /\ UNCHANGED sessionVars
  \/ RestartApi

\* The API by itself, while time passes.
ApiSpec ==
  /\ ApiInit /\ ClockInit
  /\ [][(ApiNext /\ UNCHANGED now) \/ (Tick /\ UNCHANGED apiVars)]_<<apiVars, now>>

ApiIInv == SessionsIInv /\ WebhooksIInv
=============================================================================
