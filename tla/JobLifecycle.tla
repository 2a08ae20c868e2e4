---------------------------- MODULE JobLifecycle ----------------------------
(***************************************************************************)
(* What the queue promises about a job, whatever becomes of the processes  *)
(* and of the connections (ADR-0002): each claim is one atomic step that   *)
(* uses up an attempt and finds nobody at work on the job; only a job of a *)
(* known type whose handler resolved is completed; a job is given back     *)
(* when nobody works on it any more, to be tried again as long as an       *)
(* attempt is left; and an outcome is final.                               *)
(*                                                                         *)
(* It does not promise that a job claimed by a worker ever moves on, nor   *)
(* that a job whose handler resolved is completed in the end.              *)
(***************************************************************************)
EXTENDS Naturals

CONSTANTS Jobs, Workers, MaxAttempts, Unknown

VARIABLES status,    \* of each job
          attempts,  \* how often it was claimed
          handlers,  \* who works on it
          succeeded  \* the jobs whose handler resolved at least once

vars == <<status, attempts, handlers, succeeded>>

Init ==
  /\ status = [j \in Jobs |-> "absent"]
  /\ attempts = [j \in Jobs |-> 0]
  /\ handlers = [j \in Jobs |-> {}]
  /\ succeeded = {}

Enqueue(j) ==
  /\ status[j] = "absent"
  /\ status' = [status EXCEPT ![j] = "pending"]
  /\ UNCHANGED <<attempts, handlers, succeeded>>

\* The claim; the worker may never hear that it got the job.
Take(j) ==
  /\ status[j] = "pending"
  /\ attempts[j] < MaxAttempts[j]
  /\ handlers[j] = {}
  /\ status' = [status EXCEPT ![j] = "processing"]
  /\ attempts' = [attempts EXCEPT ![j] = @ + 1]
  /\ \E H \in {{}} \cup {{w} : w \in Workers} : handlers' = [handlers EXCEPT ![j] = H]
  /\ UNCHANGED succeeded

Resolve(j) ==
  /\ handlers[j] # {}
  /\ j \notin Unknown
  /\ succeeded' = succeeded \cup {j}
  /\ UNCHANGED <<status, attempts, handlers>>

\* The worker turns away from the job without recording anything: it died,
\* its UPDATE got lost, or the outcome was recorded before.
Leave(j) ==
  /\ handlers[j] # {}
  /\ handlers' = [handlers EXCEPT ![j] = {}]
  /\ UNCHANGED <<status, attempts, succeeded>>

\* A late completion may find somebody at work on the job once more.
Complete(j) ==
  /\ status[j] = "processing"
  /\ j \in succeeded
  /\ status' = [status EXCEPT ![j] = "completed"]
  /\ handlers' \in {handlers, [handlers EXCEPT ![j] = {}]}
  /\ UNCHANGED <<attempts, succeeded>>

GiveBack(j) ==
  /\ status[j] = "processing"
  /\ status' = [status EXCEPT ![j] =
                  IF attempts[j] < MaxAttempts[j] THEN "pending" ELSE "failed"]
  /\ handlers' = [handlers EXCEPT ![j] = {}]
  /\ UNCHANGED <<attempts, succeeded>>

Next ==
  \E j \in Jobs :
    Enqueue(j) \/ Take(j) \/ Resolve(j) \/ Leave(j) \/ Complete(j) \/ GiveBack(j)

Spec == Init /\ [][Next]_vars
=============================================================================
