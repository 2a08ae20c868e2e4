----------------------------- MODULE MCJobQueue -----------------------------
(***************************************************************************)
(* Small instances of the job queue: one job that may be tried twice and   *)
(* one that gets a single attempt and goes first; two processes that share *)
(* a name, as the default 'local-worker' makes them do, or that do not.    *)
(***************************************************************************)
EXTENDS JobQueue, TLC

CONSTANTS j1, j2, w1, w2, n1, n2

RankDef == (j1 :> 2) @@ (j2 :> 1)
AttemptsDef == (j1 :> 2) @@ (j2 :> 1)
SharedName == [w \in Workers |-> n1]
OwnName == (w1 :> n1) @@ (w2 :> n2)
UnknownJob == {j2}
=============================================================================
