------------------------------ MODULE JobQueue ------------------------------
(***************************************************************************)
(* The background job queue: the table job_queue, PostgresJobQueue and the *)
(* WorkerRuntime of every worker process.                                  *)
(*                                                                         *)
(* A worker polls; a poll claims one job in a transaction (SELECT ... FOR  *)
(* UPDATE SKIP LOCKED, UPDATE, COMMIT), runs its handler, and records the  *)
(* outcome with one UPDATE guarded by locked_by.  Nothing ever looks at a  *)
(* job that is already 'processing', and locked_by holds the configured    *)
(* name of a worker, which several processes may share.                    *)
(*                                                                         *)
(* Work is what the code does when nothing breaks.  Faults adds processes  *)
(* that crash and restart, queries that fail, and UPDATEs whose connection *)
(* breaks and that the server executes later, or never.                    *)
(***************************************************************************)
EXTENDS Naturals, FiniteSets

CONSTANTS Jobs,         \* the rows of job_queue
          Workers,      \* the worker processes
          Ids,          \* the worker names
          WorkerId,     \* the configured name of each process
          Rank,         \* ORDER BY priority DESC, id ASC
          MaxAttempts,  \* the column max_attempts
          Unknown,      \* the jobs whose type has no handler
          NoJob,
          Nobody,       \* locked_by IS NULL
          MaxLate       \* bound: UPDATEs left behind on a broken connection

ASSUME QueueAssumption ==
  /\ WorkerId \in [Workers -> Ids]
  /\ Rank \in [Jobs -> Nat]
  /\ \A j, k \in Jobs : Rank[j] = Rank[k] => j = k
  /\ MaxAttempts \in [Jobs -> Nat \ {0}]
  /\ NoJob \notin Jobs
  /\ Nobody \notin Ids
  /\ MaxLate \in Nat

VARIABLES job,       \* the row of each job
          mode,      \* the lifecycle of each process
          at,        \* where its poll is; #busy unless "resting"
          held,      \* the job that poll works on
          late,      \* UPDATEs the server may still execute
          succeeded  \* history: jobs whose handler resolved at least once

vars == <<job, mode, at, held, late, succeeded>>

Statuses == {"absent", "pending", "processing", "completed", "failed"}

Rows == [status : Statuses, attempts : Nat, lockedBy : Ids \cup {Nobody}, due : BOOLEAN]

Updates == [kind : {"complete", "fail"}, job : Jobs, by : Ids]

Init ==
  /\ job = [j \in Jobs |-> [status |-> "absent", attempts |-> 0,
                            lockedBy |-> Nobody, due |-> TRUE]]
  /\ mode = [w \in Workers |-> "up"]
  /\ at = [w \in Workers |-> "resting"]
  /\ held = [w \in Workers |-> NoJob]
  /\ late = {}
  /\ succeeded = {}

\* #running: between start() and stop().
Running(w) == mode[w] \in {"up", "closing", "deaf"}

\* The worker's poll has claimed a job and not yet recorded its outcome.
Works(w, j) == at[w] \in {"handling", "completing", "failing"} /\ held[w] = j

Goto(w, label, j) ==
  /\ at' = [at EXCEPT ![w] = label]
  /\ held' = [held EXCEPT ![w] = j]

Rest(w) == Goto(w, "resting", NoJob)
-----------------------------------------------------------------------------
\* A row is inserted with the column defaults.
Enqueue(j) ==
  /\ job[j].status = "absent"
  /\ job' = [job EXCEPT ![j].status = "pending"]
  /\ UNCHANGED <<mode, at, held, late, succeeded>>

\* The five seconds after a failed attempt have passed.
BecomeDue(j) ==
  /\ ~job[j].due
  /\ job' = [job EXCEPT ![j].due = TRUE]
  /\ UNCHANGED <<mode, at, held, late, succeeded>>

\* The timer fires while #running; the claim transaction begins.
Poll(w) ==
  /\ Running(w)
  /\ at[w] = "resting"
  /\ Goto(w, "claiming", NoJob)
  /\ UNCHANGED <<job, mode, late, succeeded>>

RowLocked(j) == \E w \in Workers : at[w] = "updating" /\ held[w] = j

\* Mutant: FOR UPDATE without SKIP LOCKED, and without waiting.
ClaimableIgnoringLocks(j) ==
  job[j].status = "pending" /\ job[j].due /\ job[j].attempts < MaxAttempts[j]

Claimable(j) ==
  /\ job[j].status = "pending"
  /\ job[j].due
  /\ job[j].attempts < MaxAttempts[j]
  /\ ~RowLocked(j)

\* SELECT ... FOR UPDATE SKIP LOCKED LIMIT 1.
Select(w, j) ==
  /\ at[w] = "claiming"
  /\ Claimable(j)
  /\ \A k \in Jobs : Claimable(k) => Rank[j] <= Rank[k]
  /\ Goto(w, "updating", j)
  /\ UNCHANGED <<job, mode, late, succeeded>>

NothingToClaim(w) ==
  /\ at[w] = "claiming"
  /\ \A j \in Jobs : ~Claimable(j)
  /\ Rest(w)
  /\ UNCHANGED <<job, mode, late, succeeded>>

\* The UPDATE of the claim takes effect with its COMMIT.
TakeJob(w) ==
  /\ at[w] = "updating"
  /\ job' = [job EXCEPT ![held[w]].status = "processing",
                        ![held[w]].attempts = @ + 1,
                        ![held[w]].lockedBy = WorkerId[w]]

Claim(w) ==
  /\ TakeJob(w)
  /\ Goto(w, "handling", held[w])
  /\ UNCHANGED <<mode, late, succeeded>>

HandlerResolves(w) ==
  /\ at[w] = "handling"
  /\ held[w] \notin Unknown
  /\ succeeded' = succeeded \cup {held[w]}
  /\ Goto(w, "completing", held[w])
  /\ UNCHANGED <<job, mode, late>>

\* Mutant: the error of the handler is swallowed.
RejectionCompletes(w) ==
  /\ at[w] = "handling"
  /\ Goto(w, "completing", held[w])
  /\ UNCHANGED <<job, mode, late, succeeded>>

\* The handler throws, or there is none for this type.
HandlerRejects(w) ==
  /\ at[w] = "handling"
  /\ Goto(w, "failing", held[w])
  /\ UNCHANGED <<job, mode, late, succeeded>>

Update(kind, w) == [kind |-> kind, job |-> held[w], by |-> WorkerId[w]]

\* Mutant: an off-by-one in fail().
ExhaustedLate(j) == job[j].attempts > MaxAttempts[j]

Exhausted(j) == job[j].attempts >= MaxAttempts[j]

CompletedRow(j) == [job[j] EXCEPT !.status = "completed", !.lockedBy = Nobody]

\* Mutant: fail() leaves locked_by set.
FailedRowKeepsLock(j) ==
  [job[j] EXCEPT !.status = IF Exhausted(j) THEN "failed" ELSE "pending",
                 !.due = IF Exhausted(j) THEN @ ELSE FALSE]

FailedRow(j) ==
  [job[j] EXCEPT !.status = IF Exhausted(j) THEN "failed" ELSE "pending",
                 !.due = IF Exhausted(j) THEN @ ELSE FALSE,
                 !.lockedBy = Nobody]

\* Mutant: UPDATE ... WHERE id = $1.
ExecuteUnguarded(u) ==
  job' = [job EXCEPT ![u.job] =
            IF u.kind = "complete" THEN CompletedRow(u.job) ELSE FailedRow(u.job)]

\* UPDATE ... WHERE id = $1 AND locked_by = $2.
Execute(u) ==
  IF job[u.job].lockedBy = u.by
  THEN job' = [job EXCEPT ![u.job] =
                 IF u.kind = "complete" THEN CompletedRow(u.job) ELSE FailedRow(u.job)]
  ELSE job' = job

Complete(w) ==
  /\ at[w] = "completing"
  /\ Execute(Update("complete", w))
  /\ Rest(w)
  /\ UNCHANGED <<mode, late, succeeded>>

Fail(w) ==
  /\ at[w] = "failing"
  /\ Execute(Update("fail", w))
  /\ Rest(w)
  /\ UNCHANGED <<mode, late, succeeded>>

\* SIGTERM, SIGINT or an uncaught error: shutdown() runs once.
Shutdown(w) ==
  /\ mode[w] = "up"
  /\ mode' = [mode EXCEPT ![w] = "closing"]
  /\ UNCHANGED <<job, at, held, late, succeeded>>

\* Mutant: stop() leaves #running set.
StopForgetsRunning(w) ==
  /\ mode[w] = "closing"
  /\ mode' = [mode EXCEPT ![w] = "deaf"]
  /\ UNCHANGED <<job, at, held, late, succeeded>>

\* The health server is closed: stop() clears the timer.
StopPolling(w) ==
  /\ mode[w] = "closing"
  /\ mode' = [mode EXCEPT ![w] = "draining"]
  /\ UNCHANGED <<job, at, held, late, succeeded>>

\* Mutant: stop() does not wait for the poll.
CloseWhileBusy(w) ==
  /\ mode[w] = "draining"
  /\ mode' = [mode EXCEPT ![w] = "down"]
  /\ Rest(w)
  /\ UNCHANGED <<job, late, succeeded>>

\* stop() has waited until the poll is over and closes the pool.
Close(w) ==
  /\ mode[w] = "draining"
  /\ at[w] = "resting"
  /\ mode' = [mode EXCEPT ![w] = "down"]
  /\ UNCHANGED <<job, at, held, late, succeeded>>
-----------------------------------------------------------------------------
\* A query of the claim fails and the transaction is rolled back.
ClaimFails(w) ==
  /\ at[w] \in {"claiming", "updating"}
  /\ Rest(w)
  /\ UNCHANGED <<job, mode, late, succeeded>>

\* The COMMIT takes effect but its answer is lost: claim() throws and the
\* runtime does not know that it has a job.
ClaimUnacknowledged(w) ==
  /\ TakeJob(w)
  /\ Rest(w)
  /\ UNCHANGED <<mode, late, succeeded>>

\* The caller sees an error; the server may execute the UPDATE later.
LeaveBehind(u) ==
  \/ late' = late
  \/ Cardinality(late) < MaxLate /\ late' = late \cup {u}

\* complete() throws inside the try block, so fail() is called next.
CompleteBreaks(w) ==
  /\ at[w] = "completing"
  /\ LeaveBehind(Update("complete", w))
  /\ Goto(w, "failing", held[w])
  /\ UNCHANGED <<job, mode, succeeded>>

\* An error of fail() is logged and swallowed.
FailBreaks(w) ==
  /\ at[w] = "failing"
  /\ LeaveBehind(Update("fail", w))
  /\ Rest(w)
  /\ UNCHANGED <<job, mode, succeeded>>

ExecuteLate(u) ==
  /\ u \in late
  /\ Execute(u)
  /\ late' = late \ {u}
  /\ UNCHANGED <<mode, at, held, succeeded>>

\* The health server cannot be closed: stop() is never called, and
\* shuttingDown makes the process ignore every later signal.
HealthCloseFails(w) ==
  /\ mode[w] = "closing"
  /\ mode' = [mode EXCEPT ![w] = "deaf"]
  /\ UNCHANGED <<job, at, held, late, succeeded>>

\* The process is killed; the server rolls an open transaction back.
Crash(w) ==
  /\ mode[w] # "down"
  /\ mode' = [mode EXCEPT ![w] = "down"]
  /\ Rest(w)
  /\ UNCHANGED <<job, late, succeeded>>

Restart(w) ==
  /\ mode[w] = "down"
  /\ mode' = [mode EXCEPT ![w] = "up"]
  /\ UNCHANGED <<job, at, held, late, succeeded>>
-----------------------------------------------------------------------------
\* The steps a poll in progress takes by itself.
PollStep(w) ==
  \/ NothingToClaim(w) \/ Claim(w)
  \/ \E j \in Jobs : Select(w, j)
  \/ HandlerResolves(w) \/ HandlerRejects(w)
  \/ Complete(w) \/ Fail(w)

Work ==
  \/ \E j \in Jobs : Enqueue(j) \/ BecomeDue(j)
  \/ \E w \in Workers : \/ Poll(w) \/ PollStep(w)
                        \/ Shutdown(w) \/ StopPolling(w) \/ Close(w)

Faults ==
  \/ \E w \in Workers :
       \/ ClaimFails(w) \/ ClaimUnacknowledged(w)
       \/ CompleteBreaks(w) \/ FailBreaks(w)
       \/ HealthCloseFails(w) \/ Crash(w) \/ Restart(w)
  \/ \E u \in late : ExecuteLate(u)

Next == Work \/ Faults

Spec == Init /\ [][Next]_vars

\* Timers fire, queries return, handlers settle, time passes.
Fairness ==
  /\ \A j \in Jobs : WF_vars(BecomeDue(j))
  /\ \A w \in Workers : /\ WF_vars(Poll(w)) /\ WF_vars(PollStep(w))
                        /\ WF_vars(StopPolling(w)) /\ WF_vars(Close(w))

\* Nothing breaks.
CalmSpec == Init /\ [][Work]_vars /\ Fairness

\* Things break, and a process that went down is started again.
RestartSpec == Spec /\ Fairness /\ \A w \in Workers : WF_vars(Restart(w))
-----------------------------------------------------------------------------
\* The variables have the shape the code gives them: locked_by is set exactly
\* while a job is processing, and a poll has a job from the row lock on.
TypeOK ==
  /\ job \in [Jobs -> Rows]
  /\ \A j \in Jobs : job[j].status = "processing" <=> job[j].lockedBy # Nobody
  /\ mode \in [Workers -> {"down", "up", "closing", "deaf", "draining"}]
  /\ at \in [Workers -> {"resting", "claiming", "updating",
                         "handling", "completing", "failing"}]
  /\ held \in [Workers -> Jobs \cup {NoJob}]
  /\ \A w \in Workers : held[w] = NoJob <=> at[w] \in {"resting", "claiming"}
  /\ late \subseteq Updates
  /\ succeeded \subseteq Jobs

\* The promise of SKIP LOCKED: two workers never process the same job, also
\* when they share a name, crash, and come back.
OneHandler ==
  \A j \in Jobs, v, w \in Workers : Works(v, j) /\ Works(w, j) => v = w

\* A job that is being handled is still marked processing under the name of
\* its handler, or a completion that had been given up on got through.
HandledIsHeld ==
  \A j \in Jobs, w \in Workers :
    Works(w, j) => \/ job[j].status = "completed"
                   \/ job[j].status = "processing" /\ job[j].lockedBy = WorkerId[w]

\* No job is reported completed unless its handler resolved.
CompletedWasHandled ==
  \A j \in Jobs : job[j].status = "completed" => j \in succeeded

\* A pending job has an attempt left, since the claim passes over it
\* otherwise, and a job only fails for good when all attempts are used.
AttemptsAccounted ==
  \A j \in Jobs :
    /\ job[j].attempts <= MaxAttempts[j]
    /\ job[j].status \in {"absent", "pending"} => job[j].attempts < MaxAttempts[j]
    /\ job[j].status = "failed" => job[j].attempts = MaxAttempts[j]

\* A job that was completed or has failed for good stays so, whatever UPDATE
\* arrives afterwards.
OutcomeIsFinal ==
  [][\A j \in Jobs :
       job[j].status \in {"completed", "failed"} => job'[j].status = job[j].status]_vars

statusBar == [j \in Jobs |-> job[j].status]
attemptsBar == [j \in Jobs |-> job[j].attempts]
handlersBar == [j \in Jobs |-> {w \in Workers : Works(w, j)}]

Life == INSTANCE JobLifecycle
          WITH status <- statusBar, attempts <- attemptsBar, handlers <- handlersBar

\* The promise of ADR-0002, step by step: whatever crashes, breaks or arrives
\* late, a job goes through the life JobLifecycle describes.
ImplementsJobLifecycle == Life!Spec

\* As long as nothing breaks, a job marked processing is being processed: a
\* shutdown waits for the poll in progress and leaves no job behind.
NothingStranded ==
  \A j \in Jobs : job[j].status = "processing" => \E w \in Workers : Works(w, j)

\* As long as nothing breaks and a worker stays up, every job is completed or
\* fails for good: no order of priorities and retries starves it.
JobsSettle ==
  \A j \in Jobs :
    job[j].status \in {"pending", "processing"} ~>
      job[j].status \in {"completed", "failed"} \/ \A w \in Workers : mode[w] = "down"

\* As long as nothing breaks, a worker told to stop does stop, whatever its
\* poll is doing.
ShutdownEnds == \A w \in Workers : mode[w] = "closing" ~> mode[w] = "down"

\* ADR-0002 rejects an in-memory queue because it loses work on a restart: a
\* job taken by a worker does not stay with it forever.
TakenJobsMoveOn ==
  \A j \in Jobs : job[j].status = "processing" ~> job[j].status # "processing"

\* ADR-0002: on success a job becomes completed, on failure pending or failed.
FailedNeverSucceeded ==
  \A j \in Jobs : job[j].status = "failed" => j \notin succeeded
-----------------------------------------------------------------------------
\* A row lock is held on a job that can be claimed, by one worker.
RowLocksExclusive ==
  \A w \in Workers : at[w] = "updating" =>
    /\ job[held[w]].status = "pending"
    /\ \A v \in Workers : at[v] = "updating" /\ held[v] = held[w] => v = w

\* What the server may still execute: a completion follows a success; a
\* failure was given up on by its worker and nobody took the job since.
LateUpdatesOutrun ==
  /\ \A w \in Workers : at[w] = "completing" => held[w] \in succeeded
  /\ \A u \in late :
       IF u.kind = "complete"
       THEN u.job \in succeeded
       ELSE /\ job[u.job].status \in {"processing", "completed"}
            /\ job[u.job].status = "processing" => job[u.job].lockedBy = u.by
            /\ \A w \in Workers : ~Works(w, u.job)

\* The inductive invariant.
IInv ==
  /\ TypeOK /\ OneHandler /\ HandledIsHeld /\ CompletedWasHandled /\ AttemptsAccounted
  /\ RowLocksExclusive /\ LateUpdatesOutrun
=============================================================================
