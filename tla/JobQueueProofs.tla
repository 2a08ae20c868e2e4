--------------------------- MODULE JobQueueProofs ---------------------------
(***************************************************************************)
(* Proofs about JobQueue, for any number of jobs, workers and names, with  *)
(* every fault the module models.                                          *)
(***************************************************************************)
EXTENDS JobQueue, TLAPS

\* The part of the invariant that speaks of the table alone.
RowsOK ==
  /\ job \in [Jobs -> Rows]
  /\ \A j \in Jobs : job[j].status = "processing" <=> job[j].lockedBy # Nobody
  /\ AttemptsAccounted

\* The part that speaks of the workers alone.
WorkersOK ==
  /\ mode \in [Workers -> {"down", "up", "closing", "deaf", "draining"}]
  /\ at \in [Workers -> {"resting", "claiming", "updating",
                         "handling", "completing", "failing"}]
  /\ held \in [Workers -> Jobs \cup {NoJob}]
  /\ \A w \in Workers : held[w] = NoJob <=> at[w] \in {"resting", "claiming"}

\* The type invariant falls apart into these two and the history variables.
LEMMA TypeSplit ==
  TypeOK /\ AttemptsAccounted
    <=> RowsOK /\ WorkersOK /\ late \subseteq Updates /\ succeeded \subseteq Jobs
BY DEF TypeOK, RowsOK, WorkersOK

\* The same, to establish both after a step.
LEMMA TypeAfterStep ==
  ASSUME RowsOK', WorkersOK', late' \subseteq Updates, succeeded' \subseteq Jobs
  PROVE  TypeOK' /\ AttemptsAccounted'
BY DEF TypeOK, RowsOK, WorkersOK, Updates

\* A worker past the row lock has a job.
LEMMA HeldIsJob ==
  ASSUME IInv, NEW w \in Workers, at[w] \notin {"resting", "claiming"}
  PROVE  held[w] \in Jobs
BY DEF IInv, TypeOK

\* The invariant holds before the first job arrives.
LEMMA InitIInv == Init => IInv
<1> SUFFICES ASSUME Init PROVE IInv
  OBVIOUS
<1>1. TypeOK
  BY QueueAssumption DEF Init, TypeOK, Rows, Statuses
<1>2. OneHandler /\ HandledIsHeld /\ CompletedWasHandled /\ RowLocksExclusive
  BY DEF Init, OneHandler, HandledIsHeld, CompletedWasHandled, RowLocksExclusive, Works
<1>3. AttemptsAccounted
  BY QueueAssumption DEF Init, AttemptsAccounted
<1>4. LateUpdatesOutrun
  BY DEF Init, LateUpdatesOutrun
<1> QED
  BY <1>1, <1>2, <1>3, <1>4 DEF IInv

\* Changing one row keeps the table in order if the new row is.
LEMMA OneRowChanges ==
  ASSUME RowsOK, NEW j \in Jobs, NEW r \in Rows, job' = [job EXCEPT ![j] = r],
         r.status = "processing" <=> r.lockedBy # Nobody,
         r.attempts <= MaxAttempts[j],
         r.status \in {"absent", "pending"} => r.attempts < MaxAttempts[j],
         r.status = "failed" => r.attempts = MaxAttempts[j]
  PROVE  RowsOK'
<1>1. job' \in [Jobs -> Rows]
  BY DEF RowsOK
<1>2. \A k \in Jobs : job'[k] = IF k = j THEN r ELSE job[k]
  BY DEF RowsOK
<1>3. AttemptsAccounted'
  BY <1>2 DEF RowsOK, AttemptsAccounted
<1> QED
  BY <1>1, <1>2, <1>3 DEF RowsOK

\* The claim: the job was pending with an attempt left, and is processing
\* under the worker's name afterwards.
LEMMA TakeJobEffect ==
  ASSUME IInv, NEW w \in Workers, TakeJob(w)
  PROVE  /\ RowsOK'
         /\ held[w] \in Jobs
         /\ job[held[w]].status = "pending"
         /\ job'[held[w]].status = "processing"
         /\ job'[held[w]].lockedBy = WorkerId[w]
         /\ \A k \in Jobs \ {held[w]} : job'[k] = job[k]
<1>1. PICK j \in Jobs : held[w] = j
  BY HeldIsJob DEF TakeJob
<1>2. job[j].status = "pending"
  BY <1>1 DEF IInv, RowLocksExclusive, TakeJob
<1>3. RowsOK /\ job \in [Jobs -> Rows]
  BY TypeSplit DEF IInv, RowsOK
<1>4. PICK r : r = [status |-> "processing", attempts |-> job[j].attempts + 1,
                    lockedBy |-> WorkerId[w], due |-> job[j].due]
  OBVIOUS
<1>5. /\ job[j] \in Rows /\ job[j].attempts \in Nat /\ job[j].due \in BOOLEAN
      /\ WorkerId[w] \in Ids
  BY <1>3, QueueAssumption DEF Rows
<1>6. /\ r \in Rows /\ r.status = "processing" /\ r.lockedBy = WorkerId[w]
      /\ r.attempts = job[j].attempts + 1
  BY <1>4, <1>5 DEF Rows, Statuses
<1>7. job' = [job EXCEPT ![j] = r]
  BY <1>1, <1>3, <1>4 DEF TakeJob, Rows
<1>8. MaxAttempts[j] \in Nat /\ job[j].attempts < MaxAttempts[j]
  BY <1>2, QueueAssumption DEF IInv, AttemptsAccounted
<1>9. r.attempts <= MaxAttempts[j] /\ r.lockedBy # Nobody
  BY <1>5, <1>6, <1>8, QueueAssumption
<1>10. RowsOK'
  BY <1>3, <1>6, <1>7, <1>9, OneRowChanges
<1> QED
  BY <1>1, <1>2, <1>3, <1>6, <1>7, <1>10

\* An UPDATE guarded by locked_by does nothing, or it takes a job that is
\* processing under that name to an outcome or back to pending.
LEMMA ExecuteEffect ==
  ASSUME IInv, NEW u \in Updates, Execute(u)
  PROVE  /\ RowsOK'
         /\ \A k \in Jobs \ {u.job} : job'[k] = job[k]
         /\ \/ job' = job
            \/ /\ job[u.job].status = "processing"
               /\ job[u.job].lockedBy = u.by
               /\ job'[u.job].status \in IF u.kind = "complete" THEN {"completed"}
                                         ELSE {"pending", "failed"}
<1>1. PICK j \in Jobs : u.job = j
  BY DEF Updates
<1>2. RowsOK /\ job \in [Jobs -> Rows]
  BY TypeSplit DEF IInv, RowsOK
<1>3. CASE job[j].lockedBy # u.by
  <2>1. job' = job
    BY <1>1, <1>3 DEF Execute
  <2> QED
    BY <1>2, <2>1 DEF RowsOK, AttemptsAccounted
<1>4. CASE job[j].lockedBy = u.by
  <2>1. u.by # Nobody
    BY QueueAssumption DEF Updates
  <2>2. job[j].status = "processing"
    BY <1>2, <1>4, <2>1 DEF RowsOK
  <2>3. /\ job[j] \in Rows /\ job[j].attempts \in Nat /\ MaxAttempts[j] \in Nat
        /\ job[j].attempts <= MaxAttempts[j]
    BY <1>2, QueueAssumption DEF Rows, RowsOK, AttemptsAccounted
  <2>4. CASE u.kind = "complete"
    <3>1. PICK r : r = CompletedRow(j)
      OBVIOUS
    <3>2. /\ r \in Rows /\ r.status = "completed" /\ r.lockedBy = Nobody
          /\ r.attempts = job[j].attempts
      BY <2>3, <3>1 DEF CompletedRow, Rows, Statuses
    <3>3. job' = [job EXCEPT ![j] = r]
      BY <1>1, <1>4, <2>4, <3>1 DEF Execute
    <3>4. RowsOK'
      BY <1>2, <2>3, <3>2, <3>3, OneRowChanges
    <3> QED
      BY <1>1, <1>2, <1>4, <2>2, <2>4, <3>2, <3>3, <3>4
  <2>5. CASE u.kind # "complete"
    <3>1. PICK r : r = FailedRow(j)
      OBVIOUS
    <3>2. /\ r \in Rows /\ r.lockedBy = Nobody /\ r.attempts = job[j].attempts
          /\ r.status = IF Exhausted(j) THEN "failed" ELSE "pending"
      BY <2>3, <3>1 DEF FailedRow, Rows, Statuses
    <3>3. job' = [job EXCEPT ![j] = r]
      BY <1>1, <1>4, <2>5, <3>1 DEF Execute
    <3>4. /\ r.status \in {"pending", "failed"}
          /\ r.status = "pending" => r.attempts < MaxAttempts[j]
          /\ r.status = "failed" => r.attempts = MaxAttempts[j]
      BY <2>3, <3>2 DEF Exhausted
    <3>5. RowsOK'
      BY <1>2, <2>3, <3>2, <3>3, <3>4, OneRowChanges
    <3> QED
      BY <1>1, <1>2, <1>4, <2>2, <2>5, <3>2, <3>3, <3>4, <3>5
  <2> QED
    BY <2>4, <2>5
<1> QED
  BY <1>3, <1>4

\* A step that leaves the table alone keeps it in order.
LEMMA TableKept ==
  ASSUME IInv, job' = job
  PROVE  RowsOK'
BY TypeSplit DEF IInv, RowsOK, AttemptsAccounted

\* A job is inserted, or its retry delay ends: workers are not concerned.
LEMMA TableSteps ==
  ASSUME IInv, NEW j \in Jobs, Enqueue(j) \/ BecomeDue(j)
  PROVE  IInv'
<1>1. RowsOK /\ job \in [Jobs -> Rows] /\ UNCHANGED <<mode, at, held, late, succeeded>>
  BY TypeSplit DEF IInv, RowsOK, Enqueue, BecomeDue
<1>2. /\ job[j] \in Rows /\ job[j].attempts \in Nat /\ MaxAttempts[j] \in Nat
      /\ job[j].attempts <= MaxAttempts[j]
  BY <1>1, QueueAssumption DEF Rows, RowsOK, AttemptsAccounted
<1>3. /\ RowsOK'
      /\ \A k \in Jobs : /\ job'[k].lockedBy = job[k].lockedBy
                         /\ job[k].status # "absent" => job'[k].status = job[k].status
                         /\ job[k].status = "absent" => job'[k].status \in {"absent", "pending"}
  <2>1. CASE Enqueue(j)
    <3>1. PICK r : r = [job[j] EXCEPT !.status = "pending"]
      OBVIOUS
    <3>2. /\ r \in Rows /\ r.status = "pending" /\ r.lockedBy = job[j].lockedBy
          /\ r.attempts = job[j].attempts
      BY <1>2, <3>1 DEF Rows, Statuses
    <3>3. job' = [job EXCEPT ![j] = r] /\ job[j].status = "absent"
      BY <2>1, <3>1 DEF Enqueue
    <3>4. job[j].attempts < MaxAttempts[j] /\ job[j].lockedBy = Nobody
      BY <1>1, <3>3 DEF RowsOK, AttemptsAccounted
    <3>5. RowsOK'
      BY <1>1, <1>2, <3>2, <3>3, <3>4, OneRowChanges
    <3> QED
      BY <1>1, <3>2, <3>3, <3>5
  <2>2. CASE BecomeDue(j)
    <3>1. PICK r : r = [job[j] EXCEPT !.due = TRUE]
      OBVIOUS
    <3>2. /\ r \in Rows /\ r.status = job[j].status /\ r.lockedBy = job[j].lockedBy
          /\ r.attempts = job[j].attempts
      BY <1>2, <3>1 DEF Rows
    <3>3. job' = [job EXCEPT ![j] = r]
      BY <2>2, <3>1 DEF BecomeDue
    <3>4. RowsOK'
      BY <1>1, <1>2, <3>2, <3>3, OneRowChanges DEF RowsOK, AttemptsAccounted
    <3> QED
      BY <1>1, <3>2, <3>3, <3>4 DEF Rows, Statuses
  <2> QED
    BY <2>1, <2>2
<1>4. TypeOK' /\ AttemptsAccounted'
  BY <1>1, <1>3, TypeSplit DEF IInv, TypeOK, RowsOK
<1>5. OneHandler' /\ HandledIsHeld' /\ CompletedWasHandled'
  BY <1>1, <1>3 DEF IInv, OneHandler, HandledIsHeld, CompletedWasHandled, Works
<1>6. RowLocksExclusive'
  BY <1>1, <1>3, HeldIsJob DEF IInv, RowLocksExclusive
<1>7. LateUpdatesOutrun'
  BY <1>1, <1>3 DEF IInv, TypeOK, Updates, LateUpdatesOutrun, Works
<1> QED
  BY <1>4, <1>5, <1>6, <1>7 DEF IInv

\* Only the lifecycle of a process changes.
LEMMA LifecycleSteps ==
  ASSUME IInv, NEW w \in Workers,
         Shutdown(w) \/ StopPolling(w) \/ Close(w) \/ HealthCloseFails(w) \/ Restart(w)
  PROVE  IInv'
<1>1. /\ UNCHANGED <<job, at, held, late, succeeded>>
      /\ WorkersOK'
  BY TypeSplit DEF IInv, WorkersOK, Shutdown, StopPolling, Close, HealthCloseFails, Restart
<1>2. TypeOK' /\ AttemptsAccounted'
  BY <1>1, TableKept, TypeAfterStep DEF IInv, TypeOK, Updates
<1>3. OneHandler' /\ HandledIsHeld' /\ CompletedWasHandled'
  BY <1>1 DEF IInv, OneHandler, HandledIsHeld, CompletedWasHandled, Works
<1>4. RowLocksExclusive' /\ LateUpdatesOutrun'
  BY <1>1 DEF IInv, RowLocksExclusive, LateUpdatesOutrun, Works
<1> QED
  BY <1>2, <1>3, <1>4 DEF IInv

\* A poll begins, ends without a job, or ends with the process: it works on
\* no job afterwards.
LEMMA IdleSteps ==
  ASSUME IInv, NEW w \in Workers,
         Poll(w) \/ NothingToClaim(w) \/ ClaimFails(w) \/ Crash(w)
  PROVE  IInv'
<1>1. /\ UNCHANGED <<job, late, succeeded>>
      /\ WorkersOK'
      /\ \A v \in Workers \ {w} : at'[v] = at[v] /\ held'[v] = held[v]
      /\ at'[w] \in {"resting", "claiming"}
  BY QueueAssumption, TypeSplit
  DEF IInv, WorkersOK, Poll, NothingToClaim, ClaimFails, Crash, Goto, Rest
<1>2. TypeOK' /\ AttemptsAccounted'
  BY <1>1, TableKept, TypeAfterStep DEF IInv, TypeOK, Updates
<1>3. OneHandler' /\ HandledIsHeld' /\ CompletedWasHandled'
  BY <1>1 DEF IInv, OneHandler, HandledIsHeld, CompletedWasHandled, Works
<1>4. RowLocksExclusive' /\ LateUpdatesOutrun'
  BY <1>1 DEF IInv, RowLocksExclusive, LateUpdatesOutrun, Works
<1> QED
  BY <1>2, <1>3, <1>4 DEF IInv

\* The claim locks the row of a pending job that nobody else has locked.
LEMMA SelectStep ==
  ASSUME IInv, NEW w \in Workers, NEW j \in Jobs, Select(w, j)
  PROVE  IInv'
<1>1. /\ UNCHANGED <<job, late, succeeded>>
      /\ WorkersOK'
      /\ \A v \in Workers \ {w} : at'[v] = at[v] /\ held'[v] = held[v]
      /\ at'[w] = "updating" /\ held'[w] = j
  BY QueueAssumption, TypeSplit DEF IInv, WorkersOK, Select, Goto
<1>2. TypeOK' /\ AttemptsAccounted'
  BY <1>1, TableKept, TypeAfterStep DEF IInv, TypeOK, Updates
<1>3. OneHandler' /\ HandledIsHeld' /\ CompletedWasHandled'
  BY <1>1 DEF IInv, OneHandler, HandledIsHeld, CompletedWasHandled, Works
<1>4. job[j].status = "pending" /\ \A v \in Workers : at[v] = "updating" => held[v] # j
  BY DEF Select, Claimable, RowLocked
<1>5. RowLocksExclusive'
  BY <1>1, <1>4 DEF IInv, RowLocksExclusive
<1>6. LateUpdatesOutrun'
  BY <1>1 DEF IInv, LateUpdatesOutrun, Works
<1> QED
  BY <1>2, <1>3, <1>5, <1>6 DEF IInv

\* The handler settles: the worker keeps the job, and only a job whose
\* handler resolved is on its way to completion.
LEMMA HandlerSteps ==
  ASSUME IInv, NEW w \in Workers, HandlerResolves(w) \/ HandlerRejects(w)
  PROVE  IInv'
<1>1. /\ UNCHANGED <<job, late>>
      /\ \A v \in Workers \ {w} : at'[v] = at[v]
      /\ held' = held /\ held[w] \in Jobs
      /\ at[w] = "handling"
      /\ \/ at'[w] = "completing" /\ succeeded' = succeeded \cup {held[w]}
         \/ at'[w] = "failing" /\ succeeded' = succeeded
  BY HeldIsJob DEF IInv, TypeOK, HandlerResolves, HandlerRejects, Goto
<1>2. WorkersOK' /\ succeeded' \subseteq Jobs
  BY <1>1, TypeSplit DEF IInv, WorkersOK, HandlerResolves, HandlerRejects, Goto
<1>3. TypeOK' /\ AttemptsAccounted'
  BY <1>1, <1>2, TableKept, TypeAfterStep DEF IInv, TypeOK, Updates
<1>4. \A v \in Workers, j \in Jobs : Works(v, j)' <=> Works(v, j)
  BY <1>1 DEF Works
<1>5. OneHandler' /\ HandledIsHeld' /\ CompletedWasHandled'
  BY <1>1, <1>4 DEF IInv, OneHandler, HandledIsHeld, CompletedWasHandled
<1>6. RowLocksExclusive'
  BY <1>1 DEF IInv, RowLocksExclusive
<1>7. LateUpdatesOutrun'
  BY <1>1, <1>4 DEF IInv, TypeOK, Updates, LateUpdatesOutrun
<1> QED
  BY <1>3, <1>5, <1>6, <1>7 DEF IInv

\* The claim takes effect, with or without an answer: nobody worked on the
\* job before, and the worker that does now holds it under its own name.
LEMMA TakeSteps ==
  ASSUME IInv, NEW w \in Workers, Claim(w) \/ ClaimUnacknowledged(w)
  PROVE  IInv'
<1>1. TakeJob(w) /\ at[w] = "updating"
  BY DEF Claim, ClaimUnacknowledged, TakeJob
<1>2. PICK j \in Jobs : held[w] = j
  BY <1>1, HeldIsJob
<1>3. /\ RowsOK'
      /\ job[j].status = "pending"
      /\ job'[j].status = "processing" /\ job'[j].lockedBy = WorkerId[w]
      /\ \A k \in Jobs \ {j} : job'[k] = job[k]
  BY <1>1, <1>2, TakeJobEffect
<1>4. /\ UNCHANGED <<late, succeeded>>
      /\ WorkersOK'
      /\ \A v \in Workers \ {w} : at'[v] = at[v] /\ held'[v] = held[v]
      /\ at'[w] \in {"handling", "resting"}
      /\ at'[w] = "handling" => held'[w] = j
  BY <1>2, QueueAssumption, TypeSplit
  DEF IInv, WorkersOK, Claim, ClaimUnacknowledged, TakeJob, Goto, Rest
<1>5. \A v \in Workers : ~Works(v, j)
  BY <1>3 DEF IInv, HandledIsHeld
<1>6. \A v \in Workers \ {w} : ~(at[v] = "updating" /\ held[v] = j)
  BY <1>1, <1>2 DEF IInv, RowLocksExclusive
<1>7. \A v \in Workers, k \in Jobs :
        Works(v, k)' => Works(v, k) \/ (v = w /\ k = j)
  BY <1>4 DEF Works
<1>8. TypeOK' /\ AttemptsAccounted'
  BY <1>3, <1>4, TypeAfterStep DEF IInv, TypeOK
<1>9. OneHandler'
  BY <1>5, <1>7 DEF IInv, OneHandler
<1>10. HandledIsHeld'
  BY <1>3, <1>5, <1>7 DEF IInv, HandledIsHeld
<1>11. CompletedWasHandled'
  BY <1>3, <1>4 DEF IInv, CompletedWasHandled
<1>12. RowLocksExclusive'
  BY <1>3, <1>4, <1>6, HeldIsJob DEF IInv, RowLocksExclusive
<1>13. LateUpdatesOutrun'
  <2>1. \A u \in late : u.job \in Jobs /\ (u.kind # "complete" => u.job # j)
    BY <1>3 DEF IInv, TypeOK, Updates, LateUpdatesOutrun
  <2> QED
    BY <1>3, <1>4, <1>7, <2>1 DEF IInv, LateUpdatesOutrun
<1> QED
  BY <1>8, <1>9, <1>10, <1>11, <1>12, <1>13 DEF IInv

\* An UPDATE breaks: if the server is left with it, it is the completion of a
\* success, or a failure whose worker is done with the job.
LEMMA BrokenUpdates ==
  ASSUME IInv, NEW w \in Workers, CompleteBreaks(w) \/ FailBreaks(w)
  PROVE  IInv'
<1>1. at[w] \in {"completing", "failing"}
  BY DEF CompleteBreaks, FailBreaks
<1>2. PICK j \in Jobs : held[w] = j
  BY <1>1, HeldIsJob
<1>3. /\ Works(w, j)
      /\ \/ job[j].status = "completed"
         \/ job[j].status = "processing" /\ job[j].lockedBy = WorkerId[w]
      /\ \A v \in Workers : Works(v, j) => v = w
  BY <1>1, <1>2 DEF IInv, Works, HandledIsHeld, OneHandler
<1>4. /\ UNCHANGED <<job, succeeded>>
      /\ WorkersOK'
      /\ \A v \in Workers \ {w} : at'[v] = at[v] /\ held'[v] = held[v]
  BY QueueAssumption, <1>2, TypeSplit
  DEF IInv, WorkersOK, CompleteBreaks, FailBreaks, Goto, Rest
<1>5. \A v \in Workers, k \in Jobs : Works(v, k)' => Works(v, k)
  BY <1>1, <1>2, <1>4 DEF Works, WorkersOK, IInv, TypeOK, CompleteBreaks, FailBreaks, Goto, Rest
<1>6. at'[w] \in {"failing", "resting"}
  BY DEF IInv, TypeOK, CompleteBreaks, FailBreaks, Goto, Rest
<1>7. PICK u \in Updates :
        /\ late' \subseteq late \cup {u}
        /\ u.job = j /\ u.by = WorkerId[w]
        /\ \/ u.kind = "complete" /\ at[w] = "completing"
           \/ u.kind = "fail" /\ at'[w] = "resting"
  <2>1. CASE CompleteBreaks(w)
    <3>1. Update("complete", w) \in Updates
      BY <1>2, QueueAssumption DEF Update, Updates
    <3> QED
      BY <1>2, <2>1, <3>1 DEF CompleteBreaks, LeaveBehind, Update
  <2>2. CASE FailBreaks(w)
    <3>1. Update("fail", w) \in Updates
      BY <1>2, QueueAssumption DEF Update, Updates
    <3> QED
      BY <1>2, <2>2, <3>1 DEF IInv, TypeOK, FailBreaks, LeaveBehind, Update, Goto, Rest
  <2> QED
    BY <2>1, <2>2
<1>8. TypeOK' /\ AttemptsAccounted'
  BY <1>4, <1>7, TableKept, TypeAfterStep DEF IInv, TypeOK
<1>9. OneHandler' /\ HandledIsHeld' /\ CompletedWasHandled'
  BY <1>4, <1>5 DEF IInv, OneHandler, HandledIsHeld, CompletedWasHandled
<1>10. RowLocksExclusive'
  BY <1>4, <1>6 DEF IInv, RowLocksExclusive
<1>11. LateUpdatesOutrun'
  <2>1. \A v \in Workers : at'[v] = "completing" => held'[v] \in succeeded
    BY <1>4, <1>6 DEF IInv, LateUpdatesOutrun
  <2>2. at'[w] = "resting" => ~Works(w, j)'
    BY DEF Works
  <2>3. ASSUME NEW t \in late', t # u PROVE t \in late /\ t.job \in Jobs
    BY <1>7, <2>3 DEF IInv, TypeOK, Updates
  <2>4. u.kind = "complete" => j \in succeeded
    BY <1>2, <1>7 DEF IInv, LateUpdatesOutrun
  <2>5. u.kind # "complete" => \A v \in Workers : ~Works(v, j)'
    BY <1>3, <1>5, <1>7, <2>2
  <2> QED
    BY <1>3, <1>4, <1>5, <1>7, <2>1, <2>3, <2>4, <2>5 DEF IInv, LateUpdatesOutrun
<1> QED
  BY <1>8, <1>9, <1>10, <1>11 DEF IInv

\* A worker records its outcome and lets go of the job.
LEMMA RecordSteps ==
  ASSUME IInv, NEW w \in Workers, Complete(w) \/ Fail(w)
  PROVE  IInv'
<1>1. at[w] \in {"completing", "failing"}
  BY DEF Complete, Fail
<1>2. PICK j \in Jobs : held[w] = j
  BY <1>1, HeldIsJob
<1>3. \A v \in Workers : Works(v, j) => v = w
  BY <1>1, <1>2 DEF IInv, Works, OneHandler
<1>4. PICK u \in Updates :
        /\ Execute(u)
        /\ u.job = j
        /\ \/ u.kind = "complete" /\ at[w] = "completing"
           \/ u.kind = "fail"
  <2>1. Update("complete", w) \in Updates /\ Update("fail", w) \in Updates
    BY <1>2, QueueAssumption DEF Update, Updates
  <2> QED
    BY <1>2, <2>1 DEF Complete, Fail, Update
<1>5. /\ RowsOK'
      /\ \A k \in Jobs \ {j} : job'[k] = job[k]
      /\ \/ job' = job
         \/ /\ job[j].status = "processing"
            /\ job'[j].status \in IF u.kind = "complete" THEN {"completed"}
                                  ELSE {"pending", "failed"}
  BY <1>4, ExecuteEffect
<1>6. /\ UNCHANGED <<mode, late, succeeded>>
      /\ WorkersOK'
      /\ \A v \in Workers \ {w} : at'[v] = at[v] /\ held'[v] = held[v]
      /\ at'[w] = "resting"
  BY QueueAssumption, TypeSplit DEF IInv, WorkersOK, Complete, Fail, Goto, Rest
<1>7. \A v \in Workers, k \in Jobs : Works(v, k)' => Works(v, k) /\ k # j
  BY <1>3, <1>6 DEF Works
<1>8. TypeOK' /\ AttemptsAccounted'
  BY <1>5, <1>6, TypeAfterStep DEF IInv, TypeOK
<1>9. OneHandler' /\ HandledIsHeld'
  BY <1>5, <1>7 DEF IInv, OneHandler, HandledIsHeld
<1>10. CompletedWasHandled'
  BY <1>2, <1>4, <1>5, <1>6 DEF IInv, CompletedWasHandled, LateUpdatesOutrun
<1>11. RowLocksExclusive'
  BY <1>5, <1>6, HeldIsJob DEF IInv, RowLocksExclusive
<1>12. LateUpdatesOutrun'
  <2>1. Works(w, j)
    BY <1>1, <1>2 DEF Works
  <2>2. \A t \in late : t.job \in Jobs /\ (t.kind # "complete" => t.job # j)
    BY <2>1 DEF IInv, TypeOK, Updates, LateUpdatesOutrun
  <2> QED
    BY <1>5, <1>6, <1>7, <2>2 DEF IInv, LateUpdatesOutrun
<1> QED
  BY <1>8, <1>9, <1>10, <1>11, <1>12 DEF IInv

\* The server executes an UPDATE that was left behind.
LEMMA LateStep ==
  ASSUME IInv, NEW u \in late, ExecuteLate(u)
  PROVE  IInv'
<1>1. u \in Updates /\ Execute(u)
  BY DEF IInv, TypeOK, ExecuteLate
<1>2. PICK j \in Jobs : u.job = j
  BY <1>1 DEF Updates
<1>3. /\ RowsOK'
      /\ \A k \in Jobs \ {j} : job'[k] = job[k]
      /\ \/ job' = job
         \/ /\ job[j].status = "processing"
            /\ job[j].lockedBy = u.by
            /\ job'[j].status \in IF u.kind = "complete" THEN {"completed"}
                                  ELSE {"pending", "failed"}
  BY <1>1, <1>2, ExecuteEffect
<1>4. UNCHANGED <<mode, at, held, succeeded>> /\ late' = late \ {u}
  BY DEF ExecuteLate
<1>5. \A v \in Workers, k \in Jobs : Works(v, k)' <=> Works(v, k)
  BY <1>4 DEF Works
<1>6. WorkersOK'
  BY <1>4, TypeSplit DEF IInv, WorkersOK
<1>7. TypeOK' /\ AttemptsAccounted'
  BY <1>3, <1>4, <1>6, TypeAfterStep DEF IInv, TypeOK
<1>8. OneHandler'
  BY <1>5 DEF IInv, OneHandler
<1>9. u.kind # "complete" => \A v \in Workers : ~Works(v, j)
  BY <1>2 DEF IInv, LateUpdatesOutrun
<1>10. HandledIsHeld'
  BY <1>3, <1>5, <1>9 DEF IInv, HandledIsHeld
<1>11. CompletedWasHandled'
  BY <1>2, <1>3, <1>4 DEF IInv, CompletedWasHandled, LateUpdatesOutrun
<1>12. RowLocksExclusive'
  BY <1>3, <1>4, HeldIsJob DEF IInv, RowLocksExclusive
<1>13. LateUpdatesOutrun'
  <2>1. \A w \in Workers : at'[w] = "completing" => held'[w] \in succeeded'
    BY <1>4 DEF IInv, LateUpdatesOutrun
  <2>2. ASSUME NEW t \in late' PROVE t \in late /\ t \in Updates /\ t.job \in Jobs /\ t # u
    BY <1>4, <2>2 DEF IInv, TypeOK, Updates
  <2>3. ASSUME NEW t \in late', t.kind # "complete", t.job = j, job'[j] # job[j]
        PROVE  job'[j].status = "completed"
    <3>1. t.by = u.by
      BY <1>3, <2>2, <2>3 DEF IInv, LateUpdatesOutrun
    <3>2. u.kind = "complete"
      BY <1>1, <1>2, <2>2, <2>3, <3>1 DEF Updates
    <3> QED
      BY <1>3, <2>3, <3>2
  <2> QED
    BY <1>3, <1>4, <1>5, <2>1, <2>2, <2>3 DEF IInv, LateUpdatesOutrun
<1> QED
  BY <1>7, <1>8, <1>10, <1>11, <1>12, <1>13 DEF IInv

\* Every step keeps the invariant.
LEMMA StepIInv == IInv /\ [Next]_vars => IInv'
<1> SUFFICES ASSUME IInv, [Next]_vars PROVE IInv'
  OBVIOUS
<1>1. CASE Work
  BY <1>1, TableSteps, IdleSteps, SelectStep, TakeSteps, HandlerSteps, RecordSteps,
     LifecycleSteps DEF Work, PollStep
<1>2. CASE Faults
  BY <1>2, IdleSteps, TakeSteps, BrokenUpdates, LifecycleSteps, LateStep DEF Faults
<1>3. CASE UNCHANGED vars
  <2>1. UNCHANGED <<job, mode, at, held, late, succeeded>>
    BY <1>3 DEF vars
  <2>2. TypeOK' /\ CompletedWasHandled' /\ AttemptsAccounted'
    BY <2>1 DEF IInv, TypeOK, CompletedWasHandled, AttemptsAccounted
  <2>3. OneHandler' /\ HandledIsHeld' /\ RowLocksExclusive' /\ LateUpdatesOutrun'
    BY <2>1 DEF IInv, OneHandler, HandledIsHeld, RowLocksExclusive, LateUpdatesOutrun, Works
  <2> QED
    BY <2>2, <2>3 DEF IInv
<1> QED
  BY <1>1, <1>2, <1>3 DEF Next
-----------------------------------------------------------------------------
\* The inductive invariant holds in every reachable state.
THEOREM Invariance == Spec => []IInv
BY InitIInv, StepIInv, PTL DEF Spec

\* The queue's variables always have the shape TypeOK gives them.
THEOREM TypeCorrectness == Spec => []TypeOK
<1>1. IInv => TypeOK
  BY DEF IInv
<1> QED
  BY <1>1, Invariance, PTL

\* Two workers never process the same job (ADR-0002), whatever crashes,
\* whichever names they share and whichever UPDATEs arrive late.
THEOREM MutualExclusion == Spec => []OneHandler
<1>1. IInv => OneHandler
  BY DEF IInv
<1> QED
  BY <1>1, Invariance, PTL

\* A job that is being handled is processing under its handler's name, or a
\* late completion of it got through.
THEOREM HandledJobsAreHeld == Spec => []HandledIsHeld
<1>1. IInv => HandledIsHeld
  BY DEF IInv
<1> QED
  BY <1>1, Invariance, PTL

\* No job is completed whose handler never resolved.
THEOREM CompletionIsEarned == Spec => []CompletedWasHandled
<1>1. IInv => CompletedWasHandled
  BY DEF IInv
<1> QED
  BY <1>1, Invariance, PTL

\* Attempts stay within max_attempts, a pending job has one left, and a job
\* fails for good only when it has none.
THEOREM AttemptsBounded == Spec => []AttemptsAccounted
<1>1. IInv => AttemptsAccounted
  BY DEF IInv
<1> QED
  BY <1>1, Invariance, PTL

\* No step takes a job out of 'completed' or 'failed'.
THEOREM OutcomesAreFinal == Spec => OutcomeIsFinal
<1>1. ASSUME IInv, [Next]_vars, NEW j \in Jobs, job[j].status \in {"completed", "failed"}
      PROVE  job'[j].status = job[j].status
  <2>1. CASE job' = job
    BY <2>1
  <2>2. ASSUME NEW k \in Jobs, Enqueue(k) \/ BecomeDue(k)
        PROVE  job'[j].status = job[j].status
    BY <1>1, <2>2 DEF IInv, TypeOK, Rows, Enqueue, BecomeDue
  <2>3. ASSUME NEW w \in Workers, TakeJob(w) PROVE job'[j].status = job[j].status
    BY <1>1, <2>3, TakeJobEffect
  <2>4. ASSUME NEW u \in Updates, Execute(u) PROVE job'[j].status = job[j].status
    BY <1>1, <2>4, ExecuteEffect
  <2>5. ASSUME NEW w \in Workers, Complete(w) \/ Fail(w)
        PROVE  \E u \in Updates : Execute(u)
    <3>1. held[w] \in Jobs
      BY <1>1, <2>5, HeldIsJob DEF Complete, Fail
    <3>2. Update("complete", w) \in Updates /\ Update("fail", w) \in Updates
      BY <3>1, QueueAssumption DEF Update, Updates
    <3> QED
      BY <2>5, <3>2 DEF Complete, Fail
  <2>6. ASSUME NEW u \in late, ExecuteLate(u) PROVE \E t \in Updates : Execute(t)
    BY <1>1, <2>6 DEF IInv, TypeOK, ExecuteLate
  <2>7. \/ job' = job
        \/ \E k \in Jobs : Enqueue(k) \/ BecomeDue(k)
        \/ \E w \in Workers : TakeJob(w) \/ Complete(w) \/ Fail(w)
        \/ \E u \in late : ExecuteLate(u)
    BY <1>1 DEF Next, Work, Faults, PollStep, vars, Poll, Select, NothingToClaim, Claim,
         HandlerResolves, HandlerRejects, Shutdown, StopPolling, Close, ClaimFails,
         ClaimUnacknowledged, CompleteBreaks, FailBreaks, HealthCloseFails, Crash, Restart
  <2> QED
    BY <2>1, <2>2, <2>3, <2>4, <2>5, <2>6, <2>7
<1>2. IInv /\ [Next]_vars =>
        [\A j \in Jobs :
           job[j].status \in {"completed", "failed"} => job'[j].status = job[j].status]_vars
  BY <1>1
<1> QED
  BY <1>2, Invariance, PTL DEF Spec, OutcomeIsFinal
-----------------------------------------------------------------------------
(* What holds as long as nothing breaks.                                    *)

\* Recording an outcome ends the processing of the job, and concerns no other.
LEMMA OutcomeEndsProcessing ==
  ASSUME IInv, NEW w \in Workers, Complete(w) \/ Fail(w)
  PROVE  /\ held[w] \in Jobs /\ job'[held[w]].status # "processing"
         /\ \A k \in Jobs \ {held[w]} : job'[k] = job[k]
         /\ at' = [at EXCEPT ![w] = "resting"] /\ held' = [held EXCEPT ![w] = NoJob]
<1>1. PICK u \in {Update("complete", w), Update("fail", w)} : Execute(u)
  BY DEF Complete, Fail
<1>2. /\ at[w] \in {"completing", "failing"}
      /\ at' = [at EXCEPT ![w] = "resting"] /\ held' = [held EXCEPT ![w] = NoJob]
  BY DEF Complete, Fail, Rest, Goto
<1>3. held[w] \in Jobs
  BY <1>2, HeldIsJob
<1>4. u.job = held[w] /\ u.by = WorkerId[w] /\ u \in Updates
  BY <1>1, <1>3, QueueAssumption DEF Update, Updates
<1>5. Works(w, held[w])
  BY <1>2 DEF Works
<1>6. \A k \in Jobs \ {held[w]} : job'[k] = job[k]
  BY <1>1, <1>4, ExecuteEffect
<1>7. ASSUME job[held[w]].status = "completed" PROVE job'[held[w]].status # "processing"
  <2>1. job'[u.job] = job[u.job] \/ job[u.job].status = "processing"
    BY <1>1, <1>3, <1>4, ExecuteEffect
  <2> QED
    BY <1>4, <1>7, <2>1
<1>8. ASSUME job[held[w]].lockedBy = WorkerId[w] PROVE job'[held[w]].status # "processing"
  <2>1. job' = [job EXCEPT ![held[w]] = IF u.kind = "complete" THEN CompletedRow(held[w])
                                        ELSE FailedRow(held[w])]
    BY <1>1, <1>4, <1>8 DEF Execute
  <2>2. job \in [Jobs -> Rows]
    BY DEF IInv, TypeOK
  <2>3. job'[held[w]] \in {CompletedRow(held[w]), FailedRow(held[w])}
    BY <1>3, <2>1, <2>2
  <2>4. /\ CompletedRow(held[w]).status = "completed"
        /\ FailedRow(held[w]).status \in {"failed", "pending"}
    BY <1>3, <2>2 DEF CompletedRow, FailedRow, Rows
  <2> QED
    BY <2>3, <2>4
<1>9. job[held[w]].status = "completed" \/ job[held[w]].lockedBy = WorkerId[w]
  BY <1>3, <1>5 DEF IInv, HandledIsHeld
<1> QED
  BY <1>2, <1>3, <1>6, <1>7, <1>8, <1>9

\* A step that keeps the processing jobs of others with those who work on them.
LEMMA WorkersStay ==
  ASSUME IInv, NothingStranded, NEW w \in Workers,
         \A v \in Workers \ {w} : at'[v] = at[v] /\ held'[v] = held[v],
         \A j \in Jobs : job'[j].status = "processing" =>
           \/ job[j].status = "processing" /\ ~Works(w, j)
           \/ Works(w, j)'
  PROVE  NothingStranded'
<1> SUFFICES ASSUME NEW j \in Jobs, job'[j].status = "processing"
             PROVE  \E v \in Workers : Works(v, j)'
  BY DEF NothingStranded
<1>1. CASE Works(w, j)'
  BY <1>1
<1>2. CASE job[j].status = "processing" /\ ~Works(w, j)
  <2>1. PICK v \in Workers \ {w} : Works(v, j)
    BY <1>2 DEF NothingStranded
  <2> QED
    BY <2>1 DEF Works
<1> QED
  BY <1>1, <1>2

\* A step of processes that do not crash leaves no job of a process that is down.
LEMMA StepNothingStranded == IInv /\ NothingStranded /\ [Work]_vars => NothingStranded'
<1> SUFFICES ASSUME IInv, NothingStranded, [Work]_vars PROVE NothingStranded'
  OBVIOUS
<1>1. /\ at \in [Workers -> {"resting", "claiming", "updating",
                             "handling", "completing", "failing"}]
      /\ held \in [Workers -> Jobs \cup {NoJob}] /\ job \in [Jobs -> Rows]
  BY DEF IInv, TypeOK
\* Rows of other statuses change, or none.
<1>2. ASSUME UNCHANGED <<at, held>>,
             \A j \in Jobs : job'[j].status = "processing" => job[j].status = "processing"
      PROVE  NothingStranded'
  BY <1>2 DEF NothingStranded, Works
<1>3. ASSUME NEW j \in Jobs, Enqueue(j) \/ BecomeDue(j) PROVE NothingStranded'
  <2>1. UNCHANGED <<at, held>>
    BY <1>3 DEF Enqueue, BecomeDue
  <2>2. \A k \in Jobs : job'[k].status = "processing" => job[k].status = "processing"
    BY <1>1, <1>3 DEF Enqueue, BecomeDue, Rows
  <2> QED
    BY <1>2, <2>1, <2>2
\* A poll goes on that has no job before, or keeps the one it works on.
<1>4. ASSUME NEW w \in Workers,
             \/ Poll(w) \/ NothingToClaim(w) \/ \E j \in Jobs : Select(w, j)
             \/ HandlerResolves(w) \/ HandlerRejects(w)
      PROVE  NothingStranded'
  <2>1. job' = job /\ \A v \in Workers \ {w} : at'[v] = at[v] /\ held'[v] = held[v]
    BY <1>1, <1>4 DEF Poll, NothingToClaim, Select, HandlerResolves, HandlerRejects, Goto, Rest
  <2>2. \A j \in Jobs : Works(w, j) => Works(w, j)'
    BY <1>1, <1>4 DEF Poll, NothingToClaim, Select, HandlerResolves, HandlerRejects, Goto, Rest, Works
  <2> QED
    BY <2>1, <2>2, WorkersStay
<1>5. ASSUME NEW w \in Workers, Claim(w) PROVE NothingStranded'
  <2>1. /\ at' = [at EXCEPT ![w] = "handling"] /\ held' = [held EXCEPT ![w] = held[w]]
        /\ at[w] = "updating" /\ TakeJob(w)
    BY <1>5 DEF Claim, TakeJob, Goto
  <2>2. held[w] \in Jobs /\ \A k \in Jobs \ {held[w]} : job'[k] = job[k]
    BY <2>1, TakeJobEffect
  <2>3. Works(w, held[w])' /\ \A j \in Jobs : ~Works(w, j)
    BY <1>1, <2>1 DEF Works
  <2>4. \A v \in Workers \ {w} : at'[v] = at[v] /\ held'[v] = held[v]
    BY <1>1, <2>1
  <2>5. \A j \in Jobs : job'[j].status = "processing" =>
          \/ job[j].status = "processing" /\ ~Works(w, j)
          \/ Works(w, j)'
    <3> TAKE j \in Jobs
    <3>1. CASE j = held[w]
      BY <1>1, <2>1, <3>1 DEF Works
    <3>2. CASE j # held[w]
      BY <2>2, <2>3, <3>2
    <3> QED
      BY <3>1, <3>2
  <2> QED
    BY <2>4, <2>5, WorkersStay
<1>6. ASSUME NEW w \in Workers, Complete(w) \/ Fail(w) PROVE NothingStranded'
  <2>1. /\ held[w] \in Jobs /\ job'[held[w]].status # "processing"
        /\ \A k \in Jobs \ {held[w]} : job'[k] = job[k]
        /\ at' = [at EXCEPT ![w] = "resting"] /\ held' = [held EXCEPT ![w] = NoJob]
    BY <1>6, OutcomeEndsProcessing
  <2>2. \A v \in Workers \ {w} : at'[v] = at[v] /\ held'[v] = held[v]
    BY <1>1, <2>1
  <2>3. \A j \in Jobs : job'[j].status = "processing" =>
          job[j].status = "processing" /\ ~Works(w, j)
    BY <2>1 DEF Works
  <2> QED
    BY <2>2, <2>3, WorkersStay
<1>7. ASSUME NEW w \in Workers, Shutdown(w) \/ StopPolling(w) \/ Close(w) PROVE NothingStranded'
  BY <1>2, <1>7 DEF Shutdown, StopPolling, Close
<1>8. CASE UNCHANGED vars
  BY <1>2, <1>8 DEF vars
<1> QED
  BY <1>3, <1>4, <1>5, <1>6, <1>7, <1>8 DEF Work, PollStep

\* As long as nothing breaks, a job that is marked processing has a worker that is at it,
\* whatever is polled, retried and shut down meanwhile.
THEOREM NothingIsStranded == CalmSpec => []NothingStranded
<1>1. Init => NothingStranded
  BY DEF Init, NothingStranded
<1>2. [Work]_vars => [Next]_vars
  BY DEF Next
<1>3. IInv /\ NothingStranded /\ [Work]_vars => (IInv /\ NothingStranded)'
  BY <1>2, StepIInv, StepNothingStranded
<1> QED
  BY <1>1, <1>3, InitIInv, PTL DEF CalmSpec
-----------------------------------------------------------------------------
(* The queue implements JobLifecycle.                                       *)

\* How the table appears in JobLifecycle when one row changes.
LEMMA RowBars ==
  ASSUME NEW j \in Jobs, \A k \in Jobs \ {j} : job'[k] = job[k]
  PROVE  /\ statusBar' = [statusBar EXCEPT ![j] = job'[j].status]
         /\ attemptsBar' = [attemptsBar EXCEPT ![j] = job'[j].attempts]
BY DEF statusBar, attemptsBar

\* The same when the row changes its status only.
LEMMA StatusBar ==
  ASSUME NEW j \in Jobs, \A k \in Jobs \ {j} : job'[k] = job[k],
         job'[j].attempts = job[j].attempts
  PROVE  /\ statusBar' = [statusBar EXCEPT ![j] = job'[j].status]
         /\ attemptsBar' = attemptsBar
BY DEF statusBar, attemptsBar

\* A step of one worker concerns no job but the one it works on, or comes to.
LEMMA HandlersBar ==
  ASSUME IInv, NEW w \in Workers, NEW j \in Jobs,
         \A v \in Workers \ {w} : at'[v] = at[v] /\ held'[v] = held[v],
         \A k \in Jobs \ {j} : ~Works(w, k) /\ ~Works(w, k)'
  PROVE  handlersBar' = [handlersBar EXCEPT ![j] = {v \in Workers : Works(v, j)'}]
<1>1. ASSUME NEW k \in Jobs \ {j}, NEW v \in Workers PROVE Works(v, k)' <=> Works(v, k)
  <2>1. CASE v = w
    BY <1>1, <2>1
  <2>2. CASE v # w
    BY <2>2 DEF Works
  <2> QED
    BY <2>1, <2>2
<1> QED
  BY <1>1 DEF handlersBar

\* A worker whose poll is in no place to work on a job before or after its step.
LEMMA HandlersStay ==
  ASSUME \A v \in Workers, j \in Jobs : Works(v, j)' <=> Works(v, j)
  PROVE  handlersBar' = handlersBar
BY DEF handlersBar

\* The worker that ends its poll was the only one at its job.
LEMMA NobodyLeft ==
  ASSUME IInv, NEW w \in Workers, NEW j \in Jobs, Works(w, j),
         at' = [at EXCEPT ![w] = "resting"], held' = [held EXCEPT ![w] = NoJob]
  PROVE  /\ handlersBar[j] # {}
         /\ handlersBar' = [handlersBar EXCEPT ![j] = {}]
<1>1. /\ at \in [Workers -> {"resting", "claiming", "updating",
                             "handling", "completing", "failing"}]
      /\ held \in [Workers -> Jobs \cup {NoJob}]
  BY DEF IInv, TypeOK
<1>2. \A v \in Workers \ {w} : at'[v] = at[v] /\ held'[v] = held[v]
  BY <1>1
<1>3. \A k \in Jobs : ~Works(w, k)'
  BY <1>1 DEF Works
<1>4. \A k \in Jobs \ {j} : ~Works(w, k)
  BY DEF Works
<1>5. \A v \in Workers : ~Works(v, j)'
  <2>1. \A v \in Workers \ {w} : ~Works(v, j)
    BY DEF IInv, OneHandler
  <2> QED
    BY <1>2, <1>3, <2>1 DEF Works
<1>6. handlersBar' = [handlersBar EXCEPT ![j] = {v \in Workers : Works(v, j)'}]
  BY <1>2, <1>3, <1>4, HandlersBar
<1>7. {v \in Workers : Works(v, j)'} = {}
  BY <1>5
<1>8. w \in handlersBar[j]
  BY DEF handlersBar
<1> QED
  BY <1>6, <1>7, <1>8

\* The claim is the abstract one, whether or not its worker hears of it.
LEMMA TakeIsTake ==
  ASSUME IInv, NEW w \in Workers, Claim(w) \/ ClaimUnacknowledged(w)
  PROVE  \E j \in Jobs : Life!Take(j)
<1>1. /\ TakeJob(w) /\ at[w] = "updating" /\ succeeded' = succeeded
      /\ \/ at' = [at EXCEPT ![w] = "handling"] /\ held' = [held EXCEPT ![w] = held[w]]
         \/ at' = [at EXCEPT ![w] = "resting"] /\ held' = [held EXCEPT ![w] = NoJob]
  BY DEF Claim, ClaimUnacknowledged, TakeJob, Rest, Goto
<1>2. PICK j \in Jobs : held[w] = j
  BY <1>1, HeldIsJob
<1>3. /\ job \in [Jobs -> Rows] /\ MaxAttempts[j] \in Nat
      /\ at \in [Workers -> {"resting", "claiming", "updating",
                             "handling", "completing", "failing"}]
      /\ held \in [Workers -> Jobs \cup {NoJob}]
  BY QueueAssumption DEF IInv, TypeOK
<1>4. /\ job[j].status = "pending" /\ job'[j].status = "processing"
      /\ \A k \in Jobs \ {j} : job'[k] = job[k]
  BY <1>1, <1>2, TakeJobEffect
<1>5. job'[j].attempts = job[j].attempts + 1
  BY <1>1, <1>2, <1>3 DEF TakeJob, Rows
<1>6. job[j].attempts < MaxAttempts[j]
  BY <1>4 DEF IInv, AttemptsAccounted
<1>7. \A v \in Workers : ~Works(v, j)
  BY <1>4 DEF IInv, HandledIsHeld
<1>8. \A v \in Workers \ {w} : at'[v] = at[v] /\ held'[v] = held[v]
  BY <1>1, <1>3
<1>9. \A k \in Jobs \ {j} : ~Works(w, k) /\ ~Works(w, k)'
  BY <1>1, <1>2, <1>3 DEF Works
<1>10. handlersBar' = [handlersBar EXCEPT ![j] = {v \in Workers : Works(v, j)'}]
  BY <1>8, <1>9, HandlersBar
<1>11. {v \in Workers : Works(v, j)'} \in {{}} \cup {{v} : v \in Workers}
  <2>1. \A v \in Workers \ {w} : ~Works(v, j)'
    BY <1>7, <1>8 DEF Works
  <2>2. {v \in Workers : Works(v, j)'} = {} \/ {v \in Workers : Works(v, j)'} = {w}
    BY <2>1
  <2> QED
    BY <2>2
<1>12. statusBar[j] = "pending" /\ attemptsBar[j] = job[j].attempts /\ handlersBar[j] = {}
  BY <1>4, <1>7 DEF statusBar, attemptsBar, handlersBar
<1>13. /\ statusBar' = [statusBar EXCEPT ![j] = "processing"]
       /\ attemptsBar' = [attemptsBar EXCEPT ![j] = @ + 1]
  BY <1>4, <1>5, <1>12, RowBars
<1>14. Life!Take(j)
  BY <1>1, <1>6, <1>10, <1>11, <1>12, <1>13 DEF Life!Take
<1> QED
  BY <1>14

\* What an UPDATE makes of the row, in the words of JobLifecycle.
LEMMA ExecuteBars ==
  ASSUME IInv, NEW u \in Updates, Execute(u)
  PROVE  /\ u.job \in Jobs
         /\ \/ UNCHANGED <<statusBar, attemptsBar>>
            \/ /\ statusBar[u.job] = "processing"
               /\ attemptsBar' = attemptsBar
               /\ statusBar' = [statusBar EXCEPT ![u.job] =
                    IF u.kind = "complete" THEN "completed"
                    ELSE IF attemptsBar[u.job] < MaxAttempts[u.job] THEN "pending"
                    ELSE "failed"]
<1>1. PICK j \in Jobs : u.job = j
  BY DEF Updates
<1>2. job \in [Jobs -> Rows] /\ MaxAttempts[j] \in Nat
  BY QueueAssumption DEF IInv, TypeOK
<1>3. \A k \in Jobs \ {j} : job'[k] = job[k]
  BY <1>1, ExecuteEffect
<1>4. CASE job' = job
  BY <1>1, <1>4 DEF statusBar, attemptsBar
<1>5. CASE job' # job
  <2>1. job[j].status = "processing"
    BY <1>1, <1>5, ExecuteEffect
  <2>2. job' = [job EXCEPT ![j] = IF u.kind = "complete" THEN CompletedRow(j) ELSE FailedRow(j)]
    BY <1>1, <1>5 DEF Execute
  <2>3. job'[j] = IF u.kind = "complete" THEN CompletedRow(j) ELSE FailedRow(j)
    BY <1>2, <2>2
  <2>4. /\ CompletedRow(j).status = "completed"
        /\ CompletedRow(j).attempts = job[j].attempts
        /\ FailedRow(j).status = IF Exhausted(j) THEN "failed" ELSE "pending"
        /\ FailedRow(j).attempts = job[j].attempts
    BY <1>2 DEF CompletedRow, FailedRow, Rows
  <2>5. Exhausted(j) <=> ~(job[j].attempts < MaxAttempts[j])
    BY <1>2 DEF Exhausted, Rows
  <2>6. statusBar[j] = "processing" /\ attemptsBar[j] = job[j].attempts
    BY <2>1 DEF statusBar, attemptsBar
  <2>7. /\ statusBar' = [statusBar EXCEPT ![j] = job'[j].status]
        /\ attemptsBar' = attemptsBar
    BY <1>3, <2>3, <2>4, StatusBar
  <2>8. job'[j].status = IF u.kind = "complete" THEN "completed"
                         ELSE IF attemptsBar[j] < MaxAttempts[j] THEN "pending" ELSE "failed"
    BY <2>3, <2>4, <2>5, <2>6
  <2> QED
    BY <1>1, <2>6, <2>7, <2>8
<1> QED
  BY <1>4, <1>5

\* The worker records the outcome of the job it worked on, and turns to the next.
LEMMA RecordIsOutcome ==
  ASSUME IInv, NEW w \in Workers, Complete(w) \/ Fail(w)
  PROVE  \E j \in Jobs : Life!Complete(j) \/ Life!GiveBack(j) \/ Life!Leave(j)
<1>1. /\ at[w] \in {"completing", "failing"} /\ succeeded' = succeeded
      /\ at' = [at EXCEPT ![w] = "resting"] /\ held' = [held EXCEPT ![w] = NoJob]
  BY DEF Complete, Fail, Rest, Goto
<1>2. PICK j \in Jobs : held[w] = j
  BY <1>1, HeldIsJob
<1>3. PICK u \in Updates : /\ Execute(u) /\ u.job = j
                           /\ u.kind = "complete" => at[w] = "completing"
  BY <1>2, QueueAssumption DEF Complete, Fail, Update, Updates
<1>4. Works(w, j)
  BY <1>1, <1>2 DEF Works
<1>5. handlersBar[j] # {} /\ handlersBar' = [handlersBar EXCEPT ![j] = {}]
  BY <1>1, <1>4, NobodyLeft
<1>6. u.kind = "complete" => j \in succeeded
  BY <1>2, <1>3 DEF IInv, LateUpdatesOutrun
<1>7. CASE UNCHANGED <<statusBar, attemptsBar>>
  BY <1>1, <1>5, <1>7 DEF Life!Leave
<1>8. CASE ~UNCHANGED <<statusBar, attemptsBar>>
  <2>1. /\ statusBar[j] = "processing" /\ attemptsBar' = attemptsBar
        /\ statusBar' = [statusBar EXCEPT ![j] =
             IF u.kind = "complete" THEN "completed"
             ELSE IF attemptsBar[j] < MaxAttempts[j] THEN "pending" ELSE "failed"]
    BY <1>3, <1>8, ExecuteBars
  <2>2. u.kind = "complete" => Life!Complete(j)
    BY <1>1, <1>5, <1>6, <2>1 DEF Life!Complete
  <2>3. u.kind # "complete" => Life!GiveBack(j)
    BY <1>1, <1>5, <2>1 DEF Life!GiveBack
  <2> QED
    BY <2>2, <2>3
<1> QED
  BY <1>7, <1>8

\* An UPDATE that arrives late completes a job that had succeeded, gives back one
\* that nobody works on, or finds that it came too late.
LEMMA LateIsOutcome ==
  ASSUME IInv, NEW u \in late, ExecuteLate(u)
  PROVE  \/ \E j \in Jobs : Life!Complete(j) \/ Life!GiveBack(j)
         \/ UNCHANGED Life!vars
<1>1. u \in Updates /\ Execute(u) /\ UNCHANGED <<at, held, succeeded>>
  BY DEF IInv, TypeOK, ExecuteLate
<1>2. PICK j \in Jobs : u.job = j
  BY <1>1 DEF Updates
<1>3. handlersBar' = handlersBar
  BY <1>1, HandlersStay DEF Works
<1>4. CASE UNCHANGED <<statusBar, attemptsBar>>
  BY <1>1, <1>3, <1>4 DEF Life!vars
<1>5. CASE ~UNCHANGED <<statusBar, attemptsBar>>
  <2>1. /\ statusBar[j] = "processing" /\ attemptsBar' = attemptsBar
        /\ statusBar' = [statusBar EXCEPT ![j] =
             IF u.kind = "complete" THEN "completed"
             ELSE IF attemptsBar[j] < MaxAttempts[j] THEN "pending" ELSE "failed"]
    BY <1>1, <1>2, <1>5, ExecuteBars
  <2>2. CASE u.kind = "complete"
    <3>1. j \in succeeded
      BY <1>2, <2>2 DEF IInv, LateUpdatesOutrun
    <3> QED
      BY <1>1, <1>3, <2>1, <2>2, <3>1 DEF Life!Complete
  <2>3. CASE u.kind # "complete"
    <3>1. \A v \in Workers : ~Works(v, j)
      BY <1>2, <2>3 DEF IInv, LateUpdatesOutrun
    <3>2. handlersBar' = [handlersBar EXCEPT ![j] = {}]
      BY <1>3, <3>1 DEF handlersBar
    <3> QED
      BY <1>1, <2>1, <2>3, <3>2 DEF Life!GiveBack
  <2> QED
    BY <2>2, <2>3
<1> QED
  BY <1>4, <1>5

\* Steps that JobLifecycle does not tell apart from no step: the row of no job
\* changes, and whoever worked on a job does so afterwards.
LEMMA SilentSteps ==
  ASSUME IInv,
         \/ \E j \in Jobs : BecomeDue(j)
         \/ \E w \in Workers :
              \/ Poll(w) \/ NothingToClaim(w) \/ ClaimFails(w) \/ HandlerRejects(w)
              \/ CompleteBreaks(w) \/ Shutdown(w) \/ StopPolling(w) \/ Close(w)
              \/ HealthCloseFails(w) \/ Restart(w) \/ \E j \in Jobs : Select(w, j)
  PROVE  UNCHANGED Life!vars
<1>1. /\ job \in [Jobs -> Rows]
      /\ at \in [Workers -> {"resting", "claiming", "updating",
                             "handling", "completing", "failing"}]
      /\ held \in [Workers -> Jobs \cup {NoJob}]
      /\ NoJob \notin Jobs
  BY QueueAssumption DEF IInv, TypeOK
<1>2. ASSUME job' = job, succeeded' = succeeded, NEW w \in Workers,
             \A v \in Workers \ {w} : at'[v] = at[v] /\ held'[v] = held[v],
             \A j \in Jobs : Works(w, j)' <=> Works(w, j)
      PROVE  UNCHANGED Life!vars
  <2>1. \A v \in Workers, j \in Jobs : Works(v, j)' <=> Works(v, j)
    <3> TAKE v \in Workers, j \in Jobs
    <3> QED
      BY <1>2 DEF Works
  <2>2. handlersBar' = handlersBar
    BY <2>1, HandlersStay
  <2> QED
    BY <1>2, <2>2 DEF Life!vars, statusBar, attemptsBar
<1>3. ASSUME NEW j \in Jobs, BecomeDue(j) PROVE UNCHANGED Life!vars
  <2>1. /\ \A k \in Jobs : job'[k].status = job[k].status /\ job'[k].attempts = job[k].attempts
        /\ UNCHANGED <<at, held, succeeded>>
    BY <1>1, <1>3 DEF BecomeDue, Rows
  <2> QED
    BY <2>1 DEF Life!vars, statusBar, attemptsBar, handlersBar, Works
<1>4. ASSUME NEW w \in Workers,
             \/ Poll(w) \/ NothingToClaim(w) \/ ClaimFails(w)
             \/ \E j \in Jobs : Select(w, j)
      PROVE  UNCHANGED Life!vars
  <2>1. /\ UNCHANGED <<job, succeeded>>
        /\ \A v \in Workers \ {w} : at'[v] = at[v] /\ held'[v] = held[v]
        /\ at[w] \in {"resting", "claiming", "updating"}
        /\ at'[w] \in {"resting", "claiming", "updating"}
    BY <1>1, <1>4 DEF Poll, NothingToClaim, ClaimFails, Select, Goto, Rest
  <2>2. \A j \in Jobs : Works(w, j)' <=> Works(w, j)
    BY <2>1 DEF Works
  <2> QED
    BY <1>2, <2>1, <2>2
<1>5. ASSUME NEW w \in Workers, HandlerRejects(w) \/ CompleteBreaks(w)
      PROVE  UNCHANGED Life!vars
  <2>1. /\ UNCHANGED <<job, succeeded>>
        /\ \A v \in Workers \ {w} : at'[v] = at[v] /\ held'[v] = held[v]
        /\ at[w] \in {"handling", "completing"} /\ at'[w] = "failing"
        /\ held'[w] = held[w]
    BY <1>1, <1>5 DEF HandlerRejects, CompleteBreaks, Goto
  <2>2. \A j \in Jobs : Works(w, j)' <=> Works(w, j)
    BY <2>1 DEF Works
  <2> QED
    BY <1>2, <2>1, <2>2
<1>6. ASSUME NEW w \in Workers,
             Shutdown(w) \/ StopPolling(w) \/ Close(w) \/ HealthCloseFails(w) \/ Restart(w)
      PROVE  UNCHANGED Life!vars
  <2>1. UNCHANGED <<job, at, held, succeeded>>
    BY <1>6 DEF Shutdown, StopPolling, Close, HealthCloseFails, Restart
  <2> QED
    BY <2>1 DEF Life!vars, statusBar, attemptsBar, handlersBar, Works
<1> QED
  BY <1>3, <1>4, <1>5, <1>6

\* The steps that JobLifecycle knows: a job arrives, its handler resolves, its
\* worker is gone.
LEMMA VisibleSteps ==
  ASSUME IInv,
         \/ \E j \in Jobs : Enqueue(j)
         \/ \E w \in Workers : HandlerResolves(w) \/ FailBreaks(w) \/ Crash(w)
  PROVE  [Life!Next]_(Life!vars)
<1>1. /\ job \in [Jobs -> Rows]
      /\ at \in [Workers -> {"resting", "claiming", "updating",
                             "handling", "completing", "failing"}]
      /\ held \in [Workers -> Jobs \cup {NoJob}]
      /\ NoJob \notin Jobs
  BY QueueAssumption DEF IInv, TypeOK
<1>2. ASSUME NEW j \in Jobs, Enqueue(j) PROVE Life!Enqueue(j)
  <2>1. /\ \A k \in Jobs \ {j} : job'[k] = job[k]
        /\ job[j].status = "absent" /\ job'[j].status = "pending"
        /\ job'[j].attempts = job[j].attempts
        /\ UNCHANGED <<at, held, succeeded>>
    BY <1>1, <1>2 DEF Enqueue, Rows
  <2>2. /\ statusBar' = [statusBar EXCEPT ![j] = "pending"] /\ attemptsBar' = attemptsBar
    BY <2>1, StatusBar
  <2>3. statusBar[j] = "absent" /\ handlersBar' = handlersBar
    BY <2>1 DEF statusBar, handlersBar, Works
  <2> QED
    BY <2>1, <2>2, <2>3 DEF Life!Enqueue
<1>3. ASSUME NEW w \in Workers, HandlerResolves(w)
      PROVE  \E j \in Jobs : Life!Resolve(j)
  <2>1. /\ at[w] = "handling" /\ held[w] \notin Unknown
        /\ at' = [at EXCEPT ![w] = "completing"] /\ held' = [held EXCEPT ![w] = held[w]]
        /\ succeeded' = succeeded \cup {held[w]} /\ job' = job
    BY <1>3 DEF HandlerResolves, Goto
  <2>2. PICK j \in Jobs : held[w] = j
    BY <2>1, HeldIsJob
  <2>3. \A v \in Workers, k \in Jobs : Works(v, k)' <=> Works(v, k)
    BY <1>1, <2>1 DEF Works
  <2>4. handlersBar' = handlersBar
    BY <2>3, HandlersStay
  <2>5. w \in handlersBar[j]
    BY <2>1, <2>2 DEF handlersBar, Works
  <2>6. Life!Resolve(j)
    BY <2>1, <2>2, <2>4, <2>5 DEF Life!Resolve, statusBar, attemptsBar
  <2> QED
    BY <2>6
<1>4. ASSUME NEW w \in Workers, FailBreaks(w) \/ Crash(w) PROVE [Life!Next]_(Life!vars)
  <2>1. /\ UNCHANGED <<job, succeeded>>
        /\ at' = [at EXCEPT ![w] = "resting"] /\ held' = [held EXCEPT ![w] = NoJob]
    BY <1>4 DEF FailBreaks, Crash, Rest, Goto
  <2>2. statusBar' = statusBar /\ attemptsBar' = attemptsBar
    BY <2>1 DEF statusBar, attemptsBar
  <2>3. ASSUME NEW j \in Jobs, Works(w, j) PROVE Life!Leave(j)
    BY <2>1, <2>2, <2>3, NobodyLeft DEF Life!Leave
  <2>4. ASSUME \A j \in Jobs : ~Works(w, j) PROVE UNCHANGED Life!vars
    <3>1. \A v \in Workers, j \in Jobs : Works(v, j)' <=> Works(v, j)
      BY <1>1, <2>1, <2>4 DEF Works
    <3> QED
      BY <2>1, <2>2, <3>1, HandlersStay DEF Life!vars
  <2> QED
    BY <2>3, <2>4 DEF Life!Next
<1> QED
  BY <1>2, <1>3, <1>4 DEF Life!Next

\* Every step of the queue is a step of the life of a job, or none.
LEMMA LifeStep ==
  ASSUME IInv, [Next]_vars
  PROVE  [Life!Next]_(Life!vars)
<1>1. CASE UNCHANGED vars
  BY <1>1 DEF vars, Life!vars, statusBar, attemptsBar, handlersBar, Works
<1>2. ASSUME NEW w \in Workers, Claim(w) \/ ClaimUnacknowledged(w)
      PROVE  Life!Next
  BY <1>2, TakeIsTake DEF Life!Next
<1>3. ASSUME NEW w \in Workers, Complete(w) \/ Fail(w)
      PROVE  Life!Next
  BY <1>3, RecordIsOutcome DEF Life!Next
<1>4. ASSUME NEW u \in late, ExecuteLate(u)
      PROVE  [Life!Next]_(Life!vars)
  BY <1>4, LateIsOutcome DEF Life!Next
<1>5. CASE Work
  BY <1>2, <1>3, <1>5, SilentSteps, VisibleSteps DEF Work, PollStep
<1>6. CASE Faults
  BY <1>2, <1>4, <1>6, SilentSteps, VisibleSteps DEF Faults
<1> QED
  BY <1>1, <1>5, <1>6 DEF Next

\* The queue keeps the promise of ADR-0002: a claim finds nobody at work and uses
\* up an attempt, only a job that succeeded is completed, a job is given back when
\* nobody works on it any more, and an outcome is final; for any number of jobs and
\* workers, and with every crash and broken connection.
THEOREM QueueImplementsLifecycle == Spec => ImplementsJobLifecycle
<1>1. Init => Life!Init
  BY DEF Init, Life!Init, statusBar, attemptsBar, handlersBar, Works
<1>2. IInv /\ [Next]_vars => [Life!Next]_(Life!vars)
  BY LifeStep
<1> QED
  BY Invariance, <1>1, <1>2, PTL DEF Spec, Life!Spec, ImplementsJobLifecycle

-----------------------------------------------------------------------------
(* What the promise that a success is not recorded as a failure hinges on.  *)

\* No answer to complete() is ever lost.
NoCompleteBreaks == [][\A w \in Workers : ~CompleteBreaks(w)]_vars

\* A job that succeeded is completed, or only its completion is still to come.
SuccessKept ==
  \A j \in succeeded :
    \/ job[j].status = "completed"
    \/ /\ job[j].status = "processing"
       /\ \A w \in Workers : Works(w, j) => at[w] = "completing"
       /\ \A u \in late : u.job = j => u.kind = "complete"

\* A step that brings no job that succeeded out of its status, gives it no worker
\* and leaves no UPDATE of it behind.
LEMMA SuccessStays ==
  ASSUME SuccessKept, succeeded' = succeeded,
         \A j \in succeeded : job'[j].status \in {job[j].status, "completed"},
         \A j \in succeeded, w \in Workers :
           Works(w, j)' => Works(w, j) /\ at'[w] = at[w],
         \A u \in late', j \in succeeded :
           u.job = j /\ job[j].status = "processing" => u \in late
  PROVE  SuccessKept'
<1> SUFFICES ASSUME NEW j \in succeeded, job'[j].status # "completed"
             PROVE  /\ job'[j].status = "processing"
                    /\ \A w \in Workers : Works(w, j)' => at'[w] = "completing"
                    /\ \A u \in late' : u.job = j => u.kind = "complete"
  BY DEF SuccessKept
<1>1. job'[j].status = "processing" /\ job[j].status = "processing"
  BY DEF SuccessKept
<1>2. /\ \A w \in Workers : Works(w, j) => at[w] = "completing"
      /\ \A u \in late : u.job = j => u.kind = "complete"
  BY <1>1 DEF SuccessKept
<1> QED
  BY <1>1, <1>2

\* The steps of a poll other than those that record an outcome.
LEMMA PollKeepsSuccess ==
  ASSUME IInv, SuccessKept, NEW w \in Workers,
         \/ Poll(w) \/ NothingToClaim(w) \/ ClaimFails(w) \/ Crash(w)
         \/ \E j \in Jobs : Select(w, j)
         \/ Claim(w) \/ ClaimUnacknowledged(w) \/ HandlerRejects(w)
  PROVE  SuccessKept'
<1>1. /\ at \in [Workers -> {"resting", "claiming", "updating",
                             "handling", "completing", "failing"}]
      /\ held \in [Workers -> Jobs \cup {NoJob}]
      /\ succeeded \subseteq Jobs /\ NoJob \notin Jobs
  BY QueueAssumption DEF IInv, TypeOK
<1>2. UNCHANGED <<late, succeeded>> /\ \A v \in Workers \ {w} : at'[v] = at[v] /\ held'[v] = held[v]
  BY <1>1 DEF Poll, NothingToClaim, ClaimFails, Crash, Select, Claim, ClaimUnacknowledged,
              HandlerRejects, Goto, Rest
<1>3. CASE \/ Poll(w) \/ NothingToClaim(w) \/ ClaimFails(w) \/ Crash(w)
           \/ \E j \in Jobs : Select(w, j)
  <2>1. job' = job /\ at'[w] \in {"resting", "claiming", "updating"}
    BY <1>1, <1>3 DEF Poll, NothingToClaim, ClaimFails, Crash, Select, Goto, Rest
  <2>2. \A j \in succeeded, v \in Workers : Works(v, j)' => Works(v, j) /\ at'[v] = at[v]
    BY <1>2, <2>1 DEF Works
  <2> QED
    BY <1>2, <2>1, <2>2, SuccessStays
<1>4. CASE Claim(w) \/ ClaimUnacknowledged(w)
  <2>1. TakeJob(w) /\ at'[w] \in {"handling", "resting"} /\ held'[w] \in {held[w], NoJob}
    BY <1>1, <1>4 DEF Claim, ClaimUnacknowledged, TakeJob, Goto, Rest
  <2>2. /\ held[w] \in Jobs /\ job[held[w]].status = "pending"
        /\ \A k \in Jobs \ {held[w]} : job'[k] = job[k]
    BY <2>1, TakeJobEffect
  <2>3. held[w] \notin succeeded
    BY <2>2 DEF SuccessKept
  <2>4. \A j \in succeeded : ~Works(w, j)'
    BY <1>1, <2>1, <2>3 DEF Works
  <2>5. \A j \in succeeded, v \in Workers : Works(v, j)' => Works(v, j) /\ at'[v] = at[v]
    BY <1>2, <2>4 DEF Works
  <2>6. \A j \in succeeded : job'[j] = job[j]
    BY <1>1, <2>2, <2>3
  <2> QED
    BY <1>2, <2>5, <2>6, SuccessStays
<1>5. CASE HandlerRejects(w)
  <2>1. job' = job /\ at[w] = "handling" /\ at'[w] = "failing" /\ held'[w] = held[w]
    BY <1>1, <1>5 DEF HandlerRejects, Goto
  <2>2. ASSUME NEW j \in succeeded, job[j].status # "completed"
        PROVE  /\ job'[j].status = "processing"
               /\ \A v \in Workers : Works(v, j)' => at'[v] = "completing"
               /\ \A u \in late' : u.job = j => u.kind = "complete"
    <3>1. ~Works(w, j)
      BY <2>1, <2>2 DEF SuccessKept
    <3>2. \A v \in Workers : Works(v, j)' => Works(v, j) /\ at'[v] = at[v]
      BY <1>2, <2>1, <3>1 DEF Works
    <3> QED
      BY <1>2, <2>1, <2>2, <3>2 DEF SuccessKept
  <2> QED
    BY <1>2, <2>1, <2>2 DEF SuccessKept
<1> QED
  BY <1>3, <1>4, <1>5

\* The steps that write an outcome, or try to.
LEMMA RecordKeepsSuccess ==
  ASSUME IInv, SuccessKept, NEW w \in Workers, Complete(w) \/ Fail(w) \/ FailBreaks(w)
  PROVE  SuccessKept'
<1>1. /\ at[w] \in {"completing", "failing"} /\ succeeded' = succeeded
      /\ at' = [at EXCEPT ![w] = "resting"] /\ held' = [held EXCEPT ![w] = NoJob]
  BY DEF Complete, Fail, FailBreaks, Rest, Goto
<1>2. /\ at \in [Workers -> {"resting", "claiming", "updating",
                             "handling", "completing", "failing"}]
      /\ held \in [Workers -> Jobs \cup {NoJob}]
      /\ succeeded \subseteq Jobs /\ NoJob \notin Jobs
  BY QueueAssumption DEF IInv, TypeOK
<1>3. PICK j \in Jobs : held[w] = j
  BY <1>1, HeldIsJob
<1>4. \A k \in succeeded, v \in Workers : Works(v, k)' => Works(v, k) /\ at'[v] = at[v]
  BY <1>1, <1>2 DEF Works
<1>5. at[w] = "failing" /\ j \in succeeded => job[j].status = "completed"
  BY <1>3 DEF SuccessKept, Works
<1>6. CASE FailBreaks(w)
  <2>1. /\ at[w] = "failing" /\ job' = job
        /\ \A u \in late' : u \in late \/ u.job = j
    BY <1>3, <1>6 DEF FailBreaks, LeaveBehind, Update
  <2>2. \A u \in late', k \in succeeded : u.job = k /\ job[k].status = "processing" => u \in late
    BY <1>5, <2>1
  <2> QED
    BY <1>1, <1>4, <2>1, <2>2, SuccessStays
<1>7. CASE Complete(w) \/ Fail(w)
  <2>1. PICK u \in Updates : /\ Execute(u) /\ u.job = j
                             /\ u.kind = "complete" \/ at[w] = "failing"
    BY <1>3, <1>7, QueueAssumption DEF Complete, Fail, Update, Updates
  <2>2. late' = late
    BY <1>7 DEF Complete, Fail
  <2>3. \A k \in Jobs \ {j} : job'[k] = job[k]
    BY <2>1, ExecuteEffect
  <2>4. j \in succeeded => job'[j].status \in {job[j].status, "completed"}
    BY <1>5, <2>1, ExecuteEffect
  <2>5. \A k \in succeeded : job'[k].status \in {job[k].status, "completed"}
    BY <1>2, <2>3, <2>4
  <2> QED
    BY <1>1, <1>4, <2>2, <2>5, SuccessStays
<1> QED
  BY <1>6, <1>7

\* An UPDATE that arrives late is a completion, or not of a job that succeeded and
\* is not completed yet.
LEMMA LateKeepsSuccess ==
  ASSUME IInv, SuccessKept, NEW u \in late, ExecuteLate(u)
  PROVE  SuccessKept'
<1>1. u \in Updates /\ Execute(u) /\ UNCHANGED <<at, held, succeeded>> /\ late' \subseteq late
  BY DEF IInv, TypeOK, ExecuteLate
<1>2. u.job \in succeeded => job[u.job].status = "completed" \/ u.kind = "complete"
  BY DEF SuccessKept
<1>3. /\ \A k \in Jobs \ {u.job} : job'[k] = job[k]
      /\ \/ job' = job
         \/ /\ job[u.job].status = "processing"
            /\ job'[u.job].status \in IF u.kind = "complete" THEN {"completed"}
                                      ELSE {"pending", "failed"}
  BY <1>1, ExecuteEffect
<1>4. \A k \in succeeded : job'[k].status \in {job[k].status, "completed"}
  BY <1>2, <1>3 DEF IInv, TypeOK
<1>5. \A k \in succeeded, v \in Workers : Works(v, k)' => Works(v, k) /\ at'[v] = at[v]
  BY <1>1 DEF Works
<1> QED
  BY <1>1, <1>4, <1>5, SuccessStays

\* A handler resolves: its worker is alone at the job, and no failure of it is on
\* the way.
LEMMA ResolveKeepsSuccess ==
  ASSUME IInv, SuccessKept, NEW w \in Workers, HandlerResolves(w)
  PROVE  SuccessKept'
<1>1. /\ at[w] = "handling" /\ at' = [at EXCEPT ![w] = "completing"]
      /\ held' = [held EXCEPT ![w] = held[w]]
      /\ succeeded' = succeeded \cup {held[w]} /\ UNCHANGED <<job, late>>
  BY DEF HandlerResolves, Goto
<1>2. PICK j \in Jobs : held[w] = j
  BY <1>1, HeldIsJob
<1>3. /\ held' = held /\ at'[w] = "completing"
      /\ \A v \in Workers \ {w} : at'[v] = at[v]
  BY <1>1 DEF IInv, TypeOK
<1>4. Works(w, j) /\ \A v \in Workers, k \in Jobs : Works(v, k)' <=> Works(v, k)
  BY <1>1, <1>2, <1>3 DEF Works
<1>5. job[j].status \in {"processing", "completed"} /\ \A v \in Workers : Works(v, j) => v = w
  BY <1>4 DEF IInv, HandledIsHeld, OneHandler
<1>6. \A u \in late : u.job = j => u.kind = "complete"
  BY <1>4 DEF IInv, LateUpdatesOutrun
<1>7. ASSUME NEW k \in succeeded', job'[k].status # "completed"
      PROVE  /\ job'[k].status = "processing"
             /\ \A v \in Workers : Works(v, k)' => at'[v] = "completing"
             /\ \A u \in late' : u.job = k => u.kind = "complete"
  <2>1. CASE k = j
    BY <1>1, <1>3, <1>4, <1>5, <1>6, <1>7, <2>1
  <2>2. CASE k # j
    <3>1. k \in succeeded /\ k \in Jobs
      BY <1>1, <1>2, <2>2 DEF IInv, TypeOK
    <3>2. \A v \in Workers : Works(v, k)' => Works(v, k) /\ at'[v] = at[v]
      BY <1>2, <1>3, <1>4, <2>2, <3>1 DEF Works
    <3> QED
      BY <1>1, <1>7, <3>1, <3>2 DEF SuccessKept
  <2> QED
    BY <2>1, <2>2
<1> QED
  BY <1>7 DEF SuccessKept

\* No step loses a success, unless it is complete() that breaks.
LEMMA StepSuccessKept ==
  ASSUME IInv, SuccessKept, [Next]_vars, [\A w \in Workers : ~CompleteBreaks(w)]_vars
  PROVE  SuccessKept'
<1>1. ASSUME UNCHANGED <<at, held, late, succeeded>>,
             \A j \in Jobs : job[j].status \in {"processing", "completed"}
               => job'[j].status = job[j].status
      PROVE  SuccessKept'
  <2>1. \A j \in succeeded : job'[j].status = job[j].status
    BY <1>1 DEF IInv, TypeOK, SuccessKept
  <2>2. \A j \in succeeded, v \in Workers : Works(v, j)' => Works(v, j) /\ at'[v] = at[v]
    BY <1>1 DEF Works
  <2> QED
    BY <1>1, <2>1, <2>2, SuccessStays
<1>2. ASSUME NEW j \in Jobs, Enqueue(j) \/ BecomeDue(j) PROVE SuccessKept'
  BY <1>1, <1>2 DEF IInv, TypeOK, Enqueue, BecomeDue, Rows
<1>3. ASSUME NEW w \in Workers,
             Shutdown(w) \/ StopPolling(w) \/ Close(w) \/ HealthCloseFails(w) \/ Restart(w)
      PROVE  SuccessKept'
  BY <1>1, <1>3 DEF Shutdown, StopPolling, Close, HealthCloseFails, Restart
<1>4. CASE UNCHANGED vars
  BY <1>1, <1>4 DEF vars
<1>5. ASSUME NEW w \in Workers, CompleteBreaks(w) PROVE UNCHANGED vars
  BY <1>5
<1>6. CASE Work
  BY <1>2, <1>3, <1>6, PollKeepsSuccess, RecordKeepsSuccess, ResolveKeepsSuccess
  DEF Work, PollStep
<1>7. CASE Faults
  BY <1>3, <1>4, <1>5, <1>7, PollKeepsSuccess, RecordKeepsSuccess, LateKeepsSuccess DEF Faults
<1> QED
  BY <1>4, <1>6, <1>7 DEF Next

\* The promise that the run queue_outcome sees broken hinges on one fault alone: as
\* long as no answer to complete() is lost, a job whose handler resolved is never
\* recorded as failed, whatever crashes, restarts and arrives late otherwise.
THEOREM SuccessIsRecorded == Spec /\ NoCompleteBreaks => []FailedNeverSucceeded
<1>1. Init => SuccessKept
  BY DEF Init, SuccessKept
<1>2. /\ IInv /\ SuccessKept /\ [Next]_vars /\ [\A w \in Workers : ~CompleteBreaks(w)]_vars
      => (IInv /\ SuccessKept)'
  BY StepIInv, StepSuccessKept
<1>3. SuccessKept => FailedNeverSucceeded
  BY DEF SuccessKept, FailedNeverSucceeded
<1> QED
  BY <1>1, <1>2, <1>3, InitIInv, PTL DEF Spec, NoCompleteBreaks
=============================================================================
