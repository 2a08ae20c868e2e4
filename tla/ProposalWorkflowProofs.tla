----------------------- MODULE ProposalWorkflowProofs -----------------------
(***************************************************************************)
(* Proofs about ProposalWorkflow, for any clients, commands and subjects.  *)
(***************************************************************************)
EXTENDS ProposalWorkflow, FiniteSetTheorems, TLAPS

\* What kind of thing a command is about.
LEMMA CommandSubjects ==
  ASSUME NEW e \in AllCommands
  PROVE  /\ e.type = "RequiredApproversDeclared" => e.of \subseteq Approvers
         /\ e.type \in {"ApprovalRecorded", "ApprovalWithdrawn"} => e.of \in Approvers
         /\ e.type \in {"BlockingObjectionRaised", "BlockingObjectionResolved"} => e.of \in Entries
         /\ e.type = "ContractVersionPublished" => e.of \in Versions
BY DEF AllCommands, Plain

\* The flags are a set of known facts.
LEMMA EstablishesFacts ==
  ASSUME NEW type
  PROVE  Establishes(type) \subseteq Facts
BY DEF Establishes, Facts

\* The fields of the folded state have their types.
LEMMA ProposalFields ==
  ASSUME NEW p \in Proposals
  PROVE  /\ p.phase \in {"draft", "opened", "closed"}
         /\ p.facts \subseteq Facts
         /\ p.outcome \in {"none", "completed", "rejected", "withdrawn"}
         /\ p.objections \in Nat
         /\ p.required \subseteq Approvers
         /\ p.given \subseteq Approvers
         /\ p.readiness \in [Consumers -> {"unknown", "ready", "not ready"}]
         /\ p.work \in [Items -> {"none", "open", "done"}]
BY DEF Proposals

\* changeProposalState yields a state, in which no flag is lost; only the
\* event of a completion makes the outcome 'completed'.
LEMMA FoldStateTyped ==
  ASSUME NEW p \in Proposals, NEW e \in AllCommands
  PROVE  /\ FoldState(p, e) \in Proposals
         /\ p.facts \subseteq FoldState(p, e).facts
         /\ FoldState(p, e).outcome = "completed"
              => p.outcome = "completed" \/ e.type = "ChangeProposalCompleted"
<1> DEFINE facts == p.facts \cup Establishes(e.type)
           phase == CASE e.type = "ChangeProposalOpened" -> "opened"
                      [] e.type \in Closing -> "closed"
                      [] OTHER -> p.phase
           outcome == CASE e.type = "ChangeProposalCompleted" -> "completed"
                        [] e.type = "ChangeProposalRejected" -> "rejected"
                        [] e.type = "ChangeProposalWithdrawn" -> "withdrawn"
                        [] OTHER -> p.outcome
           objections == CASE e.type = "BlockingObjectionRaised" -> p.objections + 1
                           [] e.type = "BlockingObjectionResolved"
                                -> IF p.objections > 0 THEN p.objections - 1 ELSE 0
                           [] OTHER -> p.objections
<1>1. facts \subseteq Facts
  BY EstablishesFacts, ProposalFields
<1>2. phase \in {"draft", "opened", "closed"}
  BY ProposalFields
<1>3. /\ outcome \in {"none", "completed", "rejected", "withdrawn"}
      /\ outcome = "completed" => p.outcome = "completed" \/ e.type = "ChangeProposalCompleted"
  BY ProposalFields
<1>4. objections \in Nat
  <2>1. p.objections \in Nat
    BY ProposalFields
  <2>2. p.objections > 0 => p.objections - 1 \in Nat
    BY <2>1
  <2> QED
    BY <2>1, <2>2
<1>5. FoldState(p, e) = [p EXCEPT !.facts = facts, !.phase = phase, !.outcome = outcome,
                                  !.objections = objections]
  BY DEF FoldState, Proposals
<1> HIDE DEF facts, phase, outcome, objections
<1>6. /\ FoldState(p, e) \in Proposals
      /\ FoldState(p, e).facts = facts
      /\ FoldState(p, e).outcome = outcome
  BY <1>1, <1>2, <1>3, <1>4, <1>5 DEF Proposals
<1>7. p.facts \subseteq facts
  BY DEF facts
<1> QED
  BY <1>3, <1>6, <1>7

\* The approvals touch neither the flags nor the outcome.
LEMMA FoldApprovalsTyped ==
  ASSUME NEW p \in Proposals, NEW e \in AllCommands
  PROVE  /\ FoldApprovals(p, e) \in Proposals
         /\ FoldApprovals(p, e).facts = p.facts
         /\ FoldApprovals(p, e).outcome = p.outcome
<1> DEFINE required == IF e.type = "RequiredApproversDeclared" THEN e.of ELSE p.required
           given == CASE e.type = "ApprovalRecorded" -> p.given \cup {e.of}
                      [] e.type = "ApprovalWithdrawn" -> p.given \ {e.of}
                      [] OTHER -> p.given
<1>1. required \subseteq Approvers
  BY CommandSubjects, ProposalFields
<1>2. given \subseteq Approvers
  BY CommandSubjects, ProposalFields
<1>3. FoldApprovals(p, e) = [p EXCEPT !.required = required, !.given = given]
  BY DEF FoldApprovals, Proposals
<1> HIDE DEF required, given
<1> QED
  BY <1>1, <1>2, <1>3 DEF Proposals

\* Nor does the readiness of the consumers.
LEMMA FoldReadinessTyped ==
  ASSUME NEW p \in Proposals, NEW e
  PROVE  /\ FoldReadiness(p, e) \in Proposals
         /\ FoldReadiness(p, e).facts = p.facts
         /\ FoldReadiness(p, e).outcome = p.outcome
<1> DEFINE readiness == [k \in Consumers |->
             CASE e.type = "ConsumerDeclaredReady" /\ k = e.of -> "ready"
               [] e.type = "ConsumerDeclaredNotReady" /\ k = e.of -> "not ready"
               [] e.type = "ConsumerMigrationAcknowledged" /\ k = e.of
                    /\ p.readiness[k] = "unknown" -> "not ready"
               [] OTHER -> p.readiness[k]]
<1>1. readiness \in [Consumers -> {"unknown", "ready", "not ready"}]
  BY ProposalFields
<1>2. FoldReadiness(p, e) = [p EXCEPT !.readiness = readiness]
  BY DEF FoldReadiness, Proposals
<1> HIDE DEF readiness
<1> QED
  BY <1>1, <1>2 DEF Proposals

\* Nor do the work items.
LEMMA FoldWorkTyped ==
  ASSUME NEW p \in Proposals, NEW e
  PROVE  /\ FoldWork(p, e) \in Proposals
         /\ FoldWork(p, e).facts = p.facts
         /\ FoldWork(p, e).outcome = p.outcome
<1> DEFINE work == [i \in Items |->
             CASE e.type = "ProposalWorkItemCreated" /\ i = e.of -> "open"
               [] e.type = "ProposalWorkItemCompleted" /\ i = e.of /\ p.work[i] # "none"
                    -> "done"
               [] OTHER -> p.work[i]]
<1>1. work \in [Items -> {"none", "open", "done"}]
  BY ProposalFields
<1>2. FoldWork(p, e) = [p EXCEPT !.work = work]
  BY DEF FoldWork, Proposals
<1> HIDE DEF work
<1> QED
  BY <1>1, <1>2 DEF Proposals

\* What an event does to the projections taken together.
LEMMA FoldTyped ==
  ASSUME NEW p \in Proposals, NEW e \in AllCommands
  PROVE  /\ Fold(p, e) \in Proposals
         /\ p.facts \subseteq Fold(p, e).facts
         /\ Fold(p, e).outcome = "completed"
              => p.outcome = "completed" \/ e.type = "ChangeProposalCompleted"
<1> DEFINE s == FoldState(p, e)
           a == FoldApprovals(s, e)
           r == FoldReadiness(a, e)
<1>1. s \in Proposals
  BY FoldStateTyped
<1>2. a \in Proposals /\ a.facts = s.facts /\ a.outcome = s.outcome
  BY <1>1, FoldApprovalsTyped
<1>3. r \in Proposals /\ r.facts = a.facts /\ r.outcome = a.outcome
  BY <1>2, FoldReadinessTyped
<1>4. Fold(p, e) \in Proposals /\ Fold(p, e).facts = r.facts /\ Fold(p, e).outcome = r.outcome
  BY <1>3, FoldWorkTyped DEF Fold
<1> QED
  BY <1>2, <1>3, <1>4, FoldStateTyped
-----------------------------------------------------------------------------
\* No command reads the ledger more than three times for its guards.
LEMMA ReadsBounded == ASSUME NEW e PROVE Reads(e) \in 0 .. 3
BY DEF Reads

\* A command in flight is one of those callers issue.
LEMMA CommandInFlight ==
  ASSUME TypeOK, NEW c \in Clients, pc[c] # "idle"
  PROVE  cmd[c] \in Commands /\ cmd[c] \in AllCommands /\ passed[c] \in Nat
BY WorkflowAssumption DEF TypeOK

\* The invariant holds on the empty ledger.
LEMMA InitIInv == Init => IInv
<1> SUFFICES ASSUME Init PROVE IInv
  OBVIOUS
<1>1. proposal \in Proposals
  BY DEF Init, NoEvents, Proposals
<1>2. TypeOK
  BY <1>1, WorkflowAssumption DEF Init, TypeOK
<1> QED
  BY <1>2 DEF Init, IInv, LastingVerdicts, CurrentVerdicts, LastingVerdict, CurrentVerdict

\* What a client knows stays true while the ledger and the client stay as
\* they are.
LEMMA KnowledgeKept ==
  ASSUME IInv, UNCHANGED <<proposal, published>>, NEW d \in Clients,
         cmd'[d] = cmd[d], pc'[d] = pc[d], passed'[d] = passed[d],
         d \in outrun => d \in outrun'
  PROVE  LastingVerdict(d)' /\ CurrentVerdict(d)'
<1>1. LastingVerdict(d) /\ CurrentVerdict(d)
  BY DEF IInv, LastingVerdicts, CurrentVerdicts
<1>2. LastingVerdict(d)'
  BY <1>1 DEF LastingVerdict
<1>3. CurrentVerdict(d)'
  BY <1>1 DEF CurrentVerdict, Holds, MayAccept, MayComplete, MayPublish, Opened,
              ApprovalsSatisfied
<1> QED
  BY <1>2, <1>3

\* A client at rest knows nothing.
LEMMA NothingKnown ==
  ASSUME NEW d \in Clients, pc'[d] = "idle"
  PROVE  LastingVerdict(d)' /\ CurrentVerdict(d)'
BY DEF LastingVerdict, CurrentVerdict

\* The steps that leave the ledger alone and end the command.
LEMMA LeavingSteps ==
  ASSUME IInv, NEW c \in Clients, Refuse(c) \/ Conflict(c) \/ Fail(c)
  PROVE  IInv'
<1>1. /\ UNCHANGED <<proposal, published, unresolved>>
      /\ cmd' = [cmd EXCEPT ![c] = NoCommand]
      /\ pc' = [pc EXCEPT ![c] = "idle"]
      /\ passed' = [passed EXCEPT ![c] = 0]
      /\ behind' \subseteq behind /\ outrun' = outrun \ {c}
  BY DEF Refuse, Conflict, Fail, Leave
<1>2. TypeOK'
  BY <1>1, WorkflowAssumption DEF IInv, TypeOK
<1>3. \A d \in Clients : LastingVerdict(d)' /\ CurrentVerdict(d)'
  <2>1. LastingVerdict(c)' /\ CurrentVerdict(c)'
    BY <1>1, NothingKnown DEF IInv, TypeOK
  <2>2. ASSUME NEW d \in Clients, d # c PROVE LastingVerdict(d)' /\ CurrentVerdict(d)'
    BY <1>1, <2>2, KnowledgeKept DEF IInv, TypeOK
  <2> QED
    BY <2>1, <2>2
<1> QED
  BY <1>2, <1>3 DEF IInv, LastingVerdicts, CurrentVerdicts

\* A command begins with nothing read.
LEMMA BeginStep ==
  ASSUME IInv, NEW c \in Clients, NEW e \in Commands, Begin(c, e)
  PROVE  IInv'
<1>1. /\ UNCHANGED <<proposal, published, unresolved, passed, behind, outrun>>
      /\ cmd' = [cmd EXCEPT ![c] = e]
      /\ pc' = [pc EXCEPT ![c] = "checking"]
      /\ pc[c] = "idle" /\ passed[c] = 0
  BY DEF Begin, IInv, TypeOK
<1>2. TypeOK'
  <2>1. Reads(e) \in 0 .. 3
    BY ReadsBounded
  <2> QED
    BY <1>1, <2>1, WorkflowAssumption DEF IInv, TypeOK
<1>3. \A d \in Clients : LastingVerdict(d)' /\ CurrentVerdict(d)'
  <2>1. passed'[c] = 0
    BY <1>1
  <2>2. LastingVerdict(c)' /\ CurrentVerdict(c)'
    BY <2>1 DEF LastingVerdict, CurrentVerdict
  <2>3. ASSUME NEW d \in Clients, d # c PROVE LastingVerdict(d)' /\ CurrentVerdict(d)'
    BY <1>1, <2>3, KnowledgeKept DEF IInv, TypeOK
  <2> QED
    BY <2>2, <2>3
<1> QED
  BY <1>2, <1>3 DEF IInv, LastingVerdicts, CurrentVerdicts

\* Reading the version adds no verdict.
LEMMA ReadVersionStep ==
  ASSUME IInv, NEW c \in Clients, ReadVersion(c)
  PROVE  IInv'
<1>1. /\ UNCHANGED <<proposal, published, unresolved, cmd, passed, behind, outrun>>
      /\ pc' = [pc EXCEPT ![c] = "appending"]
      /\ pc[c] = "checking" /\ passed[c] = Reads(cmd[c])
  BY DEF ReadVersion
<1>2. TypeOK'
  BY <1>1 DEF IInv, TypeOK
<1>3. LastingVerdict(c)' /\ CurrentVerdict(c)'
  <2>1. LastingVerdict(c) /\ CurrentVerdict(c)
    BY DEF IInv, LastingVerdicts, CurrentVerdicts
  <2>2. LastingVerdict(c)'
    BY <1>1, <2>1 DEF LastingVerdict
  <2>3. CurrentVerdict(c)'
    BY <1>1, <2>1 DEF CurrentVerdict, Holds, MayAccept, MayComplete, MayPublish, Opened,
                      ApprovalsSatisfied
  <2> QED
    BY <2>2, <2>3
<1>4. ASSUME NEW d \in Clients, d # c PROVE LastingVerdict(d)' /\ CurrentVerdict(d)'
  BY <1>1, <1>4, KnowledgeKept DEF IInv, TypeOK
<1> QED
  BY <1>2, <1>3, <1>4 DEF IInv, LastingVerdicts, CurrentVerdicts

\* A read adds the verdict its guard has just given.
LEMMA PassGuardStep ==
  ASSUME IInv, NEW c \in Clients, PassGuard(c)
  PROVE  IInv'
<1>1. /\ UNCHANGED <<proposal, published, unresolved, cmd, pc, behind, outrun>>
      /\ passed' = [passed EXCEPT ![c] = @ + 1]
      /\ pc[c] = "checking" /\ passed[c] < Reads(cmd[c])
      /\ Holds(cmd[c], passed[c] + 1)
  BY DEF PassGuard
<1>2. passed[c] \in Nat /\ Reads(cmd[c]) \in 0 .. 3
  BY ReadsBounded DEF IInv, TypeOK
<1>3. passed'[c] = passed[c] + 1
  BY <1>1 DEF IInv, TypeOK
<1>4. TypeOK'
  BY <1>1, <1>2, <1>3 DEF IInv, TypeOK
<1>5. LastingVerdict(c) /\ CurrentVerdict(c)
  BY DEF IInv, LastingVerdicts, CurrentVerdicts
<1>6. LastingVerdict(c)'
  <2>1. cmd[c].type = "ChangeProposalCompleted" /\ passed[c] = 0
          => CompletionFacts \subseteq proposal.facts
    BY <1>1 DEF Holds, MayComplete
  <2>2. cmd[c].type = "ContractVersionPublished" /\ passed[c] = 1
          => "accepted" \in proposal.facts
    BY <1>1 DEF Holds, MayPublish
  <2> QED
    BY <1>1, <1>2, <1>3, <1>5, <2>1, <2>2 DEF LastingVerdict
<1>7. CurrentVerdict(c)'
  <2>1. c \notin outrun => \A read \in 1 .. (passed[c] + 1) : Holds(cmd[c], read)
    <3>1. \A read \in 1 .. (passed[c] + 1) : read \in 1 .. passed[c] \/ read = passed[c] + 1
      BY <1>2
    <3> QED
      BY <1>1, <1>5, <3>1 DEF CurrentVerdict
  <2>2. c \notin outrun => \A read \in 1 .. passed'[c] : Holds(cmd[c], read)
    BY <1>3, <2>1
  <2>3. \A read : Holds(cmd[c], read) => Holds(cmd[c], read)'
    BY <1>1 DEF Holds, MayAccept, MayComplete, MayPublish, Opened, ApprovalsSatisfied
  <2> QED
    BY <1>1, <2>2, <2>3 DEF CurrentVerdict
<1>8. ASSUME NEW d \in Clients, d # c PROVE LastingVerdict(d)' /\ CurrentVerdict(d)'
  BY <1>1, <1>8, KnowledgeKept DEF IInv, TypeOK
<1> QED
  BY <1>4, <1>6, <1>7, <1>8 DEF IInv, LastingVerdicts, CurrentVerdicts

\* An event joins the ledger: no flag is lost, and a proposal is completed
\* by the event of a completion only.
LEMMA RecordEffect ==
  ASSUME IInv, NEW e \in AllCommands, Record(e)
  PROVE  /\ proposal' \in Proposals
         /\ published' \in [Versions -> Nat]
         /\ unresolved' \subseteq Entries
         /\ proposal.facts \subseteq proposal'.facts
         /\ proposal'.outcome = "completed"
              => proposal.outcome = "completed" \/ e.type = "ChangeProposalCompleted"
<1>1. proposal \in Proposals /\ published \in [Versions -> Nat] /\ unresolved \subseteq Entries
  BY DEF IInv, TypeOK
<1>2. unresolved' \subseteq Entries
  BY <1>1, CommandSubjects DEF Record
<1>3. CASE e.type = "ContractVersionPublished"
  <2>1. proposal' = proposal /\ published' = [published EXCEPT ![e.of] = @ + 1]
    BY <1>3 DEF Record
  <2>2. published' \in [Versions -> Nat]
    <3>1. e.of \in Versions
      BY <1>3, CommandSubjects
    <3> QED
      BY <1>1, <2>1, <3>1
  <2> QED
    BY <1>1, <1>2, <2>1, <2>2
<1>4. CASE e.type # "ContractVersionPublished"
  <2>1. proposal' = Fold(proposal, e) /\ published' = published
    BY <1>4 DEF Record
  <2> QED
    BY <1>1, <1>2, <2>1, FoldTyped
<1> QED
  BY <1>3, <1>4

\* After an append only the lasting verdicts of the others are known to hold.
LEMMA AppendStep ==
  ASSUME IInv, NEW c \in Clients, Append(c)
  PROVE  IInv'
<1>1. /\ Record(cmd[c]) /\ pc[c] = "appending"
      /\ cmd' = [cmd EXCEPT ![c] = NoCommand]
      /\ pc' = [pc EXCEPT ![c] = "idle"]
      /\ passed' = [passed EXCEPT ![c] = 0]
      /\ behind' \subseteq Clients /\ outrun' \subseteq Clients
      /\ \A d \in Clients \ {c} : passed[d] > 0 => d \in outrun'
  BY DEF Append, Leave
<1>2. PICK e \in AllCommands : e = cmd[c]
  BY <1>1, CommandInFlight DEF IInv
<1>3. /\ proposal' \in Proposals /\ published' \in [Versions -> Nat]
      /\ unresolved' \subseteq Entries /\ proposal.facts \subseteq proposal'.facts
  BY <1>1, <1>2, RecordEffect
<1>4. TypeOK'
  BY <1>1, <1>3, WorkflowAssumption DEF IInv, TypeOK
<1>5. LastingVerdict(c)' /\ CurrentVerdict(c)'
  BY <1>1, NothingKnown DEF IInv, TypeOK
<1>6. ASSUME NEW d \in Clients, d # c PROVE LastingVerdict(d)' /\ CurrentVerdict(d)'
  <2>1. cmd'[d] = cmd[d] /\ pc'[d] = pc[d] /\ passed'[d] = passed[d] /\ passed[d] \in Nat
    BY <1>1, <1>6 DEF IInv, TypeOK
  <2>2. LastingVerdict(d)
    BY DEF IInv, LastingVerdicts
  <2>3. LastingVerdict(d)'
    BY <1>3, <2>1, <2>2 DEF LastingVerdict
  <2>4. d \notin outrun' => passed'[d] = 0
    BY <1>1, <1>6, <2>1
  <2>5. CurrentVerdict(d)'
    BY <2>4 DEF CurrentVerdict
  <2> QED
    BY <2>3, <2>5
<1> QED
  BY <1>4, <1>5, <1>6 DEF IInv, LastingVerdicts, CurrentVerdicts

\* Every step keeps the invariant.
LEMMA StepIInv == IInv /\ [Next]_vars => IInv'
<1> SUFFICES ASSUME IInv, [Next]_vars PROVE IInv'
  OBVIOUS
<1>1. ASSUME NEW c \in Clients, Step(c) PROVE IInv'
  BY <1>1, BeginStep, PassGuardStep, ReadVersionStep, AppendStep, LeavingSteps DEF Step
<1>2. CASE UNCHANGED vars
  <2>1. UNCHANGED <<proposal, published, unresolved, cmd, pc, passed, behind, outrun>>
    BY <1>2 DEF vars
  <2>2. TypeOK'
    BY <2>1 DEF IInv, TypeOK
  <2>3. \A d \in Clients : LastingVerdict(d)' /\ CurrentVerdict(d)'
    BY <2>1, KnowledgeKept
  <2> QED
    BY <2>2, <2>3 DEF IInv, LastingVerdicts, CurrentVerdicts
<1> QED
  BY <1>1, <1>2 DEF Next
-----------------------------------------------------------------------------
\* The inductive invariant holds in every reachable state.
THEOREM Invariance == Spec => []IInv
BY InitIInv, StepIInv, PTL DEF Spec

\* The workflow's variables always have the shape TypeOK gives them.
THEOREM TypeCorrectness == Spec => []TypeOK
<1>1. IInv => TypeOK
  BY DEF IInv
<1> QED
  BY <1>1, Invariance, PTL

\* What a command has found to be established, and that nothing takes back, is still so
\* when it appends, whoever else wrote in between.
THEOREM EstablishedStaysEstablished == Spec => []LastingVerdicts
<1>1. IInv => LastingVerdicts
  BY DEF IInv
<1> QED
  BY <1>1, Invariance, PTL

\* The verdict of a command on what it read holds until somebody else appends.
THEOREM VerdictsHoldUntilOutrun == Spec => []CurrentVerdicts
<1>1. IInv => CurrentVerdicts
  BY DEF IInv
<1> QED
  BY <1>1, Invariance, PTL

\* INV-002 and INV-006, for any number of concurrent clients: a proposal is
\* completed only when all six facts are on record.
THEOREM CompletionIsComplete == Spec => CompletedOnlyWhenDone
<1>1. ASSUME IInv, [Next]_vars,
             proposal'.outcome = "completed", proposal.outcome # "completed"
      PROVE  CompletionFacts \subseteq proposal.facts
  <2>1. proposal' # proposal
    BY <1>1
  <2>2. PICK c \in Clients : Append(c)
    BY <1>1, <2>1 DEF Next, Step, vars, Begin, PassGuard, Refuse, ReadVersion, Conflict, Fail
  <2>3. pc[c] = "appending" /\ Record(cmd[c])
    BY <2>2 DEF Append
  <2>4. PICK e \in AllCommands : e = cmd[c]
    BY <1>1, <2>3, CommandInFlight DEF IInv
  <2>5. e.type = "ChangeProposalCompleted"
    BY <1>1, <2>3, <2>4, RecordEffect
  <2>6. passed[c] = 2
    BY <1>1, <2>3, <2>4, <2>5 DEF IInv, TypeOK, Reads
  <2> QED
    BY <1>1, <2>3, <2>4, <2>5, <2>6 DEF IInv, LastingVerdicts, LastingVerdict
<1>2. IInv /\ [Next]_vars =>
        [proposal'.outcome = "completed" /\ proposal.outcome # "completed"
           => CompletionFacts \subseteq proposal.facts]_vars
  BY <1>1
<1> QED
  BY <1>2, Invariance, PTL DEF Spec, CompletedOnlyWhenDone

\* INV-001, for any number of concurrent clients: a version is published for
\* the proposal after its acceptance.
THEOREM PublicationFollowsAcceptance == Spec => PublishedAfterAcceptance
<1>1. ASSUME IInv, NEW c \in Clients, Append(c), cmd[c].type = "ContractVersionPublished"
      PROVE  "accepted" \in proposal.facts \/ "proposal" \in cmd[c].skips
  <2>1. pc[c] = "appending"
    BY <1>1 DEF Append
  <2>2. CASE "proposal" \notin cmd[c].skips
    <3>1. passed[c] = 3
      BY <1>1, <2>1, <2>2 DEF IInv, TypeOK, Reads
    <3> QED
      BY <1>1, <2>1, <3>1 DEF IInv, LastingVerdicts, LastingVerdict
  <2> QED
    BY <2>2
<1>2. IInv =>
        [\A c \in Clients :
           Append(c) /\ cmd[c].type = "ContractVersionPublished"
             => "accepted" \in proposal.facts \/ "proposal" \in cmd[c].skips]_vars
  BY <1>1
<1> QED
  BY <1>2, Invariance, PTL DEF PublishedAfterAcceptance

\* A command that was not outrun satisfies all its guards when it appends.
THEOREM OptimismIsSound == Spec => UncontendedGuardsHold
<1>1. ASSUME IInv, NEW c \in Clients, Append(c), c \notin outrun,
             NEW read \in 1 .. Reads(cmd[c])
      PROVE  Holds(cmd[c], read)
  <2>1. pc[c] = "appending" /\ passed[c] = Reads(cmd[c])
    BY <1>1 DEF Append, IInv, TypeOK
  <2> QED
    BY <1>1, <2>1 DEF IInv, CurrentVerdicts, CurrentVerdict
<1>2. IInv =>
        [\A c \in Clients :
           Append(c) /\ c \notin outrun =>
             \A read \in 1 .. Reads(cmd[c]) : Holds(cmd[c], read)]_vars
  BY <1>1
<1> QED
  BY <1>2, Invariance, PTL DEF UncontendedGuardsHold
-----------------------------------------------------------------------------
(* What the promises that the runs see broken hinge on.                     *)

\* Nothing was appended between the first guard read of a publication, or of an
\* acceptance, and its append.
PublishesUncontended ==
  [][\A c \in Clients :
       Append(c) /\ cmd[c].type = "ContractVersionPublished" => c \notin outrun]_vars

AcceptsUncontended ==
  [][\A c \in Clients :
       Append(c) /\ cmd[c].type = "ChangeProposalAccepted" => c \notin outrun]_vars

\* Callers raise an entry that is not an unresolved objection, and resolve one that is.
Orderly(c) ==
  Append(c) => /\ cmd[c].type = "BlockingObjectionRaised" => cmd[c].of \notin unresolved
               /\ cmd[c].type = "BlockingObjectionResolved" => cmd[c].of \in unresolved

OrderlyObjections == [][\A c \in Clients : Orderly(c)]_vars

\* Only an append changes the ledger.
LEMMA LedgerStep ==
  ASSUME [Next]_vars, proposal' # proposal \/ published' # published \/ unresolved' # unresolved
  PROVE  \E c \in Clients : Append(c)
BY DEF Next, Step, vars, Begin, PassGuard, Refuse, ReadVersion, Conflict, Fail

\* INV-003 hinges on one race: as long as nobody appends anything between the first
\* read of a publication and its append, no version is published twice.
THEOREM UncontendedPublishesOnce == Spec /\ PublishesUncontended => []PublishedOnce
<1>1. Init => PublishedOnce
  BY DEF Init, PublishedOnce
<1>2. ASSUME IInv, PublishedOnce, [Next]_vars,
             [\A c \in Clients :
                Append(c) /\ cmd[c].type = "ContractVersionPublished" => c \notin outrun]_vars
      PROVE  PublishedOnce'
  <2>1. CASE published' = published
    BY <1>2, <2>1 DEF PublishedOnce
  <2>2. CASE published' # published
    <3>1. PICK c \in Clients : Append(c)
      BY <1>2, <2>2, LedgerStep
    <3>2. pc[c] = "appending" /\ Record(cmd[c])
      BY <3>1 DEF Append
    <3>3. PICK e \in AllCommands : e = cmd[c]
      BY <1>2, <3>2, CommandInFlight DEF IInv
    <3>4. e.type = "ContractVersionPublished" /\ published' = [published EXCEPT ![e.of] = @ + 1]
      BY <2>2, <3>2, <3>3 DEF Record
    <3>5. c \notin outrun
      BY <1>2, <2>2, <3>1, <3>3, <3>4 DEF vars
    <3>6. passed[c] = Reads(e) /\ 1 \in 1 .. Reads(e)
      BY <1>2, <3>2, <3>3, <3>4 DEF IInv, TypeOK, Reads
    <3>7. Holds(e, 1)
      BY <1>2, <3>2, <3>3, <3>5, <3>6 DEF IInv, CurrentVerdicts, CurrentVerdict
    <3>8. published[e.of] = 0
      BY <3>4, <3>7 DEF Holds, MayPublish
    <3> QED
      BY <1>2, <3>4, <3>8 DEF PublishedOnce, IInv, TypeOK
  <2> QED
    BY <2>1, <2>2
<1> QED
  BY <1>1, <1>2, InitIInv, StepIInv, PTL DEF Spec, PublishesUncontended

\* The count that the guard looks at and the objections it stands for.
CountIsTrue == IsFiniteSet(unresolved) /\ proposal.objections = Cardinality(unresolved)

\* The number of objections after an event.
LEMMA FoldObjections ==
  ASSUME NEW p \in Proposals, NEW e \in AllCommands
  PROVE  Fold(p, e).objections =
           CASE e.type = "BlockingObjectionRaised" -> p.objections + 1
             [] e.type = "BlockingObjectionResolved" -> IF p.objections > 0 THEN p.objections - 1 ELSE 0
             [] OTHER -> p.objections
<1>1. FoldState(p, e) \in Proposals
  BY FoldStateTyped
<1>2. FoldState(p, e).objections =
        CASE e.type = "BlockingObjectionRaised" -> p.objections + 1
          [] e.type = "BlockingObjectionResolved" -> IF p.objections > 0 THEN p.objections - 1 ELSE 0
          [] OTHER -> p.objections
  BY DEF FoldState, Proposals
<1>3. /\ FoldApprovals(FoldState(p, e), e) \in Proposals
      /\ FoldApprovals(FoldState(p, e), e).objections = FoldState(p, e).objections
  BY <1>1, FoldApprovalsTyped DEF FoldApprovals, Proposals
<1>4. /\ FoldReadiness(FoldApprovals(FoldState(p, e), e), e) \in Proposals
      /\ FoldReadiness(FoldApprovals(FoldState(p, e), e), e).objections
           = FoldApprovals(FoldState(p, e), e).objections
  BY <1>3, FoldReadinessTyped DEF FoldReadiness, Proposals
<1>5. Fold(p, e).objections = FoldReadiness(FoldApprovals(FoldState(p, e), e), e).objections
  BY <1>4 DEF Fold, FoldWork, Proposals
<1> QED
  BY <1>2, <1>3, <1>4, <1>5

\* Orderly callers keep the count true.
LEMMA CountStep ==
  ASSUME IInv, CountIsTrue, NEW c \in Clients, Append(c), Orderly(c)
  PROVE  CountIsTrue'
<1>1. pc[c] = "appending" /\ Record(cmd[c])
  BY DEF Append
<1>2. PICK e \in AllCommands : e = cmd[c]
  BY <1>1, CommandInFlight DEF IInv
<1>3. proposal \in Proposals /\ proposal.objections \in Nat /\ Cardinality(unresolved) \in Nat
  BY ProposalFields, FS_CardinalityType DEF IInv, TypeOK, CountIsTrue
<1>4. CASE e.type = "ContractVersionPublished"
  BY <1>1, <1>2, <1>4 DEF Record, CountIsTrue
<1>5. CASE e.type # "ContractVersionPublished"
  <2>1. proposal' = Fold(proposal, e)
    BY <1>1, <1>2, <1>5 DEF Record
  <2>2. CASE e.type = "BlockingObjectionRaised"
    <3>1. unresolved' = unresolved \cup {e.of} /\ e.of \notin unresolved
      BY <1>1, <1>2, <2>2 DEF Record, Orderly
    <3>2. IsFiniteSet(unresolved') /\ Cardinality(unresolved') = Cardinality(unresolved) + 1
      BY <3>1, FS_AddElement DEF CountIsTrue
    <3> QED
      BY <1>3, <2>1, <2>2, <3>2, FoldObjections DEF CountIsTrue
  <2>3. CASE e.type = "BlockingObjectionResolved"
    <3>1. unresolved' = unresolved \ {e.of} /\ e.of \in unresolved
      BY <1>1, <1>2, <2>3 DEF Record, Orderly
    <3>2. IsFiniteSet(unresolved') /\ Cardinality(unresolved') = Cardinality(unresolved) - 1
      BY <3>1, FS_RemoveElement DEF CountIsTrue
    <3>3. Cardinality(unresolved') \in Nat
      BY <3>2, FS_CardinalityType
    <3>4. Fold(proposal, e).objections = proposal.objections - 1
      BY <1>3, <2>3, <3>2, <3>3, FoldObjections DEF CountIsTrue
    <3> QED
      BY <2>1, <3>2, <3>4 DEF CountIsTrue
  <2>4. CASE e.type \notin {"BlockingObjectionRaised", "BlockingObjectionResolved"}
    <3>1. unresolved' = unresolved
      BY <1>1, <1>2, <2>4 DEF Record
    <3>2. Fold(proposal, e).objections = proposal.objections
      BY <1>3, <2>4, FoldObjections
    <3> QED
      BY <2>1, <3>1, <3>2 DEF CountIsTrue
  <2> QED
    BY <2>2, <2>3, <2>4
<1> QED
  BY <1>4, <1>5

\* INV-005 hinges on the counting: as long as callers raise and resolve an objection
\* once at a time, and nobody appends between the first read of an acceptance and its
\* append, no proposal is accepted over an unresolved objection.
THEOREM OrderlyAcceptance ==
  Spec /\ OrderlyObjections /\ AcceptsUncontended => AcceptedWithoutObjection
<1>1. Init => CountIsTrue
  BY FS_EmptySet DEF Init, CountIsTrue, NoEvents
<1>2. ASSUME IInv, CountIsTrue, [Next]_vars, [\A c \in Clients : Orderly(c)]_vars
      PROVE  CountIsTrue'
  <2>1. CASE UNCHANGED <<proposal, unresolved>>
    BY <1>2, <2>1 DEF CountIsTrue
  <2>2. CASE ~UNCHANGED <<proposal, unresolved>>
    <3>1. PICK c \in Clients : Append(c)
      BY <1>2, <2>2, LedgerStep
    <3>2. Orderly(c)
      BY <1>2, <2>2 DEF vars
    <3> QED
      BY <1>2, <3>1, <3>2, CountStep
  <2> QED
    BY <2>1, <2>2
<1>3. ASSUME IInv, CountIsTrue, NEW c \in Clients, Append(c),
             cmd[c].type = "ChangeProposalAccepted", cmd[c].skips = {}, c \notin outrun
      PROVE  unresolved = {}
  <2>1. pc[c] = "appending" /\ passed[c] = 2
    BY <1>3 DEF Append, IInv, TypeOK, Reads
  <2>2. Holds(cmd[c], 1)
    BY <1>3, <2>1 DEF IInv, CurrentVerdicts, CurrentVerdict
  <2>3. proposal.objections = 0
    BY <1>3, <2>2 DEF Holds, MayAccept
  <2> QED
    BY <1>3, <2>3, FS_EmptySet DEF CountIsTrue
<1>4. /\ IInv /\ CountIsTrue
      /\ [\A c \in Clients :
            Append(c) /\ cmd[c].type = "ChangeProposalAccepted" => c \notin outrun]_vars
      => [\A c \in Clients :
            Append(c) /\ cmd[c].type = "ChangeProposalAccepted" /\ cmd[c].skips = {}
              => unresolved = {}]_vars
  BY <1>3
<1> QED
  BY <1>1, <1>2, <1>4, InitIInv, StepIInv, PTL
  DEF Spec, OrderlyObjections, AcceptsUncontended, AcceptedWithoutObjection
=============================================================================
