-------------------------- MODULE ProposalWorkflow --------------------------
(***************************************************************************)
(* The life of one change proposal under DomainService: who may accept,    *)
(* complete and publish it, and on which reading of the ledger.            *)
(*                                                                         *)
(* A command reads the ledger once or more, folds the events into the      *)
(* state its guards judge, then reads the version of the stream it will    *)
(* write to, and appends its event if nobody wrote to that stream since.   *)
(* The append is atomic, as AppendOnlyLog specifies and EventLedger        *)
(* implements; versions only grow, so comparing them asks just that        *)
(* question, and a set of clients that have been outrun replaces them.     *)
(*                                                                         *)
(* The stream of the proposal is kept as what the projections make of it.  *)
(***************************************************************************)
EXTENDS Naturals, FiniteSets

CONSTANTS Clients,       \* callers, each with at most one command in flight
          Entries,       \* discussion entries that can be blocking objections
          Approvers, Consumers, Items, Versions,
          Commands,      \* the commands callers issue
          NoCommand,
          MaxObjections  \* bound: no objection is raised beyond this count

\* A command is named by the event it appends.  'of' is its subject, 'skips'
\* the checks its input makes it pass over.
Facts == {"opened", "accepted", "requiredApproversSatisfied", "implemented",
          "consumerReady", "verified", "deployed", "observed",
          "consumerMigrationComplete"}

Plain == {"ChangeProposalOpened", "ProviderImplementationRecorded",
          "ConsumerReadinessRecorded", "ContractVerificationRecorded",
          "DeploymentRecorded", "ObservationRecorded", "ConsumerMigrationCompleted",
          "ChangeProposalCompleted", "ChangeProposalRejected",
          "ChangeProposalWithdrawn", "ImpactAnalysisAmended"}

AllCommands ==
       [type : Plain, of : {{}}, skips : {{}}]
  \cup [type : {"ChangeProposalAccepted"}, of : {{}},
        skips : SUBSET {"objections", "approvals"}]
  \cup [type : {"BlockingObjectionRaised", "BlockingObjectionResolved"},
        of : Entries, skips : {{}}]
  \cup [type : {"RequiredApproversDeclared"}, of : SUBSET Approvers \ {{}}, skips : {{}}]
  \cup [type : {"ApprovalRecorded", "ApprovalWithdrawn"}, of : Approvers, skips : {{}}]
  \cup [type : {"ConsumerDeclaredReady", "ConsumerDeclaredNotReady",
                "ConsumerMigrationAcknowledged"}, of : Consumers, skips : {{}}]
  \cup [type : {"ProposalWorkItemCreated", "ProposalWorkItemCompleted"},
        of : Items, skips : {{}}]
  \cup [type : {"ContractVersionPublished"}, of : Versions, skips : {{}, {"proposal"}}]

ASSUME WorkflowAssumption ==
  /\ Commands \subseteq AllCommands
  /\ NoCommand \notin AllCommands
  /\ MaxObjections \in Nat

VARIABLES proposal,    \* the projections of the proposal's stream
          published,   \* ContractVersionPublished events in each version's stream
          unresolved,  \* history: the objections raised and not resolved since
          cmd, pc,     \* the command of each client and how far it is
          passed,      \* the guard reads it has behind it
          behind,      \* clients whose expectedVersion is no longer current
          outrun       \* history: clients that read before the latest event

vars == <<proposal, published, unresolved, cmd, pc, passed, behind, outrun>>
clientVars == <<cmd, pc, passed, behind, outrun>>
-----------------------------------------------------------------------------
(* The projections. *)

Proposals ==
  [phase : {"draft", "opened", "closed"},
   facts : SUBSET Facts,
   outcome : {"none", "completed", "rejected", "withdrawn"},
   objections : Nat,
   required : SUBSET Approvers,
   given : SUBSET Approvers,
   readiness : [Consumers -> {"unknown", "ready", "not ready"}],
   work : [Items -> {"none", "open", "done"}]]

NoEvents ==
  [phase |-> "draft", facts |-> {}, outcome |-> "none", objections |-> 0,
   required |-> {}, given |-> {},
   readiness |-> [k \in Consumers |-> "unknown"],
   work |-> [i \in Items |-> "none"]]

\* The flags an event sets; none ever clears one.
Establishes(type) ==
  CASE type = "ChangeProposalOpened" -> {"opened"}
    [] type = "ChangeProposalAccepted" -> {"accepted", "requiredApproversSatisfied"}
    [] type = "ProviderImplementationRecorded" -> {"implemented"}
    [] type = "ConsumerReadinessRecorded" -> {"consumerReady"}
    [] type = "ContractVerificationRecorded" -> {"verified"}
    [] type = "DeploymentRecorded" -> {"deployed"}
    [] type = "ObservationRecorded" -> {"observed"}
    [] type \in {"ConsumerMigrationCompleted", "ChangeProposalCompleted"}
         -> {"consumerMigrationComplete"}
    [] OTHER -> {}

Closing == {"ChangeProposalCompleted", "ChangeProposalRejected", "ChangeProposalWithdrawn"}

\* Mutant: the count of objections is not kept from falling below zero.
FoldStateUnclamped(p, e) ==
  [p EXCEPT
     !.facts = @ \cup Establishes(e.type),
     !.objections = CASE e.type = "BlockingObjectionRaised" -> @ + 1
                      [] e.type = "BlockingObjectionResolved" -> @ - 1
                      [] OTHER -> @]

\* changeProposalState: the later event wins, the objections are counted.
FoldState(p, e) ==
  [p EXCEPT
     !.facts = @ \cup Establishes(e.type),
     !.phase = CASE e.type = "ChangeProposalOpened" -> "opened"
                 [] e.type \in Closing -> "closed"
                 [] OTHER -> @,
     !.outcome = CASE e.type = "ChangeProposalCompleted" -> "completed"
                   [] e.type = "ChangeProposalRejected" -> "rejected"
                   [] e.type = "ChangeProposalWithdrawn" -> "withdrawn"
                   [] OTHER -> @,
     !.objections = CASE e.type = "BlockingObjectionRaised" -> @ + 1
                      [] e.type = "BlockingObjectionResolved" -> IF @ > 0 THEN @ - 1 ELSE 0
                      [] OTHER -> @]

\* proposalApprovalsFrom: a declaration replaces the list, a withdrawal takes
\* the approval back.
FoldApprovals(p, e) ==
  [p EXCEPT
     !.required = IF e.type = "RequiredApproversDeclared" THEN e.of ELSE @,
     !.given = CASE e.type = "ApprovalRecorded" -> @ \cup {e.of}
                 [] e.type = "ApprovalWithdrawn" -> @ \ {e.of}
                 [] OTHER -> @]

\* consumerReadinessFrom: an acknowledgement does not make a consumer ready,
\* and makes a consumer nobody has heard of not ready.
FoldReadiness(p, e) ==
  [p EXCEPT !.readiness = [k \in Consumers |->
     CASE e.type = "ConsumerDeclaredReady" /\ k = e.of -> "ready"
       [] e.type = "ConsumerDeclaredNotReady" /\ k = e.of -> "not ready"
       [] e.type = "ConsumerMigrationAcknowledged" /\ k = e.of /\ @[k] = "unknown"
            -> "not ready"
       [] OTHER -> @[k]]]

\* proposalWorkItemsFrom: an item created again is outstanding again.
FoldWork(p, e) ==
  [p EXCEPT !.work = [i \in Items |->
     CASE e.type = "ProposalWorkItemCreated" /\ i = e.of -> "open"
       [] e.type = "ProposalWorkItemCompleted" /\ i = e.of /\ @[i] # "none" -> "done"
       [] OTHER -> @[i]]]

Fold(p, e) == FoldWork(FoldReadiness(FoldApprovals(FoldState(p, e), e), e), e)

\* #proposalState throws until the proposal has been opened.
Opened == "opened" \in proposal.facts

ApprovalsSatisfied == proposal.required # {} /\ proposal.required \subseteq proposal.given

CompletionFacts == {"opened", "accepted", "implemented", "verified", "deployed", "observed",
                    "consumerMigrationComplete"}
-----------------------------------------------------------------------------
(* The guards: what a command requires of each of its reads, in order. *)

Reads(e) ==
  CASE e.type \in {"ChangeProposalAccepted", "ChangeProposalCompleted"} -> 2
    [] e.type = "ContractVersionPublished" -> IF "proposal" \in e.skips THEN 1 ELSE 3
    [] e.type = "ProposalWorkItemCompleted" -> 1
    [] OTHER -> 0

\* canAcceptProposal, on a count and an approval verdict read one after the
\* other, or stated by the caller.
MayAccept(e, read) ==
  \/ read = 1 /\ Opened /\ ("objections" \in e.skips \/ proposal.objections = 0)
  \/ read = 2 /\ ("approvals" \in e.skips \/ ApprovalsSatisfied)

\* Mutant: completion takes the verification for granted.
MayCompleteUnverified(e, read) ==
  \/ read = 1 /\ Opened /\ CompletionFacts \ {"verified"} \subseteq proposal.facts
  \/ /\ read = 2
     /\ \A i \in Items : proposal.work[i] # "open"
     /\ \A k \in Consumers : proposal.readiness[k] # "not ready"

\* canMarkCompleted, then the outstanding work items and unready consumers.
MayComplete(e, read) ==
  \/ read = 1 /\ Opened /\ CompletionFacts \subseteq proposal.facts
  \/ /\ read = 2
     /\ \A i \in Items : proposal.work[i] # "open"
     /\ \A k \in Consumers : proposal.readiness[k] # "not ready"

\* Mutant: any opened proposal lets a version be published.
MayPublishUnaccepted(e, read) ==
  \/ read = 1 /\ published[e.of] = 0
  \/ read = 2 /\ Opened
  \/ read = 3 /\ ApprovalsSatisfied

\* canPublishContractVersion, then canPublishVersionForProposal.
MayPublish(e, read) ==
  \/ read = 1 /\ published[e.of] = 0
  \/ read = 2 /\ Opened /\ "accepted" \in proposal.facts
  \/ read = 3 /\ ApprovalsSatisfied

Holds(e, read) ==
  CASE e.type = "ChangeProposalAccepted" -> MayAccept(e, read)
    [] e.type = "ChangeProposalCompleted" -> MayComplete(e, read)
    [] e.type = "ContractVersionPublished" -> MayPublish(e, read)
    [] e.type = "ProposalWorkItemCompleted" -> proposal.work[e.of] = "open"
    [] OTHER -> TRUE
-----------------------------------------------------------------------------
Init ==
  /\ proposal = NoEvents
  /\ published = [v \in Versions |-> 0]
  /\ unresolved = {}
  /\ cmd = [c \in Clients |-> NoCommand]
  /\ pc = [c \in Clients |-> "idle"]
  /\ passed = [c \in Clients |-> 0]
  /\ behind = {}
  /\ outrun = {}

\* A caller issues a command.
Begin(c, e) ==
  /\ pc[c] = "idle"
  /\ e.type = "BlockingObjectionRaised" => proposal.objections < MaxObjections
  /\ cmd' = [cmd EXCEPT ![c] = e]
  /\ pc' = [pc EXCEPT ![c] = "checking"]
  /\ UNCHANGED <<proposal, published, unresolved, passed, behind, outrun>>

\* Mutant: the result of the guard is not looked at.
PassUnjudged(c) ==
  /\ pc[c] = "checking"
  /\ passed[c] < Reads(cmd[c])
  /\ passed' = [passed EXCEPT ![c] = @ + 1]
  /\ UNCHANGED <<proposal, published, unresolved, cmd, pc, behind, outrun>>

\* A read of the ledger satisfies the guard that judges it.
PassGuard(c) ==
  /\ pc[c] = "checking"
  /\ passed[c] < Reads(cmd[c])
  /\ Holds(cmd[c], passed[c] + 1)
  /\ passed' = [passed EXCEPT ![c] = @ + 1]
  /\ UNCHANGED <<proposal, published, unresolved, cmd, pc, behind, outrun>>

\* The client is done with its command and knows the outcome or an error.
Leave(c) ==
  /\ cmd' = [cmd EXCEPT ![c] = NoCommand]
  /\ pc' = [pc EXCEPT ![c] = "idle"]
  /\ passed' = [passed EXCEPT ![c] = 0]

\* DomainRuleError.
Refuse(c) ==
  /\ pc[c] = "checking"
  /\ passed[c] < Reads(cmd[c])
  /\ ~Holds(cmd[c], passed[c] + 1)
  /\ Leave(c)
  /\ outrun' = outrun \ {c}
  /\ UNCHANGED <<proposal, published, unresolved, behind>>

\* #append takes expectedVersion from the stream as it is now, whatever has
\* happened since the guards read the ledger.
ReadVersion(c) ==
  /\ pc[c] = "checking"
  /\ passed[c] = Reads(cmd[c])
  /\ pc' = [pc EXCEPT ![c] = "appending"]
  /\ UNCHANGED <<proposal, published, unresolved, cmd, passed, behind, outrun>>

SameStream(d, e) ==
  IF e.type = "ContractVersionPublished"
  THEN d.type = e.type /\ d.of = e.of
  ELSE d.type # "ContractVersionPublished"

\* The event joins the ledger.
Record(e) ==
  /\ IF e.type = "ContractVersionPublished"
     THEN /\ published' = [published EXCEPT ![e.of] = @ + 1]
          /\ UNCHANGED proposal
     ELSE /\ proposal' = Fold(proposal, e)
          /\ UNCHANGED published
  /\ unresolved' = CASE e.type = "BlockingObjectionRaised" -> unresolved \cup {e.of}
                     [] e.type = "BlockingObjectionResolved" -> unresolved \ {e.of}
                     [] OTHER -> unresolved

\* The append succeeds; every other client that has read something is outrun.
Append(c) ==
  /\ pc[c] = "appending"
  /\ c \notin behind
  /\ Record(cmd[c])
  /\ Leave(c)
  /\ outrun' = {d \in Clients \ {c} : d \in outrun \/ passed[d] > 0 \/ pc[d] = "appending"}
  /\ behind' = {d \in Clients \ {c} :
                  d \in behind \/ (pc[d] = "appending" /\ SameStream(cmd[d], cmd[c]))}

\* ConcurrencyError.
Conflict(c) ==
  /\ pc[c] = "appending"
  /\ c \in behind
  /\ Leave(c)
  /\ behind' = behind \ {c}
  /\ outrun' = outrun \ {c}
  /\ UNCHANGED <<proposal, published, unresolved>>

\* A query fails.  An append that took effect unacknowledged is an Append.
Fail(c) ==
  /\ pc[c] # "idle"
  /\ Leave(c)
  /\ behind' = behind \ {c}
  /\ outrun' = outrun \ {c}
  /\ UNCHANGED <<proposal, published, unresolved>>

Step(c) ==
  \/ \E e \in Commands : Begin(c, e)
  \/ PassGuard(c) \/ Refuse(c) \/ ReadVersion(c)
  \/ Append(c) \/ Conflict(c) \/ Fail(c)

Next == \E c \in Clients : Step(c)

Spec == Init /\ [][Next]_vars
-----------------------------------------------------------------------------
\* The variables have the shape the code gives them.
TypeOK ==
  /\ proposal \in Proposals
  /\ published \in [Versions -> Nat]
  /\ unresolved \subseteq Entries
  /\ cmd \in [Clients -> Commands \cup {NoCommand}]
  /\ pc \in [Clients -> {"idle", "checking", "appending"}]
  /\ passed \in [Clients -> 0 .. 3]
  /\ behind \subseteq Clients
  /\ outrun \subseteq Clients
  /\ \A c \in Clients : /\ pc[c] = "idle" <=> cmd[c] = NoCommand
                        /\ pc[c] = "idle" => passed[c] = 0
                        /\ pc[c] = "checking" => passed[c] <= Reads(cmd[c])
                        /\ pc[c] = "appending" => passed[c] = Reads(cmd[c])

\* INV-002 and INV-006: a proposal is only ever completed when it has been
\* accepted, implemented, verified, deployed, observed and migrated, although
\* the guard may have judged an old reading of the ledger.
CompletedOnlyWhenDone ==
  [][proposal'.outcome = "completed" /\ proposal.outcome # "completed"
       => CompletionFacts \subseteq proposal.facts]_vars

\* INV-001: a version published for the proposal follows its acceptance,
\* although the two are in different streams.
PublishedAfterAcceptance ==
  [][\A c \in Clients :
       Append(c) /\ cmd[c].type = "ContractVersionPublished"
         => "accepted" \in proposal.facts \/ "proposal" \in cmd[c].skips]_vars

\* Optimistic concurrency where it works: when nothing was appended since the
\* first read of a command, all its guards hold at the moment of its append.
UncontendedGuardsHold ==
  [][\A c \in Clients :
       Append(c) /\ c \notin outrun =>
         \A read \in 1 .. Reads(cmd[c]) : Holds(cmd[c], read)]_vars

\* The verdicts that cannot go stale: flags are never cleared, so the first
\* read for a completion and the second for a publication stay right.
LastingVerdict(c) ==
  pc[c] # "idle" =>
    /\ cmd[c].type = "ChangeProposalCompleted" /\ passed[c] >= 1
         => CompletionFacts \subseteq proposal.facts
    /\ cmd[c].type = "ContractVersionPublished" /\ passed[c] >= 2
         => "accepted" \in proposal.facts

LastingVerdicts == \A c \in Clients : LastingVerdict(c)

\* A client that has not been outrun is right about every guard it has passed.
CurrentVerdict(c) ==
  pc[c] # "idle" /\ c \notin outrun =>
    \A read \in 1 .. passed[c] : Holds(cmd[c], read)

CurrentVerdicts == \A c \in Clients : CurrentVerdict(c)

\* The inductive invariant.
IInv == TypeOK /\ LastingVerdicts /\ CurrentVerdicts
-----------------------------------------------------------------------------
\* INV-005: a proposal is not accepted on the state of the ledger while a
\* blocking objection is unresolved.
AcceptedWithoutObjection ==
  [][\A c \in Clients :
       Append(c) /\ cmd[c].type = "ChangeProposalAccepted" /\ cmd[c].skips = {}
         => unresolved = {}]_vars

\* INV-005: nor is a version of its contract published.
PublishedWithoutObjection ==
  [][\A c \in Clients :
       Append(c) /\ cmd[c].type = "ContractVersionPublished" /\ cmd[c].skips = {}
         => unresolved = {}]_vars

\* INV-003: publishing a version id that was published before is rejected.
PublishedOnce == \A v \in Versions : published[v] <= 1
=============================================================================
