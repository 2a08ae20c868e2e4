------------------------- MODULE MCProposalWorkflow -------------------------
(***************************************************************************)
(* Small instances of the proposal workflow, each with the commands that   *)
(* bear on one question.                                                   *)
(***************************************************************************)
EXTENDS ProposalWorkflow, TLC

CONSTANTS o1, o2, a1, a2, k1, i1, v1

Of(type, subjects) == [type : {type}, of : subjects, skips : {{}}]
Just(type) == Of(type, {{}})

Accept(skips) == [type : {"ChangeProposalAccepted"}, of : {{}}, skips : skips]
Publish(skips) == [type : {"ContractVersionPublished"}, of : {v1}, skips : skips]

Review ==
  Just("ChangeProposalOpened") \cup Accept({{}})
  \cup Of("RequiredApproversDeclared", {{a1}}) \cup Of("ApprovalRecorded", {a1})

Objections ==
  Of("BlockingObjectionRaised", Entries) \cup Of("BlockingObjectionResolved", Entries)

\* Acceptance and publication, on what the ledger says and on requirements the
\* caller states: with a withdrawn approval, a second approver whose approval is
\* still missing, objections, and writes to the proposal that no guard looks at.
AcceptanceCommands ==
  Review \cup Objections \cup Of("ApprovalWithdrawn", {a1})
  \cup Of("RequiredApproversDeclared", {{a1, a2}})
  \cup Accept({{"objections"}, {"approvals"}}) \cup Publish({{}, {"proposal"}})
  \cup Just("ChangeProposalRejected") \cup Just("ImpactAnalysisAmended")

\* Completion, with a work item and a consumer that may hold it up.
CompletionCommands ==
  Just("ChangeProposalOpened") \cup Accept({{"objections", "approvals"}})
  \cup (UNION {Just(t) : t \in {"ProviderImplementationRecorded",
                                "ContractVerificationRecorded", "DeploymentRecorded",
                                "ObservationRecorded", "ConsumerMigrationCompleted",
                                "ChangeProposalCompleted"}})
  \cup Of("ProposalWorkItemCreated", {i1}) \cup Of("ProposalWorkItemCompleted", {i1})
  \cup Of("ConsumerDeclaredReady", {k1}) \cup Of("ConsumerMigrationAcknowledged", {k1})

Interchangeable == Permutations(Clients)
=============================================================================
