------------------------------ MODULE Rollout ------------------------------
(***************************************************************************)
(* The way of a change from its deliberation to its consumers: the         *)
(* compiler uses the decisions of the deliberation and the impacts         *)
(* recorded last, the notifications use the same impacts, and what is      *)
(* declared, recorded, dispatched and judged shares one clock.  The MCP    *)
(* server dispatches the commands of agents beside it, the API serves      *)
(* sessions and webhooks, and providers' documents are imported.           *)
(***************************************************************************)
EXTENDS ContractCompiler, DependencyRecords, EvidenceGate, Notifications, McpServer,
        ApiServer, CatalogImport

\* Every consumer has somebody to be told.
ASSUME RolloutAssumption == Edges \subseteq DOMAIN TeamOf

rolloutVars ==
  <<compilerVars, deliberationVars, recordsVars, gateVars, noticeVars, mcpVars, apiVars,
    catalogVars, now>>

RolloutTypeOK ==
  /\ DeliberationTypeOK /\ RecordsTypeOK /\ GateTypeOK /\ McpTypeOK /\ ApiTypeOK
  /\ CatalogTypeOK /\ NoticesTypeOK /\ now \in 1 .. MaxTime

RolloutInit ==
  /\ CompilerInit /\ DeliberationInit /\ RecordsInit
  /\ GateInit /\ NoticesInit /\ McpInit /\ ApiInit /\ CatalogInit /\ ClockInit

\* The impacts handed to the compiler and to the notifications.
RecordedImpacts == IF recorded = <<>> THEN <<>> ELSE Latest.impacts

ImpactLevels == [k \in DOMAIN RecordedImpacts |-> RecordedImpacts[k].impact]

Deliberate ==
  /\ DeliberationNext
  /\ UNCHANGED <<apiVars, catalogVars, compilerVars, recordsVars,
                 gateVars, noticeVars, mcpVars, now>>

ChangeContract ==
  /\ CompilerNext(RecordedImpacts)
  /\ UNCHANGED <<apiVars, catalogVars, deliberationVars, recordsVars,
                 gateVars, noticeVars, mcpVars, now>>

KeepRecords ==
  /\ RecordsNext
  /\ UNCHANGED <<apiVars, catalogVars, compilerVars, deliberationVars,
                 gateVars, noticeVars, mcpVars, now>>

GiveEvidence ==
  /\ GateNext
  /\ UNCHANGED <<apiVars, catalogVars, compilerVars, deliberationVars,
                 recordsVars, noticeVars, mcpVars, now>>

Notify ==
  /\ NoticesNext(ImpactLevels)
  /\ UNCHANGED <<apiVars, catalogVars, compilerVars, deliberationVars,
                 recordsVars, gateVars, mcpVars, now>>

ServeAgents ==
  /\ McpNext
  /\ UNCHANGED <<apiVars, catalogVars, compilerVars, deliberationVars,
                 recordsVars, gateVars, noticeVars, now>>

ServeRequests ==
  /\ ApiNext
  /\ UNCHANGED <<compilerVars, deliberationVars, recordsVars, gateVars,
                 noticeVars, mcpVars, catalogVars, now>>

ImportCatalog ==
  /\ CatalogNext
  /\ UNCHANGED <<compilerVars, deliberationVars, recordsVars, gateVars,
                 noticeVars, mcpVars, apiVars, now>>

PassTime ==
  /\ Tick
  /\ UNCHANGED <<apiVars, catalogVars, compilerVars, deliberationVars,
                 recordsVars, gateVars, noticeVars, mcpVars>>

RolloutNext ==
  \/ Deliberate \/ ChangeContract \/ KeepRecords \/ GiveEvidence \/ Notify \/ ServeAgents
  \/ ServeRequests \/ ImportCatalog \/ PassTime

RolloutSpec == RolloutInit /\ [][RolloutNext]_rolloutVars
=============================================================================
