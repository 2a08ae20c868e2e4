---------------------------- MODULE EvidenceGate ----------------------------
(***************************************************************************)
(* The evidence of a contract version, the requirements a change puts on   *)
(* it, and the gate and the readiness of consumers that are read from it.  *)
(* Evidence is bound to a source revision and may expire.                  *)
(***************************************************************************)
EXTENDS Clock, FiniteSets

CONSTANTS Revisions,
          Consumers,
          Criticalities,  \* of the affected consumers
          ChangeKinds,    \* the kinds of change, by the rule that found them
          Nobody,
          MaxEvidence     \* bound: pieces of evidence

ASSUME GateAssumption == {"contract", Nobody} \cap Consumers = {}

VARIABLES evidence,  \* what was attached
          revision   \* the current source revision

gateVars == <<evidence, revision>>

ContractKinds == {"provider-contract-test", "schema-validation", "pull-request",
                  "deployment-revision", "canary-result"}

RequiredKinds == ContractKinds \cup {"consumer-contract-test"}

Statuses == {"passed", "failed", "skipped", "waived"}

\* What has no expiry lasts beyond the last tick.
Never == MaxTime + 1

Evidence == [kind : RequiredKinds \cup {"waiver"}, status : Statuses, revision : Revisions,
             expires : 1 .. Never, consumer : Consumers \cup {Nobody},
             waives : RequiredKinds \cup {"nothing"}]

GateTypeOK == evidence \subseteq Evidence /\ revision \in Revisions

GateInit == evidence = {} /\ revision \in Revisions
-----------------------------------------------------------------------------
(* What is required.                                                        *)

Requirement(kind, scope) == [kind |-> kind, scope |-> scope]

\* The names of rules that hold "enum", "field" or "required".
TouchingValues == {"enum-value-added", "enum-value-removed", "field-added",
                   "field-removed", "required-field-added"}

\* computeEvidenceRequirements
Requirements ==
  LET ofContract == {"provider-contract-test", "schema-validation", "pull-request"}
      ofCritical == {"deployment-revision", "canary-result"}
  IN       {Requirement(k, "contract") : k \in IF ChangeKinds = {} THEN {} ELSE ofContract}
      \cup {Requirement("consumer-contract-test", c) :
              c \in IF ChangeKinds \cap TouchingValues = {} THEN {} ELSE Consumers}
      \cup {Requirement(k, "contract") : k \in IF "critical" \in Criticalities THEN ofCritical ELSE {}}
-----------------------------------------------------------------------------
(* The verification gate.                                                   *)

\* isEvidenceStale
EvidenceStale(e) == e.revision # revision \/ e.expires < now

\* evidenceMatchesRequirement
Matches(e, r) == e.kind = r.kind /\ (r.scope = "contract" \/ e.consumer = r.scope)

\* waiverCovers: whatever consumer the requirement is about.
Waives(e, r) == e.kind = "waiver" /\ e.waives = r.kind

\* Mutant: failed evidence that went stale no longer holds the gate.
OutcomeForgetting(r) ==
  LET matching == {e \in evidence : Matches(e, r)}
      current  == {e \in matching : ~EvidenceStale(e)}
  IN  CASE \E e \in current : e.status = "passed" -> "passed"
        [] ~(\E e \in current : e.status = "passed") /\ \E e \in current : e.status = "failed" -> "failed"
        [] ~(\E e \in current : e.status \in {"passed", "failed"}) ->
             IF \E e \in evidence : Waives(e, r) /\ ~EvidenceStale(e) THEN "waived"
             ELSE IF matching # current THEN "stale" ELSE "missing"

\* How a requirement fares in evaluateVerificationGate.  Stale evidence comes before
\* a waiver, and what was skipped or not run counts for nothing.
Outcome(r) ==
  LET matching == {e \in evidence : Matches(e, r)}
      current  == {e \in matching : ~EvidenceStale(e)}
      result   == {e.status : e \in current}
  IN  IF "passed" \in result THEN "passed"
      ELSE IF "failed" \in result THEN "failed"
      ELSE IF matching # current THEN "stale"
      ELSE IF \E e \in evidence : Waives(e, r) /\ ~EvidenceStale(e) THEN "waived"
      ELSE "missing"

Satisfied == \A r \in Requirements : Outcome(r) \in {"passed", "waived"}

\* Mutant: readiness looks at the revision of the evidence and not at its expiry.
ReadinessUnexpired(c) ==
  LET matching == {e \in evidence : e.kind = "consumer-contract-test" /\ e.consumer = c}
      result   == {e.status : e \in {f \in matching : f.revision = revision}}
  IN  IF "passed" \in result THEN "ready"
      ELSE IF "failed" \in result THEN "failed"
      ELSE IF matching # {} THEN "stale" ELSE "missing"

\* computeConsumerReadinessFromEvidence, with the reason when it is not ready.
\* Evidence that is current and neither passed nor failed is called stale.
Readiness(c) ==
  LET matching == {e \in evidence : e.kind = "consumer-contract-test" /\ e.consumer = c}
      result   == {e.status : e \in {f \in matching : ~EvidenceStale(f)}}
  IN  IF "passed" \in result THEN "ready"
      ELSE IF "failed" \in result THEN "failed"
      ELSE IF matching # {} THEN "stale" ELSE "missing"
-----------------------------------------------------------------------------
(* Operations.                                                              *)

\* attachEvidence has no argument for what a waiver waives.
AttachEvidence(kind, status, rev, expires, consumer) ==
  /\ Cardinality(evidence) < MaxEvidence
  /\ evidence' = evidence \cup {[kind |-> kind, status |-> status, revision |-> rev,
                                 expires |-> expires, consumer |-> consumer,
                                 waives |-> "nothing"]}
  /\ UNCHANGED revision

\* canGrantWaiver: a reason, a human, a time of expiry, past or not, and a kind
\* other than that of waivers.
GrantWaiver(kind, rev, expires, reason, human) ==
  /\ reason /\ human /\ kind # "waiver" /\ Cardinality(evidence) < MaxEvidence
  /\ evidence' = evidence \cup {[kind |-> "waiver", status |-> "waived", revision |-> rev,
                                 expires |-> expires, consumer |-> Nobody, waives |-> kind]}
  /\ UNCHANGED revision

NewRevision ==
  /\ revision' \in Revisions \ {revision}
  /\ UNCHANGED evidence

GateNext ==
  \/ \E kind \in RequiredKinds, status \in Statuses, rev \in Revisions,
        expires \in 1 .. Never, consumer \in Consumers \cup {Nobody} :
       AttachEvidence(kind, status, rev, expires, consumer)
  \/ \E kind \in RequiredKinds \cup {"waiver"}, rev \in Revisions, expires \in 1 .. MaxTime,
        reason, human \in BOOLEAN : GrantWaiver(kind, rev, expires, reason, human)
  \/ NewRevision

\* The gate by itself, while time passes.
GateSpec ==
  /\ GateInit /\ ClockInit
  /\ [][(GateNext /\ UNCHANGED now) \/ (Tick /\ UNCHANGED gateVars)]_<<gateVars, now>>
-----------------------------------------------------------------------------
\* Time alone never opens the gate: a requirement that is not met stays so until
\* evidence is attached or the revision changes, whatever expires, the evidence of a
\* failure included.
ExpiryNeverOpens ==
  [][UNCHANGED gateVars =>
       \A r \in Requirements : Outcome(r)' \in {"passed", "waived"} =>
                               Outcome(r) \in {"passed", "waived"}]_<<gateVars, now>>

\* The gate and the readiness of consumers are computed apart, and agree on what the
\* evidence of a consumer's contract test says: met, failed or neither.
ReadinessAgreesWithGate ==
  \A r \in Requirements : r.kind = "consumer-contract-test" =>
    /\ Readiness(r.scope) = "ready" <=> Outcome(r) = "passed"
    /\ Readiness(r.scope) = "failed" <=> Outcome(r) = "failed"
=============================================================================
