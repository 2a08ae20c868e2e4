--------------------------- MODULE ImpactAnalysis ---------------------------
(***************************************************************************)
(* The impact of a diff on each consumer: from the terms of a dependency   *)
(*   [op, fields, statuses, policy, owner, source, timeout]                *)
(* the impact level, the actions asked for and the teams to review it.     *)
(***************************************************************************)
EXTENDS ContractDiff

CONSTANTS Covers,   \* pairs <<o, k>> such that the operation id o includes the text k
          NoTeam

\* edgeCoversOperation, over affectedOperationKeys
Covered(findings, terms) == \E f \in findings : <<terms.op, f.path.op>> \in Covers

\* The actions drafted for a semantic finding.
ActionsFor(rule) ==
  CASE rule = "semantic-unknown-enum" -> {"unknown-enum-handling", "code-change", "contract-test"}
    [] rule \in {"semantic-used-field-removed", "semantic-shape-changed-on-used-field"} ->
         {"code-change", "contract-test"}
    [] rule = "semantic-required-field-assumed-present" ->
         {"code-change", "explicit-acknowledgement"}
    [] rule = "semantic-error-meaning-changed" -> {"code-change", "deployment-ordering"}

Action(kind, at) == [kind |-> kind, at |-> at]

\* draftRequiredActions
RequiredActions(semantic, terms, impact) ==
       (UNION {{Action(kind, s.path) : kind \in ActionsFor(s.rule)} : s \in semantic})
  \cup If(semantic # {} /\ terms.timeout, Action("timeout-retry-adjustment", Path(terms.op, "")))
  \cup If(impact = "blocking", Action("deployment-ordering", Path(terms.op, "")))
  \cup If(impact = "none", Action("explicit-acknowledgement", Path(terms.op, "")))

\* "informational" is never reached: every semantic finding asks for an action.
ImpactLevel(findings, terms, semantic) ==
  CASE terms.fields = {} -> "unknown"
    [] terms.fields # {} /\ (~Covered(findings, terms) \/ semantic = {}) -> "none"
    [] OTHER -> IF \E s \in semantic : s.blocking THEN "blocking" ELSE "action-required"

Reviewers(terms) == IF terms.owner = NoTeam THEN {} ELSE {terms.owner}

\* analyzeConsumer
AnalyzeConsumer(findings, terms) ==
  LET semantic == AssessConsumer(findings, terms)
      impact   == ImpactLevel(findings, terms, semantic)
      declared == terms.fields # {}
      covered  == declared /\ Covered(findings, terms)
  IN  [impact    |-> impact,
       confirmed |-> declared /\ (covered => terms.source = "explicit"),
       semantic  |-> semantic,
       actions   |-> IF covered THEN RequiredActions(semantic, terms, impact)
                     ELSE {Action("explicit-acknowledgement", Path(terms.op, ""))},
       reviewers |-> IF covered \/ ~declared THEN Reviewers(terms) ELSE {}]

\* analyzeImpact: the teams whose review is required, given the analyses of all
\* consumers.  A blocking semantic finding counts even when the operation the
\* consumer depends on did not change.
RequiredReviewers(analyses, provider, policyOwners) ==
       {provider}
  \cup (UNION {a.reviewers : a \in {b \in analyses :
                                     b.impact \in {"blocking", "action-required", "unknown"}}})
  \cup (IF \E a \in analyses : a.impact = "blocking" \/ \E s \in a.semantic : s.blocking
        THEN policyOwners ELSE {})
=============================================================================
