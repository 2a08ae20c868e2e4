---------------------------- MODULE ContractDiff ----------------------------
(***************************************************************************)
(* The structural diff of two contract snapshots, the policies evaluated   *)
(* over it, and the semantic impact of the same diff on one consumer.      *)
(*                                                                         *)
(* A contract maps its operations to                                       *)
(*   [security : a set, request : a schema or NoSchema,                    *)
(*    responses : a function from statuses to schemas]                     *)
(* and a schema is NotObject or                                            *)
(*   [type, format, nullable : "unset", "yes" or "no",                     *)
(*    enum : a set or NoEnum, required : a set of names,                   *)
(*    properties : a function from names to schemas].                      *)
(* The path of a finding is its operation, the part of the operation ("",  *)
(* "request" or a status) and the names that lead to the schema.           *)
(***************************************************************************)
EXTENDS Integers, Sequences, FiniteSets

CONSTANTS NotObject, NoSchema, NoEnum,
          NoField,   \* instead of the name of a field
          Dotted,    \* of each name with a dot in it, what follows the last one
          Mentions   \* pairs <<s, t>> such that s includes t or t includes s, as text

ASSUME DottedAssumption == \A n \in DOMAIN Dotted : Dotted[n] \notin DOMAIN Dotted

Path(op, part) == [op |-> op, part |-> part, names |-> <<>>]
In(path, name) == [path EXCEPT !.names = Append(@, name)]

Finding(rule, class, path) == [rule |-> rule, class |-> class, risky |-> FALSE, path |-> path]
Breaking(rule, path) == Finding(rule, "breaking", path)
Additive(rule, path) == Finding(rule, "additive", path)
Risky(finding) == [finding EXCEPT !.risky = TRUE]

If(condition, finding) == IF condition THEN {finding} ELSE {}
-----------------------------------------------------------------------------
(* The diff of two schemas.  diffSchema calls itself on the properties both *)
(* have, four levels deep in all: the levels are written out.               *)

Enums(schema) == IF schema.enum = NoEnum THEN {} ELSE schema.enum

ShapeFindings(from, to, path) ==
       If(from.type # to.type, Breaking("type-changed", path))
  \cup If(from.format # to.format, Breaking("format-changed", path))
  \cup If(from.nullable # to.nullable,
          IF to.nullable = "yes" THEN Risky(Additive("nullability-changed", path))
          ELSE Breaking("nullability-changed", path))
  \cup If(~(Enums(to) \subseteq Enums(from)), Risky(Additive("enum-value-added", path)))
  \cup If(~(Enums(from) \subseteq Enums(to)), Breaking("enum-value-removed", path))

\* Mutant: a field that was optional and became required goes unnoticed.
FieldFindingsNewOnly(from, to, name, path) ==
  LET old == name \in DOMAIN from.properties
      new == name \in DOMAIN to.properties
  IN       If(~old /\ new /\ name \notin to.required, Additive("field-added", path))
      \cup If(~old /\ new /\ name \in to.required, Breaking("required-field-added", path))
      \cup If(old /\ ~new, Breaking("field-removed", path))

\* A field that was required and became optional is not a finding.
FieldFindings(from, to, name, path) ==
  LET old == name \in DOMAIN from.properties
      new == name \in DOMAIN to.properties
  IN       If(~old /\ new /\ name \notin to.required, Additive("field-added", path))
      \cup If(old /\ ~new, Breaking("field-removed", path))
      \cup If(new /\ name \in to.required /\ (old => name \notin from.required),
              Breaking("required-field-added", path))

DiffLevel(from, to, path, Nested(_, _, _)) ==
  IF NotObject \in {from, to} THEN {} ELSE
    LET old == DOMAIN from.properties
        new == DOMAIN to.properties
    IN       ShapeFindings(from, to, path)
        \cup (UNION {FieldFindings(from, to, n, In(path, n)) : n \in old \cup new})
        \cup (UNION {Nested(from.properties[n], to.properties[n], In(path, n)) : n \in old \cap new})

NoLevel(from, to, path) == {}
DiffLevel3(from, to, path) == DiffLevel(from, to, path, NoLevel)
DiffLevel2(from, to, path) == DiffLevel(from, to, path, DiffLevel3)
DiffLevel1(from, to, path) == DiffLevel(from, to, path, DiffLevel2)
DiffSchema(from, to, path) == DiffLevel(from, to, path, DiffLevel1)
-----------------------------------------------------------------------------
(* The diff of two operations, and of two contracts.  A request schema that *)
(* only one of the two has is not a finding.                                *)

DiffResponse(op, from, to, status) ==
  LET path == Path(op, status)
  IN  CASE status \notin DOMAIN to -> {Breaking("status-code-removed", path)}
        [] status \notin DOMAIN from -> {Additive("status-code-added", path)}
        [] OTHER -> DiffSchema(from[status], to[status], path)

DiffOperation(op, from, to) ==
       If(from.security # to.security, Breaking("security-requirements-changed", Path(op, "")))
  \cup (UNION {DiffResponse(op, from.responses, to.responses, status) :
                 status \in DOMAIN from.responses \cup DOMAIN to.responses})
  \cup (IF NoSchema \in {from.request, to.request} THEN {}
        ELSE DiffSchema(from.request, to.request, Path(op, "request")))

DiffContracts(from, to) ==
  LET Of(op) ==
        CASE op \notin DOMAIN to -> {Breaking("operation-removed", Path(op, ""))}
          [] op \notin DOMAIN from -> {Additive("operation-added", Path(op, ""))}
          [] OTHER -> DiffOperation(op, from[op], to[op])
  IN  UNION {Of(op) : op \in DOMAIN from \cup DOMAIN to}

\* aggregateVerdict
Verdict(findings) ==
  CASE findings = {} -> "no-op"
    [] \E f \in findings : f.class = "breaking" -> "breaking"
    [] OTHER -> IF \E f \in findings : f.risky THEN "ambiguous" ELSE "additive"
-----------------------------------------------------------------------------
(* Policies: [enums, fields, nullable], what additions they allow. *)

\* No policy is violated by a removed enum value.
PolicyViolates(finding, policy) ==
  CASE finding.rule = "enum-value-added" -> ~policy.enums
    [] finding.rule = "nullability-changed" -> ~policy.nullable
    [] finding.rule \in {"field-added", "status-code-added", "operation-added"} -> ~policy.fields
    [] finding.rule = "enum-value-removed" -> FALSE
    [] OTHER -> TRUE

\* evaluateCompatibilityPolicy
Allowed(findings, policy) == \A f \in findings : ~PolicyViolates(f, policy)
-----------------------------------------------------------------------------
(* The semantic impact on a consumer, from the terms of its dependency:     *)
(*   [op, fields, statuses, policy, ...].  The rules that find nothing for  *)
(* any consumer: an operation removed or added, a security change, an enum  *)
(* value removed, a field or a status added.                                *)

\* What follows the last dot of a name: all of it, when it has none.
LastPart(name) == IF name \in DOMAIN Dotted THEN Dotted[name] ELSE name

\* fieldOfPath splits the text of the path at every dot, those inside a name included, and
\* takes the last part.  Of an operation or its request that is the end of a label.
FieldOf(path) ==
  IF path.names # <<>> THEN LastPart(path.names[Len(path.names)])
  ELSE IF path.part \in {"", "request"} THEN NoField ELSE LastPart(path.part)

SemanticRule(rule) ==
  CASE rule = "field-removed" -> "semantic-used-field-removed"
    [] rule = "required-field-added" -> "semantic-required-field-assumed-present"
    [] rule \in {"type-changed", "format-changed", "nullability-changed"} ->
         "semantic-shape-changed-on-used-field"
    [] OTHER -> "none"

\* A consumer that names no status expects all of them.
ExpectsStatus(terms, status) ==
  terms.statuses = {} \/ \E s \in terms.statuses : <<s, status>> \in Mentions

\* Mutant: the removal of a used field is found only at the top of a schema that
\* the consumer's policy keeps closed.
AssessConsumerClosed(findings, terms) ==
  LET used == {f \in findings : FieldOf(f.path) \in terms.fields}
      Semantic(rule, blocking, path) == [rule |-> rule, blocking |-> blocking, path |-> path]
  IN  {Semantic("semantic-used-field-removed", ~terms.policy.fields, f.path) :
         f \in {g \in used : g.rule = "field-removed"}}

\* Every semantic finding asks for an action; its risk is "high" when it is
\* blocking and "medium" when it is not.
AssessConsumer(findings, terms) ==
  LET used == {f \in findings : FieldOf(f.path) \in terms.fields}
      Semantic(rule, blocking, path) == [rule |-> rule, blocking |-> blocking, path |-> path]
  IN       {Semantic("semantic-unknown-enum", ~terms.policy.enums, f.path) :
              f \in {g \in used : g.rule = "enum-value-added"}}
      \cup {Semantic(SemanticRule(f.rule), TRUE, f.path) :
              f \in {g \in used : SemanticRule(g.rule) # "none"}}
      \cup {Semantic("semantic-error-meaning-changed", TRUE, f.path) :
              f \in {g \in findings : /\ g.rule = "status-code-removed"
                                      /\ ExpectsStatus(terms, g.path.part)}}

OverallRisk(semantic) ==
  CASE semantic = {} -> "none"
    [] \E s \in semantic : s.blocking -> "high"
    [] OTHER -> "medium"

\* canOverrideVerdict: a reason, and the decision record it refers to.
CanOverrideVerdict(override) == override.reason /\ override.decision
=============================================================================
