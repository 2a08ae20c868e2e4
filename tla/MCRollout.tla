------------------------------ MODULE MCRollout ------------------------------
(***************************************************************************)
(* A small instance of the rollout.  Each behaviour plays one scenario: a  *)
(* part of the system, with what it takes from the others.                 *)
(***************************************************************************)
EXTENDS Rollout, TLC

CONSTANTS p1, e1, d1, team, k1, k2, s1, c1, c2, c3, c4, r1, a1, a2, q1, q2,
          h1, h2, h3, h4, b1, b2, i1, i2, m1, m2, o1, o2

VARIABLE scenario

(* Contracts. *)

Value(values) ==
  [type |-> "string", format |-> "none", nullable |-> "unset", enum |-> values,
   required |-> {}, properties |-> <<>>]

Text == Value(NoEnum)

Object(required, properties) ==
  [Text EXCEPT !.type = "object", !.required = required, !.properties = properties]

Pay ==
  [security  |-> {},
   request   |-> Object({"amount"}, "amount" :> Value({"k", "l"})),
   responses |-> "200" :> Object({"status"}, "status" :> Value({"a", "b"})
                                             @@ "payer" :> Object({}, "name" :> Text)
                                             @@ "payer.id" :> Text)
                 @@ "404" :> NotObject]

List == [security |-> {}, request |-> NoSchema, responses |-> "200" :> Object({}, <<>>)]

FirstContract == "pay" :> Pay @@ "list" :> List

NullableName ==
  [Pay EXCEPT !.responses["200"].properties["payer"].properties["name"].nullable = "yes"]

ImportedContracts ==
  {"list" :> List, "pay" :> NullableName @@ "list" :> List,
   "pay" :> [Pay EXCEPT !.security = {"token"}] @@ "list" :> List}

Change(kind, part, field, value, schema) ==
  [kind |-> kind, op |-> "pay", part |-> part, field |-> field, value |-> value,
   schema |-> schema, decision |-> d1]

AddsValue   == Change("add-enum-value", "200", "status", "c", Text)
DropsValue  == Change("remove-enum-value", "200", "status", "a", Text)
DropsOther  == Change("remove-enum-value", "200", "status", "b", Text)
DropsStatus == Change("remove-field", "200", "status", "", Text)
AddsStatus  == Change("add-optional-field", "200", "status", "", Value({"a", "b"}))
AddsNote    == Change("add-optional-field", "200", "note", "", Text)
NeedsNote   == Change("mark-required", "200", "note", "", Text)
DropsPayer  == Change("remove-field", "200", "payer.id", "", Text)
DropsNote   == Change("remove-field", "200", "note", "", Text)
Drops404    == Change("remove-response-status", "404", NoField, "", Text)
Adds201     == Change("add-response-status", "201", NoField, "", Text)
OnRequest(c) == [c EXCEPT !.part = "request"]
DropsAmount == Change("remove-enum-value", "request", "amount", "k", Text)

CompileInputs ==
  [proposal : {p1}, accepted : {TRUE},
   changes : {<<AddsValue>>, <<DropsValue>>, <<DropsValue, DropsOther>>, <<DropsStatus>>,
              <<DropsStatus, AddsStatus>>, <<DropsPayer>>, <<AddsNote>>, <<AddsNote, NeedsNote>>, <<NeedsNote>>,
              <<AddsNote, NeedsNote, DropsNote>>, <<Drops404>>, <<Drops404, Adds201>>, <<Adds201>>,
              <<OnRequest(AddsNote)>>, <<OnRequest(AddsNote), OnRequest(NeedsNote)>>,
              <<DropsAmount>>, <<[AddsNote EXCEPT !.part = "404"]>>,
              <<[AddsNote EXCEPT !.op = "refund"]>>}]
  \cup {[proposal |-> p1, accepted |-> FALSE, changes |-> <<AddsValue>>]}

\* The inputs keep successions comparable: the status is the one field of a response with
\* an enum, always, and no change takes the value "l" from a request.
ASSUME RolloutInputsFit ==
  InputsFit({<<"pay", "200", "status">>}, {"a", "b", "c"}, {"l"})

(* Consumers. *)

ClosedPolicy == [enums |-> FALSE, fields |-> FALSE, nullable |-> FALSE]
OpenPolicy == [enums |-> TRUE, fields |-> TRUE, nullable |-> TRUE]

Dependency(fields, statuses, policy) ==
  [op |-> "contract:GET:pay", fields |-> fields, statuses |-> statuses, policy |-> policy,
   owner |-> team, source |-> "explicit", timeout |-> TRUE]

AllTerms ==
  {Dependency({}, {}, OpenPolicy), Dependency({"status"}, {}, OpenPolicy),
   Dependency({"payer.id"}, {}, ClosedPolicy),
   Dependency({"status", "amount"}, {"404"}, ClosedPolicy), Dependency({"name"}, {"200"}, OpenPolicy)}

DeclaredTerms == {Dependency({"status"}, {}, OpenPolicy), Dependency({"status"}, {}, ClosedPolicy)}

SomeDiffs ==
  {DiffContracts(FirstContract,
     [FirstContract EXCEPT !["pay"] = [Pay EXCEPT !.responses["200"].properties["status"].enum = @ \cup {"c"}]])}

DottedNames == "payer.id" :> "id"
SameText == {<<"404", "404">>, <<"200", "200">>}
OperationText == {<<"contract:GET:pay", "pay">>}
TeamOfAll == [k \in Edges |-> team]
Deadlines == [k \in Edges |-> 1]
Digests == {[subscriber |-> team, scope |-> "operation", target |-> "pay", digest |-> "daily"]}

(* Calls of agents: corrections of one item, two of them with one key, and a comment *)
(* that carries the key of the two and comes from a caller without the scope.        *)

CallKey == c1 :> "k" @@ c2 :> "k" @@ c3 :> NoKey @@ c4 :> "k"
CallTool == c1 :> "correct_context" @@ c2 :> "correct_context"
            @@ c3 :> "correct_context" @@ c4 :> "comment_on_proposal"
CallSubject == c1 :> "item" @@ c2 :> "item" @@ c3 :> "item" @@ c4 :> "entry"

(* Deliveries: three attempts of a check run, and one of an event of no interest.    *)

AttemptOf == h1 :> b1 @@ h2 :> b1 @@ h3 :> b1 @@ h4 :> b2

(* Imports of two revisions, one of which has operations that do not parse.          *)

Parsed == m1 :> {o1, o2} @@ m2 :> {o1}
Roles == o1 :> {"request", "response"} @@ o2 :> {}
-----------------------------------------------------------------------------
ScenarioInit ==
  /\ RolloutInit /\ revision = r1
  /\ scenario \in {"compile", "declare", "analyse", "evidence", "document",
                    "deliver", "agents", "sessions", "webhooks", "import"}

NoAssumptions == UNCHANGED adding /\ UNCHANGED kept

NoDeprecation == \A e \in Edges : edges'[e] # Nothing => ~edges'[e].deprecated

Resting == \A a \in Analysts : recording[a] = "idle"

\* Only k1 is declared again, and on other terms; k2 before the first analysis, if at all.
DeclaredOnce ==
  /\ edges[k2] # Nothing \/ ~Resting \/ recorded # <<>> => UNCHANGED <<edges[k2]>>
  /\ edges'[k2] # Nothing => edges'[k2].terms.policy = OpenPolicy

\* What one analyst says of one edge comes before what is made of it.
OneAnalysis ==
  /\ KeepRecords /\ NoAssumptions /\ NoDeprecation
  /\ edges'[k2] = Nothing /\ recorded = <<>>
  /\ Cardinality({a \in Analysts : recording'[a] # "idle"}) <= 1
  /\ edges[k1] # Nothing => UNCHANGED edges
  /\ notices = <<>> /\ outbox = <<>>

\* Three notices are dispatched at most, and no more than two of them from one outbox.
FewAtOnce == Len(outbox') <= 2

Interchangeable == Permutations({a1, a2}) \cup Permutations({q1, q2}) \cup Permutations({i1, i2})

\* The gate tells "skipped" from "waived" by the kind of the evidence only.  One canary at
\* most, of no consumer, beside the tests of a consumer and the waivers.
EvidenceOfTwoKinds ==
  /\ \A e \in evidence' :
       /\ {e.kind, e.waives} \subseteq {"consumer-contract-test", "canary-result", "waiver", "nothing"}
       /\ e.status # "skipped"
       /\ e.kind = "canary-result" => e.consumer = Nobody
  /\ Cardinality({e \in evidence' : e.kind = "canary-result"}) <= 1

ScenarioNext ==
  /\ UNCHANGED scenario
  /\ \/ scenario = "compile" /\ (Deliberate \/ ChangeContract)
     \/ scenario = "declare" /\ (\/ PassTime \/ (KeepRecords /\ UNCHANGED pinned)
                                 \/ Notify /\ UNCHANGED <<notices, outbox>>)
     \/ scenario = "analyse" /\ (\/ PassTime
                                 \/ KeepRecords /\ NoAssumptions /\ NoDeprecation /\ DeclaredOnce)
     \/ scenario = "evidence" /\ (PassTime \/ (GiveEvidence /\ EvidenceOfTwoKinds))
     \/ scenario = "document" /\ (Deliberate \/ OneAnalysis \/ (ChangeContract /\ UNCHANGED published))
     \/ scenario = "deliver" /\ (\/ PassTime /\ recorded # <<>>
                                 \/ OneAnalysis
                                 \/ Notify /\ UNCHANGED subscriptions /\ Resting /\ FewAtOnce)
     \/ scenario = "agents" /\ ServeAgents
     \/ scenario = "sessions" /\ (PassTime \/ (ServeRequests /\ UNCHANGED webhookVars))
     \/ scenario = "webhooks" /\ ServeRequests /\ UNCHANGED sessionVars
     \/ scenario = "import" /\ ImportCatalog

ScenarioSpec == ScenarioInit /\ [][ScenarioNext]_<<rolloutVars, scenario>>
=============================================================================
