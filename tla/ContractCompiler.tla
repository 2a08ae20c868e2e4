-------------------------- MODULE ContractCompiler --------------------------
(***************************************************************************)
(* The compiler of approved changes: from the published contract and the   *)
(* changes that decisions approve to the next contract, its changelog, the *)
(* migration guides and the test drafts.  A compilation is synchronous and *)
(* changes nothing; its output, which names the contract it came from, is  *)
(* published by the caller.                                                *)
(*                                                                         *)
(* A change names its kind, the decision it cites, its operation, the part *)
(* of the operation ("request" or a status), and a field, value or schema. *)
(***************************************************************************)
EXTENDS ImpactAnalysis, Deliberation, Functions

CONSTANTS BaseContract,  \* the contract first published
          Imports,       \* contracts published without a compilation
          Inputs,        \* what compilations are given
          Terms,         \* of the dependencies of consumers
          MaxDepth,      \* bound: how deep schemas are nested
          MaxVersions    \* bound: contracts published

\* Every operation has its security, its request and its responses.
OperationsWhole(contract) ==
  \A op \in DOMAIN contract : {"security", "request", "responses"} \subseteq DOMAIN contract[op]

ASSUME CompilerAssumption ==
  /\ \A contract \in Imports \cup {BaseContract} : OperationsWhole(contract)
  /\ \A input \in Inputs : input.changes \in Seq(Range(input.changes))

VARIABLES published,  \* the contracts published so far, the latest last
          artifact    \* the latest output, as a sequence of at most one

compilerVars == <<published, artifact>>

Contract == published[Len(published)]

\* A schema, those of its properties, those of theirs: on every level down.
HasEmptyEnum(schema) ==
  LET level[depth \in 0 .. MaxDepth] ==
        IF depth = 0 THEN {schema} \ {NotObject}
        ELSE (UNION {Range(s.properties) : s \in level[depth - 1]}) \ {NotObject}
  IN  \E depth \in 0 .. MaxDepth : \E s \in level[depth] : s.enum = {}

\* collectCompileErrors, on what compile_spec gathers for a proposal: refused while
\* it is not accepted, or has open objections or questions, or when a change cites a
\* decision that is not linked to it.
Compilable(input) ==
  /\ input.accepted
  /\ OpenBlockingObjections(input.proposal) = {}
  /\ UnresolvedQuestions(input.proposal) = {}
  /\ \A c \in Range(input.changes) : c.decision \in LinkedDecisions(input.proposal)
-----------------------------------------------------------------------------
(* One change.  applyChange reports an error, and the compilation fails,    *)
(* when the change does not resolve.                                        *)

SchemaOf(operation, part) ==
  IF part = "request" THEN operation.request ELSE operation.responses[part]

HasSchema(operation, part) ==
  /\ part = "request" \/ part \in DOMAIN operation.responses
  /\ SchemaOf(operation, part) \notin {NoSchema, NotObject}

\* resolveEnum: the schema that has the enum is the target or one of its fields.
EnumResolves(schema, field) ==
  \/ field = NoField /\ schema.enum # NoEnum
  \/ /\ field \in DOMAIN schema.properties /\ schema.properties[field] # NotObject
     /\ schema.properties[field].enum # NoEnum

Resolves(contract, c) ==
  /\ c.op \in DOMAIN contract
  /\ LET operation == contract[c.op]
     IN  CASE c.kind = "add-response-status" -> c.part \notin DOMAIN operation.responses
           [] c.kind = "remove-response-status" -> c.part \in DOMAIN operation.responses
           [] OTHER ->
                /\ HasSchema(operation, c.part)
                /\ LET schema == SchemaOf(operation, c.part)
                   IN  CASE c.kind \in {"add-enum-value", "remove-enum-value"} ->
                              EnumResolves(schema, c.field)
                         [] c.kind \in {"remove-field", "mark-required"} ->
                              c.field \in DOMAIN schema.properties
                         [] OTHER -> c.kind = "add-optional-field"

WithEnum(schema, field, values) ==
  IF field = NoField THEN [schema EXCEPT !.enum = values]
  ELSE [schema EXCEPT !.properties[field].enum = values]

EnumAt(schema, field) == IF field = NoField THEN schema.enum ELSE schema.properties[field].enum

\* Mutant: a field that was removed is still required.
WithoutProperty(schema, field) ==
  [schema EXCEPT !.properties = [n \in DOMAIN @ \ {field} |-> @[n]]]

WithoutField(schema, field) ==
  [schema EXCEPT !.properties = [n \in DOMAIN @ \ {field} |-> @[n]], !.required = @ \ {field}]

\* An "optional" field that was there, and required, stays required.
ChangedSchema(schema, c) ==
  CASE c.kind = "add-enum-value" ->
         WithEnum(schema, c.field, EnumAt(schema, c.field) \cup {c.value})
    [] c.kind = "remove-enum-value" ->
         WithEnum(schema, c.field, EnumAt(schema, c.field) \ {c.value})
    [] c.kind = "add-optional-field" ->
         [schema EXCEPT !.properties = [n \in DOMAIN @ \cup {c.field} |->
                                          IF n = c.field THEN c.schema ELSE @[n]]]
    [] c.kind = "remove-field" -> WithoutField(schema, c.field)
    [] OTHER -> [schema EXCEPT !.required = @ \cup {c.field}]

WithResponse(responses, status, schema) ==
  [s \in DOMAIN responses \cup {status} |-> IF s = status THEN schema ELSE responses[s]]

WithoutResponse(responses, status) == [s \in DOMAIN responses \ {status} |-> responses[s]]

ChangedOperation(operation, c) ==
  CASE c.kind = "add-response-status" ->
         [operation EXCEPT !.responses = WithResponse(@, c.part, c.schema)]
    [] c.kind = "remove-response-status" ->
         [operation EXCEPT !.responses = WithoutResponse(@, c.part)]
    [] OTHER -> IF c.part = "request" THEN [operation EXCEPT !.request = ChangedSchema(@, c)]
                ELSE [operation EXCEPT !.responses[c.part] = ChangedSchema(@, c)]

\* An enum value that is there already, or not there, or a field that is required
\* already, leaves no entry in the changelog; every other change does.
ChangelogEntry(operation, c) ==
  LET added   == {"add-enum-value", "add-optional-field", "add-response-status"}
      kind    == CASE c.kind \in added -> "added"
                   [] c.kind = "mark-required" -> "changed"
                   [] OTHER -> "removed"
      logged  == CASE c.kind \in {"add-enum-value", "remove-enum-value", "mark-required"} ->
                        ChangedOperation(operation, c) # operation
                   [] OTHER -> TRUE
  IN  If(logged, [kind |-> kind, op |-> c.op, part |-> c.part, decision |-> c.decision])
-----------------------------------------------------------------------------
(* The compilation of an input, and its output.                             *)

\* Mutant: the status codes a compilation removes are not logged.
ApplySilently(step, c) ==
  IF ~step.ok \/ ~Resolves(step.contract, c) THEN [step EXCEPT !.ok = FALSE]
  ELSE [ok        |-> TRUE,
        contract  |-> [step.contract EXCEPT ![c.op] = ChangedOperation(@, c)],
        changelog |-> step.changelog \cup
                        (IF c.kind = "remove-response-status" THEN {}
                         ELSE ChangelogEntry(step.contract[c.op], c))]

\* The changes of an input apply one after the other, to a copy of the contract.
Apply(step, c) ==
  IF ~step.ok \/ ~Resolves(step.contract, c) THEN [step EXCEPT !.ok = FALSE]
  ELSE [ok        |-> TRUE,
        contract  |-> [step.contract EXCEPT ![c.op] = ChangedOperation(@, c)],
        changelog |-> step.changelog \cup ChangelogEntry(step.contract[c.op], c)]

ApplyAll(contract, changes) ==
  LET after[n \in 0 .. Len(changes)] ==
        IF n = 0 THEN [ok |-> TRUE, contract |-> contract, changelog |-> {}]
        ELSE Apply(after[n - 1], changes[n])
  IN  after[Len(changes)]

\* validateOutput looks at the responses only: a request may lose all its values.
Sane(contract) ==
  \A op \in DOMAIN contract : \A status \in DOMAIN contract[op].responses :
    ~HasEmptyEnum(contract[op].responses[status])

\* buildMigrationGuides: the steps for a consumer.
MigrationGuide(analysis) ==
  {a.kind : a \in analysis.actions} \cup
    (CASE analysis.impact = "none" -> {"confirm"}
       [] analysis.impact = "blocking" -> {"coordinate"}
       [] analysis.impact = "unknown" -> {"declare fields"}
       [] OTHER -> {})

\* buildTestDrafts
ProviderDrafts(changes) ==
  {Action(c.kind, Path(c.op, c.part)) :
     c \in {d \in Range(changes) : d.kind \in {"add-enum-value", "remove-field",
                                  "remove-enum-value", "remove-response-status"}}}

ConsumerDrafts(analysis) ==
  IF analysis.impact \notin {"blocking", "action-required"} THEN {}
  ELSE {Action("contract-test", Path("compiled-contract", ""))}
       \cup {a \in analysis.actions : a.kind = "unknown-enum-handling"}

CompilerInit == published = <<BaseContract>> /\ artifact = <<>>

\* The adapter's compile, given the analyses of the consumers; an error leaves no
\* output behind.
Compile(input, analyses) ==
  LET step == ApplyAll(Contract, input.changes)
  IN  /\ Compilable(input) /\ step.ok /\ Sane(step.contract)
      /\ artifact' = <<[base      |-> Contract,
                        contract  |-> step.contract,
                        changelog |-> step.changelog,
                        guides    |-> [k \in DOMAIN analyses |-> MigrationGuide(analyses[k])],
                        drafts    |-> ProviderDrafts(input.changes) \cup
                                        UNION {ConsumerDrafts(analyses[k]) : k \in DOMAIN analyses}]>>
      /\ UNCHANGED published

\* Nothing asks whether the contract it was compiled from is still the latest.
PublishArtifact ==
  /\ artifact # <<>> /\ Len(published) < MaxVersions
  /\ published' = Append(published, artifact[1].contract)
  /\ artifact' = <<>>

\* A version that an importer read from the provider's own file.
PublishImported(contract) ==
  /\ Len(published) < MaxVersions
  /\ published' = Append(published, contract)
  /\ UNCHANGED artifact

CompilerNext(analyses) ==
  \/ \E input \in Inputs : Compile(input, analyses)
  \/ PublishArtifact
  \/ \E contract \in Imports : PublishImported(contract)
-----------------------------------------------------------------------------
(* What the compiled and the published contracts owe their readers.         *)

\* The pairs of contracts of which one takes the other's place.
Successions ==
       {<<published[i], published[i + 1]>> : i \in 1 .. Len(published) - 1}
  \cup {<<Contract, artifact[i].contract>> : i \in DOMAIN artifact}

Everything == "everything"
Null == "null"

\* The documents a schema admits, on the four levels that are diffed; with all the fields
\* it declares, or with the required ones at least.
DocumentsLevel(schema, full, Nested(_, _)) ==
  LET FieldSets == {names \in SUBSET DOMAIN schema.properties :
                      IF full THEN names = DOMAIN schema.properties ELSE schema.required \subseteq names}
      Fields(names) == {f \in [names -> UNION {Nested(schema.properties[n], full) : n \in names}] :
                          \A n \in names : f[n] \in Nested(schema.properties[n], full)}
  IN  [type : {schema.type}, format : {schema.format},
       value : (IF schema.enum = NoEnum THEN {Everything} ELSE schema.enum)
               \cup (IF schema.nullable = "yes" THEN {Null} ELSE {}),
       fields : UNION {Fields(names) : names \in FieldSets}]

DocumentsBelow(schema, full) == {Everything}
Documents3(schema, full) == DocumentsLevel(schema, full, DocumentsBelow)
Documents2(schema, full) == DocumentsLevel(schema, full, Documents3)
Documents1(schema, full) == DocumentsLevel(schema, full, Documents2)
Documents(schema, full) == DocumentsLevel(schema, full, Documents1)

\* A reader ignores the fields it does not know.
ReadsLevel(schema, document, Nested(_, _)) ==
  /\ document.type = schema.type /\ document.format = schema.format
  /\ \/ document.value = Null /\ schema.nullable = "yes"
     \/ IF schema.enum = NoEnum THEN document.value # Null ELSE document.value \in schema.enum
  /\ schema.required \subseteq DOMAIN document.fields
  /\ \A n \in DOMAIN document.fields \cap DOMAIN schema.properties :
       Nested(schema.properties[n], document.fields[n])

ReadsBelow(schema, document) == TRUE
Reads3(schema, document) == ReadsLevel(schema, document, ReadsBelow)
Reads2(schema, document) == ReadsLevel(schema, document, Reads3)
Reads1(schema, document) == ReadsLevel(schema, document, Reads2)
Reads(schema, document) == ReadsLevel(schema, document, Reads1)

\* What the diff can compare: schemas, of which the reader's requires fields that it
\* declares; an enum without values counts as none.
ComparableLevel(reader, writer, Nested(_, _)) ==
  /\ NotObject \notin {reader, writer}
  /\ reader.required \subseteq DOMAIN reader.properties
  /\ reader.enum = {} => writer.enum # NoEnum
  /\ \A n \in DOMAIN reader.properties \cap DOMAIN writer.properties :
       Nested(reader.properties[n], writer.properties[n])

ComparableBelow(reader, writer) == TRUE
Comparable3(reader, writer) == ComparableLevel(reader, writer, ComparableBelow)
Comparable2(reader, writer) == ComparableLevel(reader, writer, Comparable3)
Comparable1(reader, writer) == ComparableLevel(reader, writer, Comparable2)
Comparable(reader, writer) == ComparableLevel(reader, writer, Comparable1)

\* Consumers read responses and send requests.  A schema that stops being an object is no
\* finding, and is left out, like a request that only one of the two has.
ComparableContracts(from, to) ==
  \A op \in DOMAIN from \cap DOMAIN to :
    /\ \A status \in DOMAIN from[op].responses \cap DOMAIN to[op].responses :
         LET old == from[op].responses[status]
             new == to[op].responses[status]
         IN  NotObject \notin {old, new} => Comparable(old, new)
    /\ NoSchema \notin {from[op].request, to[op].request} =>
         Comparable(to[op].request, from[op].request)

\* No field of a response loses its enum: the diff takes that for the removal of its values.
EnumsStay(from, to) ==
  \A op \in DOMAIN from \cap DOMAIN to :
    \A status \in DOMAIN from[op].responses \cap DOMAIN to[op].responses :
      LET old == from[op].responses[status]
          new == to[op].responses[status]
      IN  NotObject \notin {old, new} =>
            \A n \in DOMAIN old.properties \cap DOMAIN new.properties :
              new.properties[n].enum = NoEnum => old.properties[n].enum = NoEnum

\* What is published or compiled can be compared with what it takes the place of: the
\* diff, the verdict and the impact mean something for it.
SuccessionsComparable ==
  \A s \in Successions : ComparableContracts(s[1], s[2]) /\ EnumsStay(s[1], s[2])

\* A consumer that goes on reading and sending what it did is served.  Responses are
\* compared on the documents with all the fields their schema declares, because that a
\* required field became optional is no finding.
Serves(from, to) ==
  \A op \in DOMAIN from :
    /\ op \in DOMAIN to
    /\ \A status \in DOMAIN from[op].responses :
         /\ status \in DOMAIN to[op].responses
         /\ LET old == from[op].responses[status]
                new == to[op].responses[status]
            IN  NotObject \notin {old, new} => \A d \in Documents(new, TRUE) : Reads(old, d)
    /\ NoSchema \notin {from[op].request, to[op].request} =>
         \A d \in Documents(from[op].request, FALSE) : Reads(to[op].request, d)

\* When the verdict is "no-op" or "additive", consumers are served.
QuietVerdictsAreSafe ==
  \A s \in Successions :
    Verdict(DiffContracts(s[1], s[2])) \in {"no-op", "additive"} => Serves(s[1], s[2])

\* The fields a consumer uses, that are values and not objects, are still there and still
\* read in every response that is left of the operations it depends on.  Of a name with a
\* dot in it the impact never hears.
StaysReadable(from, to, terms) ==
  \A op \in DOMAIN from \cap DOMAIN to :
    <<terms.op, op>> \in Covers =>
      \A status \in DOMAIN from[op].responses \cap DOMAIN to[op].responses :
        LET old == from[op].responses[status]
            new == to[op].responses[status]
        IN  NotObject \notin {old, new} =>
              \A n \in terms.fields \cap DOMAIN old.properties :
                LastPart(n) = n /\ DOMAIN old.properties[n].properties = {} =>
                  /\ n \in DOMAIN new.properties
                  /\ \A d \in Documents(new.properties[n], TRUE) : Reads(old.properties[n], d)

\* When the impact on a consumer is "none", what it uses stays readable, under names
\* without a dot.
NoneMeansReadable ==
  \A s \in Successions, terms \in Terms :
    AnalyzeConsumer(DiffContracts(s[1], s[2]), terms).impact = "none" =>
      StaysReadable(s[1], s[2], terms)

\* Whatever the diff finds between a contract and what was compiled from it, the
\* changelog has an entry for that part of that operation.
NoSilentChange ==
  \A i \in DOMAIN artifact :
    \A f \in DiffContracts(artifact[i].base, artifact[i].contract) :
      \E e \in artifact[i].changelog : e.op = f.path.op /\ e.part = f.path.part
-----------------------------------------------------------------------------
(* What makes it inductive.                                                 *)

Logged(changelog, op, part) == \E e \in changelog : e.op = op /\ e.part = part

\* What of an operation is not in the changelog is as it was: its security always.
OperationLogged(old, new, changelog, op) ==
  /\ old.security = new.security
  /\ Logged(changelog, op, "request") \/ old.request = new.request
  /\ \A status \in DOMAIN old.responses \cup DOMAIN new.responses :
       \/ Logged(changelog, op, status)
       \/ /\ status \in DOMAIN old.responses \cap DOMAIN new.responses
          /\ old.responses[status] = new.responses[status]

LoggedOnly(base, contract, changelog) ==
  /\ DOMAIN contract = DOMAIN base
  /\ \A op \in DOMAIN base : OperationLogged(base[op], contract[op], changelog, op)

CompilerIInv ==
  /\ published \in Seq(Range(published)) /\ published # <<>>
  /\ artifact = <<>> \/ artifact = <<artifact[1]>>
  /\ \A i \in DOMAIN published : OperationsWhole(published[i])
  /\ \A i \in DOMAIN artifact :
       /\ OperationsWhole(artifact[i].contract)
       /\ LoggedOnly(artifact[i].base, artifact[i].contract, artifact[i].changelog)
-----------------------------------------------------------------------------
(* What inputs keep the contracts comparable.  Responses are lasting in order  *)
(* by the check on the output; what it does not look at, the inputs have to *)
(* keep in order themselves.                                                *)

\* A schema on the levels that are diffed: its properties are schemas, and it declares
\* what it requires.
WholeLevel(schema, Nested(_)) ==
  /\ schema # NotObject /\ {"enum", "required", "properties"} \subseteq DOMAIN schema
  /\ schema.required \subseteq DOMAIN schema.properties
  /\ \A n \in DOMAIN schema.properties : Nested(schema.properties[n])

WholeBelow(schema) == TRUE
Whole3(schema) == WholeLevel(schema, WholeBelow)
Whole2(schema) == WholeLevel(schema, Whole3)
Whole1(schema) == WholeLevel(schema, Whole2)
Whole(schema) == WholeLevel(schema, Whole1) /\ NoField \notin DOMAIN schema.properties

\* Each enum has one of the values that no change removes from a request.
KeepsLevel(schema, lasting, Nested(_, _)) ==
  /\ schema.enum # NoEnum => schema.enum \cap lasting # {}
  /\ \A n \in DOMAIN schema.properties : Nested(schema.properties[n], lasting)

KeepsBelow(schema, lasting) == TRUE
Keeps3(schema, lasting) == KeepsLevel(schema, lasting, KeepsBelow)
Keeps2(schema, lasting) == KeepsLevel(schema, lasting, Keeps3)
Keeps1(schema, lasting) == KeepsLevel(schema, lasting, Keeps2)
Keeps(schema, lasting) == KeepsLevel(schema, lasting, Keeps1)

\* A field of a response has an enum in every contract that has the field, or in none.
FieldCoded(field, at, coded, values) ==
  IF at \in coded THEN field.enum # NoEnum /\ field.enum \subseteq values ELSE field.enum = NoEnum

Coded(schema, op, status, coded, values) ==
  \A n \in DOMAIN schema.properties :
    FieldCoded(schema.properties[n], <<op, status, n>>, coded, values)

OperationFits(operation, op, coded, values, lasting) ==
  /\ {"security", "request", "responses"} \subseteq DOMAIN operation
  /\ operation.request # NoSchema => Whole(operation.request) /\ Keeps(operation.request, lasting)
  /\ \A status \in DOMAIN operation.responses :
       LET schema == operation.responses[status]
       IN  schema # NotObject => Whole(schema) /\ Coded(schema, op, status, coded, values)

ContractFits(contract, coded, values, lasting) ==
  \A op \in DOMAIN contract : OperationFits(contract[op], op, coded, values, lasting)

ChangeFits(c, coded, values, lasting) ==
  CASE c.kind = "add-enum-value" -> c.value \in values
    [] c.kind = "remove-enum-value" -> c.part = "request" => c.value \notin lasting
    [] c.kind = "add-optional-field" ->
         /\ c.field # NoField /\ Whole1(c.schema)
         /\ IF c.part = "request" THEN Keeps1(c.schema, lasting)
            ELSE FieldCoded(c.schema, <<c.op, c.part, c.field>>, coded, values)
    [] c.kind = "add-response-status" ->
         c.schema # NotObject => Whole(c.schema) /\ Coded(c.schema, c.op, c.part, coded, values)
    [] OTHER -> TRUE

\* What is published or compiled by one step, where it was imported or changed so that it
\* fits.  Nothing in the code asks for this.
FittingStep(coded, values, lasting, analyses) ==
  \/ \E input \in Inputs :
       /\ Compile(input, analyses)
       /\ \A c \in Range(input.changes) : ChangeFits(c, coded, values, lasting)
  \/ PublishArtifact
  \/ \E contract \in Imports :
       /\ PublishImported(contract)
       /\ ContractFits(contract, coded, values, lasting) /\ Sane(contract)

\* Where it starts from.
StartFits(coded, values, lasting) ==
  /\ \A enum \in SUBSET values : enum # NoEnum
  /\ ContractFits(BaseContract, coded, values, lasting) /\ Sane(BaseContract)

\* Inputs with which every step fits.
InputsFit(coded, values, lasting) ==
  /\ \A enum \in SUBSET values : enum # NoEnum
  /\ \A contract \in Imports \cup {BaseContract} :
       ContractFits(contract, coded, values, lasting) /\ Sane(contract)
  /\ \A input \in Inputs : \A c \in Range(input.changes) : ChangeFits(c, coded, values, lasting)

CompilerFits(coded, values, lasting) ==
  /\ \A i \in DOMAIN published :
       ContractFits(published[i], coded, values, lasting) /\ Sane(published[i])
  /\ \A i \in DOMAIN artifact :
       ContractFits(artifact[i].contract, coded, values, lasting) /\ Sane(artifact[i].contract)
=============================================================================
